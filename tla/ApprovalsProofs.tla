--------------------------- MODULE ApprovalsProofs ---------------------------
(***************************************************************************)
(* No call passes on an answer its user did not give for it, for all       *)
(* sessions, calls, decisions, limits and bounds.                          *)
(***************************************************************************)
EXTENDS Approvals, FiniteSetTheorems, TLAPS

Tools == {ToolOf[c] : c \in Call} \cup {"filesystem"}

Keys == [session : Session, generation : Nat, tool : Tools, decision : Decision]

(* A grant or a challenge is its response key and what that key has asked. *)
Issue(i) == [key |-> shown[i], id |-> i]
Issued == {Issue(i) : i \in DOMAIN shown}

Calls == [step : {"idle", "running", "asked"},
          config : [generation : Nat, rules : SUBSET Decision],
          at : Nat, asked : Nat,
          sent : SUBSET answers, held : SUBSET Issued,
          basis : SUBSET (Decision \X Nat)]

Shape ==
  /\ config \in [generation : Nat, rules : SUBSET Decision]
  /\ rules \subseteq Decision
  /\ shown \in Seq(Keys)
  /\ call \in [Call -> Calls]
  /\ \A c \in Call : call[c].step = "running" => call[c].at >= 1
  /\ grants \subseteq Issued /\ challenges \subseteq Issued
  /\ void \subseteq DOMAIN shown /\ spent \subseteq DOMAIN shown

(* What is open has not been used, and no grant comes from what is open or *)
(* from an answer for one invocation.                                      *)
Fresh ==
  /\ \A e \in grants \cup challenges : e.id \notin void \cup spent
  /\ \A g \in grants, h \in challenges : g.id # h.id

Given(id, d) == \E a \in answers : a.id = id /\ a.choice \in Offered(d) \ {"deny"}

(* Every grant is an answer of the user.                                   *)
Accepted ==
  /\ \A g \in grants : Given(g.id, g.key.decision)
  /\ \A c \in Call : \A g \in call[c].held : Given(g.id, g.key.decision)

ApprovalsInv == Shape /\ Fresh /\ Accepted

-----------------------------------------------------------------------------
(* Fields of a call.                                                       *)

LEMMA CallFields ==
  ASSUME Shape, NEW c \in Call
  PROVE  /\ call[c] \in Calls
         /\ call[c].config \in [generation : Nat, rules : SUBSET Decision]
         /\ call[c].config.generation \in Nat /\ call[c].at \in Nat
         /\ call[c].sent \subseteq answers /\ call[c].held \subseteq Issued
BY DEF Shape, Calls

LEMMA IdleCall == Idle \in Calls
BY DEF Idle, Calls

LEMMA AdvancedCall ==
  ASSUME NEW k \in Calls
  PROVE  LET n == [k EXCEPT !.at = @ + 1]
         IN n \in Calls /\ n.at = k.at + 1 /\ n.held = k.held /\ n.basis = k.basis
BY DEF Calls

LEMMA AdvancedOnCall ==
  ASSUME NEW k \in Calls, NEW d \in Decision, NEW id \in Nat
  PROVE  LET n == [k EXCEPT !.at = @ + 1, !.basis = @ \cup {<<d, id>>}]
         IN n \in Calls /\ n.at = k.at + 1 /\ n.held = k.held /\ n.basis = k.basis \cup {<<d, id>>}
<1> DEFINE m == [k EXCEPT !.at = @ + 1]
           n == [m EXCEPT !.basis = @ \cup {<<d, id>>}]
<1>1. m \in Calls /\ m.at = k.at + 1 /\ m.held = k.held /\ m.basis = k.basis
  BY AdvancedCall
<1>2. [k EXCEPT !.at = @ + 1, !.basis = @ \cup {<<d, id>>}] = n
  BY Zenon
<1> HIDE DEF m
<1>3. n \in Calls /\ n.at = m.at /\ n.held = m.held /\ n.basis = m.basis \cup {<<d, id>>}
  BY <1>1 DEF Calls
<1> QED
  BY <1>1, <1>2, <1>3

-----------------------------------------------------------------------------
(* What is issued.                                                         *)

LEMMA IssuedFacts ==
  ASSUME Shape, NEW e \in Issued
  PROVE  /\ e.id \in DOMAIN shown /\ e.id \in Nat /\ e.key = shown[e.id]
         /\ e = Issue(e.id) /\ e.key \in Keys
<1>1. PICK i \in DOMAIN shown : e = Issue(i)
  BY DEF Issued
<1>2. shown \in Seq(Keys)
  BY DEF Shape
<1>3. i \in Nat /\ shown[i] \in Keys
  BY <1>1, <1>2
<1> QED
  BY <1>1, <1>3 DEF Issue

LEMMA Counted == ASSUME NEW n \in Nat PROVE Cardinality(1 .. n) = n
<1>1. Cardinality(1 .. n) = IF 1 > n THEN 0 ELSE n - 1 + 1
  BY FS_Interval
<1> QED
  BY <1>1

(* A key that is issued later than another has another number.             *)
LEMMA NextIsNew ==
  ASSUME Shape
  PROVE  NextId = Len(shown) + 1 /\ NextId \in Nat /\ NextId \notin DOMAIN shown
<1>1. shown \in Seq(Keys)
  BY DEF Shape
<1>2. Len(shown) \in Nat /\ DOMAIN shown = 1 .. Len(shown)
  BY <1>1
<1>3. Cardinality(1 .. Len(shown)) = Len(shown)
  BY <1>2, Counted, Zenon
<1> QED
  BY <1>2, <1>3 DEF NextId

(* The decision a call stands at, and what would be issued for it.         *)
LEMMA CurrentDecision ==
  ASSUME ApprovalsAssumption, Shape, NEW c \in Call, Running(c)
  PROVE  Current(c) \in Decision /\ Key(c, Current(c)) \in Keys
<1>1. call[c].config.generation \in Nat /\ call[c].at \in Nat
  BY CallFields
<1>2. NeedsOf[c] \in Seq(Decision) /\ SessionOf[c] \in Session
  BY DEF ApprovalsAssumption
<1>3. call[c].at \in 1 .. Len(NeedsOf[c])
  BY <1>1, <1>2 DEF Shape, Running
<1>4. Current(c) \in Decision
  BY <1>2, <1>3 DEF Current
<1>5. ToolOf[c] \in Tools /\ "filesystem" \in Tools
  BY DEF Tools
<1> QED
  BY <1>1, <1>2, <1>4, <1>5 DEF Key, Keys

(* An answer that a call may use: of an open challenge for its decision.   *)
LEMMA ReplyFacts ==
  ASSUME Shape, NEW c \in Call, NEW r \in Replies(c)
  PROVE  /\ r.challenge \in challenges /\ r.challenge \in Issued
         /\ r.challenge.key = Key(c, Current(c))
         /\ \E a \in answers : a.id = r.challenge.id /\ a.choice = r.choice
<1>1. PICK h \in Keyed(challenges, Key(c, Current(c))), a \in call[c].sent :
         h.id = a.id /\ r = [challenge |-> h, choice |-> a.choice]
  BY DEF Replies
<1>2. h \in challenges /\ h.key = Key(c, Current(c))
  BY DEF Keyed
<1>3. a \in answers
  BY CallFields
<1> QED
  BY <1>1, <1>2, <1>3 DEF Shape

-----------------------------------------------------------------------------
(* Steps.                                                                  *)

LEMMA InitApprovals == Init => ApprovalsInv
<1> SUFFICES ASSUME Init PROVE ApprovalsInv
  OBVIOUS
<1> USE DEF Init
<1>1. Idle.step = "idle" /\ Idle.held = {}
  BY DEF Idle
<1>2. shown \in Seq(Keys) /\ DOMAIN shown = {}
  OBVIOUS
<1>3. Shape
  BY <1>1, <1>2, IdleCall DEF Shape
<1> QED
  BY <1>1, <1>3 DEF ApprovalsInv, Fresh, Accepted

(* Nothing is issued, no call comes to hold more, and what is left open is *)
(* neither used nor of a session that has ended.                           *)
LEMMA Retreats ==
  ASSUME ApprovalsInv,
         config' \in [generation : Nat, rules : SUBSET Decision], rules' \subseteq Decision,
         shown' = shown, answers \subseteq answers',
         call' \in [Call -> Calls'],
         \A c \in Call : call'[c].step = "running" => call'[c].at >= 1,
         \A c \in Call : call'[c].held \subseteq call[c].held,
         grants' \subseteq grants, challenges' \subseteq challenges,
         void' \subseteq DOMAIN shown, spent' = spent,
         \A e \in grants' \cup challenges' : e.id \notin void'
  PROVE  ApprovalsInv'
<1>1. Issued' = Issued /\ DOMAIN shown' = DOMAIN shown
  BY DEF Issued, Issue
<1>2. Shape'
  BY <1>1 DEF ApprovalsInv, Shape
<1>3. Fresh'
  BY DEF ApprovalsInv, Fresh
<1>4. \A id, d : Given(id, d) => Given(id, d)'
  BY DEF Given
<1>5. Accepted'
  <2>1. \A g \in grants' : Given(g.id, g.key.decision)'
    BY <1>4 DEF ApprovalsInv, Accepted
  <2>2. ASSUME NEW c \in Call, NEW g \in call'[c].held PROVE Given(g.id, g.key.decision)'
    BY <1>4 DEF ApprovalsInv, Accepted
  <2> QED
    BY <2>1, <2>2 DEF Accepted
<1> QED
  BY <1>2, <1>3, <1>5 DEF ApprovalsInv

(* One call goes on or ends, and holds no more than before.                *)
LEMMA CallMoves ==
  ASSUME ApprovalsInv, NEW c \in Call, NEW n \in Calls,
         n.step = "running" => n.at >= 1, n.held \subseteq call[c].held,
         call' = [call EXCEPT ![c] = n], challenges' \subseteq challenges,
         UNCHANGED <<config, rules, grants, history>>
  PROVE  ApprovalsInv'
<1>1. call \in [Call -> Calls] /\ \A x \in Call : call[x].step = "running" => call[x].at >= 1
  BY DEF ApprovalsInv, Shape
<1>2. UNCHANGED <<config, rules, grants, shown, void, spent, answers>>
  BY DEF history
<1>3. Calls' = Calls
  BY <1>2 DEF Calls, Issued, Issue
<1>4. /\ call' \in [Call -> Calls']
      /\ \A x \in Call : call'[x].step = "running" => call'[x].at >= 1
      /\ \A x \in Call : call'[x].held \subseteq call[x].held
  BY <1>1, <1>3
<1>5. /\ config \in [generation : Nat, rules : SUBSET Decision] /\ rules \subseteq Decision
      /\ void \subseteq DOMAIN shown
      /\ \A e \in grants \cup challenges : e.id \notin void
  BY DEF ApprovalsInv, Shape, Fresh
<1> HIDE DEF history
<1> QED
  BY <1>2, <1>4, <1>5, Retreats

LEMMA SendKeeps == ASSUME ApprovalsInv, NEW c \in Call, Send(c) PROVE ApprovalsInv'
<1>1. PICK sent \in SUBSET answers :
        call' = [call EXCEPT ![c] = [step |-> "running", config |-> config,
                   at |-> 1, asked |-> 0, sent |-> sent, held |-> {}, basis |-> {}]]
  BY DEF Send
<1> DEFINE n == [step |-> "running", config |-> config,
                 at |-> 1, asked |-> 0, sent |-> sent, held |-> {}, basis |-> {}]
<1>2. config \in [generation : Nat, rules : SUBSET Decision]
  BY DEF ApprovalsInv, Shape
<1>3. n \in Calls /\ (n.step = "running" => n.at >= 1) /\ n.held \subseteq call[c].held
  BY <1>2 DEF Calls
<1> HIDE DEF n
<1>4. call' = [call EXCEPT ![c] = n]
  BY <1>1 DEF n
<1>5. UNCHANGED <<config, rules, grants, history>> /\ challenges' = challenges
  BY DEF Send
<1> QED
  BY <1>3, <1>4, <1>5, CallMoves

LEMMA AnswerKeeps ==
  ASSUME ApprovalsInv, NEW c \in Call, NEW choice \in Choices, Answer(c, choice)
  PROVE  ApprovalsInv'
<1>1. answers \subseteq answers' /\ UNCHANGED <<config, rules, grants, challenges, call, shown, void, spent>>
  BY DEF Answer
<1>2. Issued' = Issued
  BY <1>1 DEF Issued, Issue
<1>3. Calls \subseteq Calls'
  BY <1>1, <1>2 DEF Calls
<1>4. call' \in [Call -> Calls'] /\ \A x \in Call : call'[x].step = "running" => call'[x].at >= 1
  BY <1>1, <1>3 DEF ApprovalsInv, Shape
<1>5. /\ config \in [generation : Nat, rules : SUBSET Decision] /\ rules \subseteq Decision
      /\ void \subseteq DOMAIN shown
      /\ \A e \in grants \cup challenges : e.id \notin void
  BY DEF ApprovalsInv, Shape, Fresh
<1> QED
  BY <1>1, <1>4, <1>5, Retreats

(* A decision that needs no answer, or has a grant.                        *)
LEMMA AdvanceKeeps ==
  ASSUME ApprovalsAssumption, ApprovalsInv, NEW c \in Call, Allowed(c) \/ Granted(c)
  PROVE  ApprovalsInv'
<1>1. call[c] \in Calls /\ call[c].at \in Nat /\ Running(c) /\ Current(c) \in Decision
  BY CallFields, CurrentDecision DEF ApprovalsInv, Allowed, Granted, Asks
<1>2. call[c].at >= 1
  BY <1>1 DEF ApprovalsInv, Shape, Running
<1>3. UNCHANGED <<config, rules, grants, history>> /\ challenges' = challenges
  BY DEF Allowed, Granted
<1>4. CASE Allowed(c)
  <2> DEFINE n == [call[c] EXCEPT !.at = @ + 1]
  <2>1. n \in Calls /\ (n.step = "running" => n.at >= 1) /\ n.held \subseteq call[c].held
    BY <1>1, <1>2, AdvancedCall
  <2>2. call' = [call EXCEPT ![c] = n]
    BY <1>4 DEF Allowed, Advance
  <2> HIDE DEF n
  <2> QED
    BY <1>3, <2>1, <2>2, CallMoves
<1>5. CASE Granted(c)
  <2>1. PICK g \in grants \cup call[c].held : AdvanceOn(c, Current(c), g.id)
    BY <1>5 DEF Granted, Keyed
  <2>2. g.id \in Nat
    BY <2>1, CallFields, IssuedFacts DEF ApprovalsInv, Shape
  <2> DEFINE n == [call[c] EXCEPT !.at = @ + 1, !.basis = @ \cup {<<Current(c), g.id>>}]
  <2>3. call' = [call EXCEPT ![c] = n]
    BY <2>1 DEF AdvanceOn
  <2>4. n \in Calls /\ n.at = call[c].at + 1 /\ n.held = call[c].held
    <3> DEFINE k == call[c]
               d == Current(c)
               i == g.id
               m == [k EXCEPT !.at = @ + 1, !.basis = @ \cup {<<d, i>>}]
    <3>1. k \in Calls /\ d \in Decision /\ i \in Nat
      BY <1>1, <2>2
    <3>2. n = m
      OBVIOUS
    <3> HIDE DEF k, d, i
    <3>3. m \in Calls /\ m.at = k.at + 1
      BY <3>1, AdvancedOnCall
    <3>4. m.held = k.held
      BY <3>1 DEF Calls
    <3> HIDE DEF m, n
    <3> QED
      BY <3>2, <3>3, <3>4 DEF k
  <2> HIDE DEF n
  <2>5. (n.step = "running" => n.at >= 1) /\ n.held \subseteq call[c].held
    BY <1>1, <1>2, <2>4
  <2> QED
    BY <1>3, <2>3, <2>4, <2>5, CallMoves
<1> QED
  BY <1>4, <1>5

LEMMA StopKeeps ==
  ASSUME ApprovalsInv, NEW c \in Call, PersistFails(c) \/ Refuse(c) \/ Finish(c)
  PROVE  ApprovalsInv'
<1>1. Idle \in Calls /\ Idle.step = "idle" /\ Idle.held = {}
  BY IdleCall DEF Idle
<1>2. call' = [call EXCEPT ![c] = Idle] /\ UNCHANGED <<config, rules, grants, history>>
  BY DEF PersistFails, Refuse, Finish, Stop
<1>3. challenges' \subseteq challenges
  BY DEF PersistFails, Refuse, Finish, Answered
<1> QED
  BY <1>1, <1>2, <1>3, CallMoves

(* A challenge, which may be a new one.                                    *)
LEMMA ChallengeKeeps ==
  ASSUME ApprovalsAssumption, ApprovalsInv, NEW c \in Call, Challenge(c)
  PROVE  ApprovalsInv'
<1>1. /\ Idle \in Calls /\ Idle.step = "idle" /\ Idle.held = {}
      /\ call[c] \in Calls /\ Running(c) /\ Key(c, Current(c)) \in Keys
  BY IdleCall, CallFields, CurrentDecision DEF Idle, ApprovalsInv, Challenge, Ungranted, Asks
<1>2. UNCHANGED <<config, rules, grants, void, spent, answers>>
  BY DEF Challenge
<1>3. ASSUME NEW i \in Nat
      PROVE  LET n == [call[c] EXCEPT !.step = "asked", !.asked = i]
             IN n \in Calls /\ n.step = "asked" /\ n.held = call[c].held
  BY <1>1 DEF Calls
<1>4. CASE Stop(c) /\ UNCHANGED <<challenges, shown>>
  <2>1. call' = [call EXCEPT ![c] = Idle] /\ UNCHANGED <<config, rules, grants, history>>
    BY <1>2, <1>4 DEF Stop, history
  <2> QED
    BY <1>1, <1>4, <2>1, CallMoves
<1>5. ASSUME NEW h \in challenges, UNCHANGED <<challenges, shown>>,
             call' = [call EXCEPT ![c].step = "asked", ![c].asked = h.id]
      PROVE  ApprovalsInv'
  <2>1. h.id \in Nat
    BY IssuedFacts DEF ApprovalsInv, Shape
  <2> DEFINE n == [call[c] EXCEPT !.step = "asked", !.asked = h.id]
  <2>2. n \in Calls /\ n.step = "asked" /\ n.held = call[c].held
    BY <1>3, <2>1
  <2>3. call' = [call EXCEPT ![c] = n]
    BY <1>5
  <2> HIDE DEF n
  <2>4. UNCHANGED <<config, rules, grants, history>>
    BY <1>2, <1>5 DEF history
  <2> QED
    BY <1>5, <2>2, <2>3, <2>4, CallMoves
<1>6. ASSUME challenges' = challenges \cup {[key |-> Key(c, Current(c)), id |-> NextId]},
             shown' = Append(shown, Key(c, Current(c))),
             call' = [call EXCEPT ![c].step = "asked", ![c].asked = NextId]
      PROVE  ApprovalsInv'
  <2> DEFINE k == Key(c, Current(c))
             n == [call[c] EXCEPT !.step = "asked", !.asked = NextId]
  <2>1. NextId = Len(shown) + 1 /\ NextId \in Nat /\ NextId \notin DOMAIN shown
    BY NextIsNew DEF ApprovalsInv
  <2>2. n \in Calls /\ n.step = "asked" /\ n.held = call[c].held
    BY <1>3, <2>1
  <2>3. call' = [call EXCEPT ![c] = n]
    BY <1>6
  <2> HIDE DEF n
  <2>4. shown \in Seq(Keys) /\ k \in Keys
    BY <1>1 DEF ApprovalsInv, Shape
  <2> HIDE DEF k
  <2>5. /\ shown' \in Seq(Keys) /\ DOMAIN shown \subseteq DOMAIN shown'
        /\ \A i \in DOMAIN shown : shown'[i] = shown[i]
        /\ NextId \in DOMAIN shown' /\ shown'[NextId] = k
    BY <1>6, <2>1, <2>4 DEF k
  <2>6. Issued \subseteq Issued' /\ [key |-> k, id |-> NextId] \in Issued'
    BY <2>5 DEF Issued, Issue
  <2>7. Calls \subseteq Calls'
    BY <1>2, <2>6 DEF Calls
  <2>8. Shape'
    <3>1. call' \in [Call -> Calls'] /\ \A x \in Call : call'[x].step = "running" => call'[x].at >= 1
      BY <2>2, <2>3, <2>7 DEF ApprovalsInv, Shape
    <3>2. grants' \subseteq Issued' /\ challenges' \subseteq Issued'
      BY <1>2, <1>6, <2>6 DEF ApprovalsInv, Shape, k
    <3> QED
      BY <1>2, <2>5, <3>1, <3>2 DEF ApprovalsInv, Shape
  <2>9. Fresh'
    <3>1. \A g \in grants : g.id \in DOMAIN shown
      BY IssuedFacts DEF ApprovalsInv, Shape
    <3>2. NextId \notin void \cup spent
      BY <2>1 DEF ApprovalsInv, Shape
    <3> QED
      BY <1>2, <1>6, <2>1, <3>1, <3>2 DEF ApprovalsInv, Fresh
  <2>10. Accepted'
    <3>1. \A x \in Call : call'[x].held = call[x].held
      BY <2>2, <2>3 DEF ApprovalsInv, Shape
    <3> QED
      BY <1>2, <3>1 DEF ApprovalsInv, Accepted, Given
  <2> QED
    BY <2>8, <2>9, <2>10 DEF ApprovalsInv
<1>7. \/ Stop(c) /\ UNCHANGED <<challenges, shown>>
      \/ \E h \in challenges : /\ UNCHANGED <<challenges, shown>>
                               /\ call' = [call EXCEPT ![c].step = "asked", ![c].asked = h.id]
      \/ /\ challenges' = challenges \cup {[key |-> Key(c, Current(c)), id |-> NextId]}
         /\ shown' = Append(shown, Key(c, Current(c)))
         /\ call' = [call EXCEPT ![c].step = "asked", ![c].asked = NextId]
  BY DEF Challenge, Keyed
<1> QED
  BY <1>4, <1>5, <1>6, <1>7

(* An answer is accepted: its challenge goes, a grant may come.            *)
LEMMA AcceptKeeps ==
  ASSUME ApprovalsAssumption, ApprovalsInv, NEW c \in Call, Accept(c)
  PROVE  ApprovalsInv'
<1> DEFINE d == Current(c)
<1>1. PICK r \in Replies(c) :
        LET grant == [key |-> Key(c, d), id |-> r.challenge.id]
        IN /\ r.choice \in Offered(d) \cap {"allow_once", "allow_session", "always_allow"}
           /\ Answered(r.challenge)
           /\ grants' = IF r.choice = "allow_session" THEN grants \cup {grant} ELSE grants
           /\ rules' = IF r.choice = "always_allow" THEN rules \cup {d} ELSE rules
           /\ spent' = IF r.choice = "allow_session" THEN spent ELSE spent \cup {grant.id}
           /\ call' = [call EXCEPT ![c].at = @ + 1, ![c].basis = @ \cup {<<d, grant.id>>},
                         ![c].held = IF r.choice = "allow_session" \/ d = Probe
                                     THEN @ ELSE @ \cup {grant}]
  BY DEF Accept
<1> DEFINE grant == [key |-> Key(c, d), id |-> r.challenge.id]
           kept == IF r.choice = "allow_session" \/ d = Probe THEN call[c].held
                   ELSE call[c].held \cup {grant}
           n == [call[c] EXCEPT !.at = @ + 1, !.basis = @ \cup {<<d, grant.id>>}, !.held = kept]
<1>2. Shape /\ Fresh /\ Accepted
  BY DEF ApprovalsInv
<1>3. call[c] \in Calls /\ call[c].at \in Nat /\ call[c].at >= 1 /\ d \in Decision
  BY <1>2, CallFields, CurrentDecision DEF Accept, Ungranted, Asks, Running, Shape
<1>4. /\ r.challenge \in challenges /\ r.challenge \in Issued /\ r.challenge.key = Key(c, d)
      /\ \E a \in answers : a.id = r.challenge.id /\ a.choice = r.choice
  BY <1>2, ReplyFacts
<1>5. /\ grant \in Issued /\ grant = r.challenge /\ grant.id \in Nat /\ grant.id \in DOMAIN shown
      /\ grant.key = Key(c, d)
  BY <1>2, <1>4, IssuedFacts DEF Issue
<1>6. Given(grant.id, d) /\ grant.key.decision = d
  <2>1. r.choice \in Offered(d) \ {"deny"}
    BY <1>1
  <2> QED
    BY <1>4, <2>1 DEF Given, Key
<1>7. UNCHANGED <<config, shown, void, answers>> /\ challenges' = challenges \ {r.challenge}
  BY <1>1 DEF Accept, Answered
<1>8. kept \in SUBSET Issued
  BY <1>2, <1>5, CallFields
<1>9. n \in Calls /\ n.at = call[c].at + 1 /\ n.held = kept
  <2> DEFINE k == call[c]
             i == grant.id
             m == [k EXCEPT !.at = @ + 1, !.basis = @ \cup {<<d, i>>}]
  <2>1. k \in Calls /\ i \in Nat /\ d \in Decision
    BY <1>3, <1>5
  <2>2. n = [m EXCEPT !.held = kept]
    BY Zenon
  <2> HIDE DEF k, i, kept, d, n
  <2>3. m \in Calls /\ m.at = k.at + 1
    BY <2>1, AdvancedOnCall
  <2> HIDE DEF m
  <2>4. n \in Calls /\ n.at = m.at /\ n.held = kept
    BY <1>8, <2>2, <2>3 DEF Calls
  <2> QED
    BY <2>3, <2>4 DEF k
<1>10. call' = [call EXCEPT ![c] = n]
  BY <1>1
<1> HIDE DEF n
<1>11. Calls' = Calls /\ Issued' = Issued
  BY <1>7 DEF Calls, Issued, Issue
<1>12. Shape'
  <2>1. call' \in [Call -> Calls'] /\ \A x \in Call : call'[x].step = "running" => call'[x].at >= 1
    BY <1>2, <1>3, <1>9, <1>10, <1>11 DEF Shape
  <2>2. grants' \subseteq Issued' /\ challenges' \subseteq Issued'
    BY <1>1, <1>2, <1>5, <1>7, <1>11 DEF Shape
  <2>3. rules' \subseteq Decision /\ spent' \subseteq DOMAIN shown'
    BY <1>1, <1>2, <1>3, <1>5, <1>7 DEF Shape
  <2> QED
    BY <1>2, <1>7, <2>1, <2>2, <2>3 DEF Shape
<1>13. Fresh'
  <2>1. grant \in challenges /\ challenges' = challenges \ {grant}
    BY <1>4, <1>5, <1>7
  <2>2. \A h \in challenges' : h \in challenges /\ h.id # grant.id
    <3> SUFFICES ASSUME NEW h \in challenges, h.id = grant.id PROVE h = grant
      BY <2>1
    <3>1. h = Issue(h.id) /\ grant = Issue(grant.id)
      BY <1>2, <1>5, IssuedFacts DEF Shape
    <3> QED
      BY <3>1
  <2>3. CASE r.choice = "allow_session"
    <3>1. grants' = grants \cup {grant} /\ spent' = spent
      BY <1>1, <2>3
    <3> QED
      BY <1>2, <1>7, <2>1, <2>2, <3>1 DEF Fresh
  <2>4. CASE r.choice # "allow_session"
    <3>1. grants' = grants /\ spent' = spent \cup {grant.id}
      BY <1>1, <2>4
    <3> QED
      BY <1>2, <1>7, <2>1, <2>2, <3>1 DEF Fresh
  <2> QED
    BY <2>3, <2>4
<1>14. Accepted'
  <2>1. \A id, e : Given(id, e)' <=> Given(id, e)
    BY <1>7 DEF Given, Offered
  <2>2. \A g \in grants' : Given(g.id, g.key.decision)
    BY <1>1, <1>2, <1>6 DEF Accepted
  <2>3. ASSUME NEW x \in Call, NEW g \in call'[x].held PROVE Given(g.id, g.key.decision)
    <3>1. CASE x = c
      <4>1. g \in kept
        BY <1>2, <1>9, <1>10, <2>3, <3>1 DEF Shape
      <4> QED
        BY <1>2, <1>6, <4>1 DEF Accepted
    <3>2. CASE x # c
      BY <1>2, <1>10, <2>3, <3>2 DEF Accepted, Shape
    <3> QED
      BY <3>1, <3>2
  <2> QED
    BY <2>1, <2>2, <2>3 DEF Accepted
<1> QED
  BY <1>12, <1>13, <1>14 DEF ApprovalsInv

LEMMA ExpireKeeps == ASSUME ApprovalsInv, Expire PROVE ApprovalsInv'
<1>1. challenges' \subseteq challenges
  BY DEF Expire
<1>2. UNCHANGED <<config, rules, grants, call, shown, void, spent, answers>>
  BY DEF Expire, history
<1>3. Calls' = Calls
  BY <1>2 DEF Calls, Issued, Issue
<1>4. call' \in [Call -> Calls'] /\ \A x \in Call : call'[x].step = "running" => call'[x].at >= 1
  BY <1>2, <1>3 DEF ApprovalsInv, Shape
<1>5. /\ config \in [generation : Nat, rules : SUBSET Decision] /\ rules \subseteq Decision
      /\ void \subseteq DOMAIN shown
      /\ \A e \in grants \cup challenges : e.id \notin void
  BY DEF ApprovalsInv, Shape, Fresh
<1> QED
  BY <1>1, <1>2, <1>4, <1>5, Retreats

(* The keys of a session are void: nothing of them is left.                *)
LEMMA ClearKeeps == ASSUME ApprovalsInv, NEW s \in Session, Clear(s) PROVE ApprovalsInv'
<1>1. /\ grants' = {g \in grants : g.key.session # s}
      /\ challenges' = {h \in challenges : h.key.session # s}
      /\ void' = void \cup {i \in DOMAIN shown : shown[i].session = s}
      /\ UNCHANGED <<config, rules, call, shown, spent, answers>>
  BY DEF Clear, OfSession
<1>2. Calls' = Calls
  BY <1>1 DEF Calls, Issued, Issue
<1>3. call' \in [Call -> Calls'] /\ \A x \in Call : call'[x].step = "running" => call'[x].at >= 1
  BY <1>1, <1>2 DEF ApprovalsInv, Shape
<1>4. /\ config \in [generation : Nat, rules : SUBSET Decision] /\ rules \subseteq Decision
      /\ void \subseteq DOMAIN shown /\ grants \subseteq Issued /\ challenges \subseteq Issued
      /\ \A e \in grants \cup challenges : e.id \notin void
  BY DEF ApprovalsInv, Shape, Fresh
<1>5. ASSUME NEW e \in grants' \cup challenges' PROVE e.id \notin void'
  <2>1. e \in Issued /\ e.key.session # s /\ e.id \notin void
    BY <1>1, <1>4
  <2>2. e.key = shown[e.id]
    BY <2>1, IssuedFacts DEF ApprovalsInv
  <2> QED
    BY <1>1, <2>1, <2>2
<1> QED
  BY <1>1, <1>3, <1>4, <1>5, Retreats

LEMMA ReloadKeeps == ASSUME ApprovalsInv, Reload PROVE ApprovalsInv'
<1>1. /\ config' = [generation |-> config.generation + 1, rules |-> rules]
      /\ UNCHANGED <<rules, grants, challenges, call, shown, void, spent, answers>>
  BY DEF Reload, history
<1>2. Calls' = Calls
  BY <1>1 DEF Calls, Issued, Issue
<1>3. call' \in [Call -> Calls'] /\ \A x \in Call : call'[x].step = "running" => call'[x].at >= 1
  BY <1>1, <1>2 DEF ApprovalsInv, Shape
<1>4. /\ config \in [generation : Nat, rules : SUBSET Decision] /\ rules \subseteq Decision
      /\ void \subseteq DOMAIN shown
      /\ \A e \in grants \cup challenges : e.id \notin void
  BY DEF ApprovalsInv, Shape, Fresh
<1>5. config' \in [generation : Nat, rules : SUBSET Decision]
  BY <1>1, <1>4
<1> QED
  BY <1>1, <1>3, <1>4, <1>5, Retreats

LEMMA StillKeeps == ASSUME ApprovalsInv, UNCHANGED vars PROVE ApprovalsInv'
BY DEF ApprovalsInv, vars, history, Shape, Fresh, Accepted, Calls, Issued, Issue, Given, Offered

LEMMA ApprovalsKept ==
  ApprovalsAssumption => (ApprovalsInv /\ [Next]_vars => ApprovalsInv')
<1> SUFFICES ASSUME ApprovalsAssumption, ApprovalsInv, [Next]_vars PROVE ApprovalsInv'
  OBVIOUS
<1>1. ASSUME NEW c \in Call,
             \/ Send(c) \/ Allowed(c) \/ Granted(c) \/ Accept(c) \/ PersistFails(c)
             \/ Refuse(c) \/ Challenge(c) \/ Finish(c)
             \/ \E choice \in Choices : Answer(c, choice)
      PROVE  ApprovalsInv'
  BY <1>1, SendKeeps, AdvanceKeeps, AcceptKeeps, StopKeeps, ChallengeKeeps, AnswerKeeps
<1>2. CASE Expire \/ Reload \/ \E s \in Session : Clear(s)
  BY <1>2, ExpireKeeps, ReloadKeeps, ClearKeeps
<1>3. CASE UNCHANGED vars
  BY <1>3, StillKeeps
<1> QED
  BY <1>1, <1>2, <1>3 DEF Next, Waits

-----------------------------------------------------------------------------
(* What is proved.                                                         *)

(* Every grant and every open challenge is what one response key asked for,*)
(* no open one has been used or belongs to a session that has ended, and a *)
(* grant is an answer of the user (grants and challenges of approval.ts).  *)
THEOREM ApprovalsInvHolds == ApprovalsAssumption => (Spec => []ApprovalsInv)
<1> SUFFICES ASSUME ApprovalsAssumption PROVE Spec => []ApprovalsInv
  OBVIOUS
<1>1. Init => ApprovalsInv
  BY InitApprovals
<1>2. ApprovalsInv /\ [Next]_vars => ApprovalsInv'
  BY ApprovalsKept
<1> QED
  BY <1>1, <1>2, PTL DEF Spec

-----------------------------------------------------------------------------
(* Who passes a decision, and on what.                                     *)

Honoured(c, d, id) ==
  /\ shown[id] = [session |-> SessionOf[c], tool |-> shown[id].tool,
                  decision |-> d, generation |-> IF d = Probe THEN 0
                                       ELSE call[c].config.generation]
  /\ d # Filesystem => shown[id].tool = ToolOf[c]
  /\ \E a \in answers : a.id = id /\ a.choice \in Offered(d) \ {"deny"}
  /\ id \in void => \E h \in call[c].held : h.id = id
  /\ id \in spent => \E h \in call[c].held : h.id = id

LEMMA KeyIsHonoured ==
  ASSUME NEW c \in Call, NEW d \in Decision, NEW id \in Nat,
         shown[id] = Key(c, d), Given(id, d),
         id \in void \cup spent => \E h \in call[c].held : h.id = id
  PROVE  Honoured(c, d, id)
BY DEF Honoured, Given, Key

LEMMA GrantedIsHonoured ==
  ASSUME ApprovalsInv, ApprovalsAssumption, NEW c \in Call, Granted(c),
         NEW x \in Call, NEW d \in Decision, NEW id \in Ids, Passes(x, d, id)
  PROVE  Honoured(x, d, id)
<1>1. PICK g \in grants \cup call[c].held :
         g.key = Key(c, Current(c)) /\ AdvanceOn(c, Current(c), g.id)
  BY DEF Granted, Keyed
<1>2. Shape /\ Fresh /\ Accepted /\ call \in [Call -> Calls]
  BY DEF ApprovalsInv, Shape
<1>3. call' = [call EXCEPT ![c] = [call[c] EXCEPT !.at = @ + 1, !.basis = @ \cup {<<Current(c), g.id>>}]]
  BY <1>1 DEF AdvanceOn
<1>4. x = c /\ d = Current(c) /\ id = g.id
  <2> DEFINE k == call[c]
             n == [k EXCEPT !.at = @ + 1, !.basis = @ \cup {<<Current(c), g.id>>}]
  <2>1. n.basis = k.basis \cup {<<Current(c), g.id>>}
    <3>1. k \in Calls
      BY <1>2
    <3> HIDE DEF k
    <3> QED
      BY <3>1 DEF Calls
  <2>2. call' = [call EXCEPT ![c] = n]
    BY <1>3
  <2> HIDE DEF n
  <2>3. call'[c] = n /\ \A y \in Call \ {c} : call'[y] = call[y]
    BY <1>2, <2>2
  <2>4. x = c
    BY <2>3 DEF Passes
  <2>5. <<d, id>> = <<Current(c), g.id>>
    BY <2>1, <2>3, <2>4 DEF Passes
  <2> QED
    BY <2>4, <2>5
<1>5. g \in Issued /\ shown[id] = Key(c, d)
  <2>1. g \in Issued
    BY <1>1, <1>2, CallFields DEF Shape
  <2> QED
    BY <1>1, <1>2, <1>4, <2>1, IssuedFacts
<1>6. Given(id, d)
  <2>1. g.key.decision = d
    BY <1>1, <1>4 DEF Key
  <2> QED
    BY <1>1, <1>2, <1>4, <2>1 DEF Accepted
<1>7. id \in void \cup spent => \E h \in call[c].held : h.id = id
  BY <1>1, <1>2, <1>4 DEF Fresh
<1> QED
  BY <1>4, <1>5, <1>6, <1>7, KeyIsHonoured DEF Ids

LEMMA AcceptIsHonoured ==
  ASSUME ApprovalsInv, ApprovalsAssumption, NEW c \in Call, Accept(c),
         NEW x \in Call, NEW d \in Decision, NEW id \in Ids, Passes(x, d, id)
  PROVE  Honoured(x, d, id)
<1>1. PICK r \in Replies(c) :
        /\ r.choice \in Offered(Current(c)) \cap {"allow_once", "allow_session", "always_allow"}
        /\ \E kept : call' = [call EXCEPT ![c].at = @ + 1,
                             ![c].basis = @ \cup {<<Current(c), r.challenge.id>>}, ![c].held = kept]
  BY DEF Accept
<1>2. Shape /\ Fresh /\ call \in [Call -> Calls]
  BY DEF ApprovalsInv, Shape
<1>3. /\ r.challenge \in challenges /\ r.challenge \in Issued /\ r.challenge.key = Key(c, Current(c))
      /\ \E a \in answers : a.id = r.challenge.id /\ a.choice = r.choice
  BY <1>2, ReplyFacts
<1>4. x = c /\ d = Current(c) /\ id = r.challenge.id
  <2>0. PICK kept : call' = [call EXCEPT ![c].at = @ + 1,
                      ![c].basis = @ \cup {<<Current(c), r.challenge.id>>}, ![c].held = kept]
    BY <1>1
  <2> DEFINE k == call[c]
             m == [k EXCEPT !.at = @ + 1]
             b == [m EXCEPT !.basis = @ \cup {<<Current(c), r.challenge.id>>}]
             n == [b EXCEPT !.held = kept]
  <2>1. k \in Calls
    BY <1>2
  <2>2. call' = [call EXCEPT ![c] = n]
    BY <2>0, Zenon
  <2>3. n.basis = k.basis \cup {<<Current(c), r.challenge.id>>}
    <3> HIDE DEF k
    <3>1. m \in Calls /\ m.basis = k.basis
      BY <2>1 DEF Calls
    <3> HIDE DEF m
    <3> QED
      BY <3>1 DEF Calls
  <2> HIDE DEF n
  <2>4. call'[c] = n /\ \A y \in Call \ {c} : call'[y] = call[y]
    BY <1>2, <2>2
  <2>5. x = c
    BY <2>4 DEF Passes
  <2>6. <<d, id>> = <<Current(c), r.challenge.id>>
    BY <2>3, <2>4, <2>5 DEF Passes
  <2> QED
    BY <2>5, <2>6
<1>5. shown[id] = Key(c, d)
  BY <1>2, <1>3, <1>4, IssuedFacts
<1>6. Given(id, d)
  BY <1>1, <1>3, <1>4 DEF Given
<1>7. id \notin void \cup spent
  BY <1>2, <1>3, <1>4 DEF Fresh
<1> QED
  BY <1>4, <1>5, <1>6, <1>7, KeyIsHonoured DEF Ids

(* No other step rests on an answer.                                       *)
LEMMA NothingElsePasses ==
  ASSUME ApprovalsInv, ApprovalsAssumption, NEW x \in Call, NEW d \in Decision, NEW id \in Ids,
         NEW c \in Call,
         \/ call' = call
         \/ Send(c) \/ Allowed(c) \/ PersistFails(c) \/ Refuse(c) \/ Challenge(c) \/ Finish(c)
  PROVE  ~Passes(x, d, id)
<1>1. call \in [Call -> Calls]
  BY DEF ApprovalsInv, Shape
<1>2. ASSUME NEW n, call' = [call EXCEPT ![c] = n], n.basis \subseteq call[c].basis
      PROVE  ~Passes(x, d, id)
  BY <1>1, <1>2 DEF Passes
<1>3. CASE call' = call
  BY <1>3 DEF Passes
<1>4. CASE Send(c)
  <2>1. PICK sent \in SUBSET answers :
          call' = [call EXCEPT ![c] = [step |-> "running", config |-> config,
                     at |-> 1, asked |-> 0, sent |-> sent, held |-> {}, basis |-> {}]]
    BY <1>4 DEF Send
  <2> DEFINE n == [step |-> "running", config |-> config,
                   at |-> 1, asked |-> 0, sent |-> sent, held |-> {}, basis |-> {}]
  <2>2. n.basis = {}
    OBVIOUS
  <2>3. call' = [call EXCEPT ![c] = n]
    BY <2>1
  <2> HIDE DEF n
  <2> QED
    BY <1>2, <2>2, <2>3
<1>5. CASE Allowed(c)
  <2> DEFINE k == call[c]
             n == [k EXCEPT !.at = @ + 1]
  <2>1. call' = [call EXCEPT ![c] = n]
    BY <1>5 DEF Allowed, Advance
  <2>2. n.basis = k.basis
    <3>1. k \in Calls
      BY <1>1
    <3> HIDE DEF k
    <3> QED
      BY <3>1 DEF Calls
  <2> HIDE DEF n
  <2> QED
    BY <1>2, <2>1, <2>2
<1>6. CASE Stop(c)
  BY <1>2, <1>6 DEF Stop, Idle
<1>7. ASSUME NEW i, call' = [call EXCEPT ![c].step = "asked", ![c].asked = i]
      PROVE  ~Passes(x, d, id)
  <2> DEFINE k == call[c]
             m == [k EXCEPT !.step = "asked"]
             n == [m EXCEPT !.asked = i]
  <2>1. k \in Calls
    BY <1>1
  <2>2. call' = [call EXCEPT ![c] = n]
    BY <1>7, Zenon
  <2>3. n.basis = k.basis
    <3> HIDE DEF k
    <3> QED
      BY <2>1 DEF Calls
  <2> HIDE DEF n
  <2> QED
    BY <1>2, <2>2, <2>3
<1>8. CASE PersistFails(c) \/ Refuse(c) \/ Finish(c)
  BY <1>6, <1>8 DEF PersistFails, Refuse, Finish
<1>9. CASE Challenge(c)
  BY <1>6, <1>7, <1>9 DEF Challenge
<1> QED
  BY <1>3, <1>4, <1>5, <1>8, <1>9

LEMMA StepsAreHonoured ==
  ApprovalsAssumption => (ApprovalsInv /\ [Next]_vars => AnswersHonoured)
<1> SUFFICES ASSUME ApprovalsAssumption, ApprovalsInv, [Next]_vars,
                    NEW x \in Call, NEW d \in Decision, NEW id \in Ids, Passes(x, d, id)
             PROVE  Honoured(x, d, id)
  BY DEF AnswersHonoured, Honoured
<1>1. ASSUME NEW c \in Call, Granted(c) \/ Accept(c) PROVE Honoured(x, d, id)
  BY <1>1, GrantedIsHonoured, AcceptIsHonoured
<1>2. ASSUME NEW c \in Call,
             Send(c) \/ Allowed(c) \/ PersistFails(c) \/ Refuse(c) \/ Challenge(c) \/ Finish(c)
      PROVE  FALSE
  BY <1>2, NothingElsePasses
<1>3. call' # call
  BY NothingElsePasses
<1>4. ~UNCHANGED vars /\ ~Expire /\ ~Reload /\ (\A s \in Session : ~Clear(s))
      /\ \A c \in Call, choice \in Choices : ~Answer(c, choice)
  BY <1>3 DEF vars, Expire, Reload, Clear, Answer
<1> QED
  BY <1>1, <1>2, <1>4 DEF Next, Waits

(* Whenever a call passes a decision because of an answer, the user gave   *)
(* that answer, it was asked for this decision, tool, session and          *)
(* configuration, the session has not ended since, and an answer that is   *)
(* not for the session lets no second call through (assertPolicy and       *)
(* acceptResponse of runtime/approval.ts).                                 *)
THEOREM AnswersAreHonoured == ApprovalsAssumption => (Spec => [][AnswersHonoured]_vars)
<1> SUFFICES ASSUME ApprovalsAssumption PROVE Spec => [][AnswersHonoured]_vars
  OBVIOUS
<1>1. ApprovalsInv /\ [Next]_vars => [AnswersHonoured]_vars
  BY StepsAreHonoured
<1>2. Spec => []ApprovalsInv
  BY ApprovalsInvHolds
<1> QED
  BY <1>1, <1>2, PTL DEF Spec
=============================================================================
