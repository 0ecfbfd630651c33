----------------------------- MODULE Approvals -----------------------------
(***************************************************************************)
(* User approvals (runtime/approval.ts) as a tool call meets them.  A call *)
(* asserts one access decision after another; a decision whose policy is   *)
(* "request" needs a grant or an answer of the user.  Without either the   *)
(* call ends with a challenge, and the client sends the whole call again   *)
(* with the user's answer to it.                                           *)
(*                                                                         *)
(* Everything between two answers of one decision is synchronous code, so  *)
(* a decision is one action.  A session stands for a session id on a       *)
(* server instance; a decision for a rule, an operation and a path.  The   *)
(* log of last outcomes for diagnostics is left out.                       *)
(***************************************************************************)
EXTENDS Integers, FiniteSets, Sequences

CONSTANTS
  Session,
  Form,         \* the sessions whose client can show a form
  Call,         \* tool calls; a call may be sent any number of times
  SessionOf, ToolOf, NeedsOf,  \* of a call; its decisions in order
  Decision,
  Filesystem, Probe,  \* the two decisions that are not about a path rule
  Fixed,        \* decisions no path rule can turn into "allow"
  MaxChallenges, MaxPerSession,
  MaxIds, MaxAnswers, MaxSent, MaxEvents  \* bounds

ApprovalsAssumption ==
  /\ Form \subseteq Session
  /\ SessionOf \in [Call -> Session]
  /\ NeedsOf \in [Call -> Seq(Decision)]
  /\ Fixed \subseteq Decision
  /\ MaxIds \in Nat /\ MaxAnswers \in Nat /\ MaxSent \in Nat /\ MaxEvents \in Nat
  /\ Filesystem # Probe

VARIABLES
  config,       \* the registry's snapshot: its generation and stored approvals
  rules,        \* the approvals stored in the user's configuration file
  grants,       \* sessionGrants: a key, and the answer it came from
  challenges,   \* issuedChallenges: a key, and its response key
  call,         \* the calls in progress
  shown,        \* history: what each response key asked the user
  void,         \* history: response keys of sessions that have ended
  spent,        \* history: answers that authorized one invocation
  answers,      \* history: the answers users have given
  events        \* reloads and ended connections so far

vars == <<config, rules, grants, challenges, call, shown, void, spent,
          answers, events>>

Choices == {"deny", "allow_once", "allow_session", "always_allow"}

(* What the form offers for a decision; everything else is malformed and,  *)
(* like a dismissed form, treated as "deny".                               *)
Offered(d) ==
  CASE d = Filesystem -> {"deny", "allow_session"}
    [] d = Probe      -> {"deny", "allow_once"}
    [] OTHER          -> Choices

(* A grant is bound to the session, the configuration it was given under,  *)
(* the tool and the decision; filesystem access is not bound to a tool.    *)
Key(c, d) ==
  [session |-> SessionOf[c],
   generation |-> IF d = Probe THEN 0 ELSE call[c].config.generation,
   tool |-> IF d = Filesystem THEN "filesystem" ELSE ToolOf[c],
   decision |-> d]

Ids      == 1 .. MaxIds
NextId   == Cardinality(DOMAIN shown) + 1
Keyed(S, k) == {e \in S : e.key = k}
Idle == [step |-> "idle", config |-> [generation |-> 0, rules |-> {}], at |-> 0, asked |-> 0,
         sent |-> {}, held |-> {}, basis |-> {}]

Init ==
  /\ config = [generation |-> 1, rules |-> {}]
  /\ rules = {} /\ grants = {} /\ challenges = {}
  /\ call = [c \in Call |-> Idle]
  /\ shown = << >> /\ void = {} /\ spent = {} /\ answers = {}
  /\ events = 0

history == <<shown, void, spent, answers>>
Event   == events < MaxEvents /\ events' = events + 1

----------------------------------------------------------------------------
(* The client sends a call: with its new answer, or with any old ones.     *)
Send(c) ==
  /\ call[c].step \in {"idle", "asked"}
  /\ \E sent \in SUBSET answers :
       /\ Cardinality(sent) <= MaxSent
       /\ call' = [call EXCEPT ![c] = [step |-> "running", config |-> config,
            at |-> 1, asked |-> 0, sent |-> sent, held |-> {}, basis |-> {}]]
  /\ call' # call
  /\ UNCHANGED <<config, rules, grants, challenges, history, events>>

(* The user answers the form a call has brought up.                        *)
Answer(c, choice) ==
  /\ call[c].step = "asked"
  /\ answers' = answers \cup {[id |-> call[c].asked, choice |-> choice]}
  /\ answers' # answers /\ Cardinality(answers') <= MaxAnswers
  /\ UNCHANGED <<config, rules, grants, challenges, call, shown, void, spent, events>>

(* The outcome of the decision a call stands at.                           *)
Advance(c) == call' = [call EXCEPT ![c].at = @ + 1]
AdvanceOn(c, d, id) ==
  call' = [call EXCEPT ![c].at = @ + 1, ![c].basis = @ \cup {<<d, id>>}]
Stop(c) == call' = [call EXCEPT ![c] = Idle]

Current(c) == NeedsOf[c][call[c].at]
Running(c) == call[c].step = "running" /\ call[c].at <= Len(NeedsOf[c])

(* assertPolicy: a stored approval is a rule whose policy is "allow".      *)
Stored(c, d) == d \in call[c].config.rules \ (Fixed \cup {Filesystem, Probe})

Allowed(c) ==
  /\ Running(c) /\ Stored(c, Current(c))
  /\ Advance(c)
  /\ UNCHANGED <<config, rules, grants, challenges, history, events>>

Asks(c) == Running(c) /\ ~Stored(c, Current(c))

Granted(c) ==
  /\ Asks(c)
  /\ \E g \in Keyed(grants \cup call[c].held, Key(c, Current(c))) :
       AdvanceOn(c, Current(c), g.id)
  /\ UNCHANGED <<config, rules, grants, challenges, history, events>>

Ungranted(c) ==
  Asks(c) /\ Keyed(grants \cup call[c].held, Key(c, Current(c))) = {}

(* The answers of the call to the challenge its key has.                   *)
Replies(c) ==
  {[challenge |-> r[1], choice |-> r[2].choice] :
     r \in {p \in Keyed(challenges, Key(c, Current(c))) \X call[c].sent :
                p[1].id = p[2].id}}

(* An answered challenge is gone.  Mutant: its answer can be sent again.   *)
AnsweredOpen(h) == h \in challenges /\ UNCHANGED challenges

Answered(h) == challenges' = challenges \ {h}

(* acceptResponse: once, for the session, or stored for good.              *)
Accept(c) ==
  /\ Ungranted(c)
  /\ LET d == Current(c)
     IN \E r \in Replies(c) :
          LET grant == [key |-> Key(c, d), id |-> r.challenge.id]
          IN /\ r.choice \in Offered(d) \cap {"allow_once", "allow_session", "always_allow"}
             /\ Answered(r.challenge)
             /\ grants' = IF r.choice = "allow_session" THEN grants \cup {grant} ELSE grants
             /\ rules' = IF r.choice = "always_allow" THEN rules \cup {d} ELSE rules
             /\ spent' = IF r.choice = "allow_session" THEN spent ELSE spent \cup {grant.id}
             /\ call' = [call EXCEPT ![c].at = @ + 1, ![c].basis = @ \cup {<<d, grant.id>>},
                           ![c].held = IF r.choice = "allow_session" \/ d = Probe
                                       THEN @ ELSE @ \cup {grant}]
  /\ UNCHANGED <<config, shown, void, answers, events>>

(* Another commit holds the file's guard, the file is not of version 2, or *)
(* the user wrote rules for the path: the challenge stays open.            *)
PersistFails(c) ==
  /\ Ungranted(c)
  /\ \E r \in Replies(c) : r.choice = "always_allow" /\ r.choice \in Offered(Current(c))
  /\ Stop(c)
  /\ UNCHANGED <<config, rules, grants, challenges, history, events>>

Refuse(c) ==
  /\ Ungranted(c)
  /\ \E r \in Replies(c) :
       /\ r.choice \notin Offered(Current(c)) \ {"deny"}
       /\ Answered(r.challenge)
  /\ Stop(c)
  /\ UNCHANGED <<config, rules, grants, history, events>>

OfSession(s) == {h \in challenges : h.key.session = s}

(* No answer: the call ends with the challenge its key has, or a new one.  *)
Challenge(c) ==
  /\ Ungranted(c) /\ Replies(c) = {}
  /\ LET d == Current(c)
         open == Keyed(challenges, Key(c, d))
         s == SessionOf[c]
     IN \/ /\ s \notin Form
           /\ Stop(c) /\ UNCHANGED <<challenges, shown>>
        \/ /\ s \in Form /\ open # {}
           /\ \E h \in open :
                call' = [call EXCEPT ![c].step = "asked", ![c].asked = h.id]
           /\ UNCHANGED <<challenges, shown>>
        \/ /\ s \in Form /\ open = {}
           /\ \/ Cardinality(challenges) >= MaxChallenges
              \/ Cardinality(OfSession(s)) >= MaxPerSession
           /\ Stop(c) /\ UNCHANGED <<challenges, shown>>
        \/ /\ s \in Form /\ open = {} /\ NextId \in Ids
           /\ Cardinality(challenges) < MaxChallenges
           /\ Cardinality(OfSession(s)) < MaxPerSession
           /\ challenges' = challenges \cup {[key |-> Key(c, d), id |-> NextId]}
           /\ shown' = Append(shown, Key(c, d))
           /\ call' = [call EXCEPT ![c].step = "asked", ![c].asked = NextId]
  /\ UNCHANGED <<config, rules, grants, void, spent, answers, events>>

Finish(c) ==
  /\ call[c].step = "running" /\ call[c].at > Len(NeedsOf[c])
  /\ Stop(c)
  /\ UNCHANGED <<config, rules, grants, challenges, history, events>>

----------------------------------------------------------------------------
(* An expired challenge is gone before it is looked at; a transport that   *)
(* fails to deliver one drops it too.                                      *)
Expire ==
  /\ \E h \in challenges : challenges' = challenges \ {h}
  /\ UNCHANGED <<config, rules, grants, call, history, events>>

(* A connection ends.                                                      *)
Clear(s) ==
  /\ Event
  /\ grants' = {g \in grants : g.key.session # s}
  /\ challenges' = challenges \ OfSession(s)
  /\ void' = void \cup {i \in DOMAIN shown : shown[i].session = s}
  /\ UNCHANGED <<config, rules, call, shown, spent, answers>>

(* The registry reloads: after the invalidation of a stored approval, or   *)
(* because a configuration file has changed.                               *)
Reload ==
  /\ Event
  /\ config' = [generation |-> config.generation + 1, rules |-> rules]
  /\ UNCHANGED <<rules, grants, challenges, call, history>>

(* Users may never answer, and the model's response keys may run out.      *)
Waits ==
  /\ NextId > MaxIds \/ \A c \in Call : call[c].step \in {"idle", "asked"}
  /\ UNCHANGED vars

Next ==
  \/ Waits
  \/ \E c \in Call :
       \/ Send(c) \/ Allowed(c) \/ Granted(c) \/ Accept(c) \/ PersistFails(c)
       \/ Refuse(c) \/ Challenge(c) \/ Finish(c)
       \/ \E choice \in Choices : Answer(c, choice)
  \/ Expire \/ Reload
  \/ \E s \in Session : Clear(s)

Spec == Init /\ [][Next]_vars

----------------------------------------------------------------------------
(* Whenever a call passes a decision because of an answer, the user gave   *)
(* that answer, it was asked for this decision, tool, session and          *)
(* configuration, the session has not ended since, and an answer that is   *)
(* not for the session lets no second call through.                        *)
Passes(c, d, id) ==
  <<d, id>> \in call'[c].basis \ call[c].basis /\ call'[c].at = call[c].at + 1

AnswersHonoured ==
  \A c \in Call, d \in Decision, id \in Ids : Passes(c, d, id) =>
    /\ shown[id] = [session |-> SessionOf[c], tool |-> shown[id].tool,
                    decision |-> d, generation |-> IF d = Probe THEN 0
                                         ELSE call[c].config.generation]
    /\ d # Filesystem => shown[id].tool = ToolOf[c]
    /\ \E a \in answers : a.id = id /\ a.choice \in Offered(d) \ {"deny"}
    /\ id \in void => \E h \in call[c].held : h.id = id
    /\ id \in spent => \E h \in call[c].held : h.id = id
============================================================================
