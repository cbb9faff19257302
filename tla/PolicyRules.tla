----------------------------- MODULE PolicyRules -----------------------------
(***************************************************************************)
(* The policy engine (internal/policy/engine.go, mode.go): rules kept in   *)
(* order of priority and the decision they come to on a request.  A        *)
(* request is the set of the tests it passes (its method, path, host,      *)
(* headers, address, phase ...).                                           *)
(***************************************************************************)
EXTENDS Integers, Sequences, SequencesExt

\* rule: [mode |-> "allow", "deny" or "observe", priority |-> an integer,
\*        conditions |-> a set of [test, negate], exclusions |-> a set of tests]
Matches(rule, request) ==
  /\ \A cond \in rule.conditions : (cond.test \in request) # cond.negate
  /\ rule.exclusions \cap request = {}

\* Variant: the new rule overtakes those of its own priority too.
AddRuleBefore(rules, rule) ==
  LET place == CHOOSE k \in 0..Len(rules) :
                 /\ k = 0 \/ rules[k].priority < rule.priority
                 /\ \A i \in k + 1..Len(rules) : rules[i].priority >= rule.priority
  IN  SubSeq(rules, 1, place) \o <<rule>> \o SubSeq(rules, place + 1, Len(rules))

\* AddRule: exchanged with its neighbours from the end of the list, the new rule
\* comes to rest behind the last that its priority does not overtake.
AddRule(rules, rule) ==
  LET place == CHOOSE k \in 0..Len(rules) :
                 /\ k = 0 \/ rules[k].priority <= rule.priority
                 /\ \A i \in k + 1..Len(rules) : rules[i].priority > rule.priority
  IN  SubSeq(rules, 1, place) \o <<rule>> \o SubSeq(rules, place + 1, Len(rules))

Engine(added) ==
  LET Upto[n \in 0..Len(added)] == IF n = 0 THEN <<>> ELSE AddRule(Upto[n - 1], added[n])
  IN  Upto[Len(added)]

\* EvaluateRule: the first deny ends it; an allow only takes an observe back.
EvaluateRule(rules, request) ==
  LET Upto[n \in 0..Len(rules)] ==
        IF n = 0 THEN "allow"
        ELSE IF Upto[n - 1] = "deny" \/ ~Matches(rules[n], request) THEN Upto[n - 1]
        ELSE IF rules[n].mode = "allow" /\ Upto[n - 1] # "observe" THEN Upto[n - 1]
        ELSE rules[n].mode
  IN  Upto[Len(rules)]

\* ModeMiddleware.
Enforce(mode, rules, request) ==
  IF mode = "off" THEN "allow"
  ELSE LET decision == EvaluateRule(rules, request)
       IN  IF mode = "observe" /\ decision = "deny" THEN "observe" ELSE decision
-----------------------------------------------------------------------------
\* What the engine should come to, whatever the order of the list: a rule that
\* denies wins; else the matching rule that is last by priority, and by age
\* among equals, has the say.
Verdict(added, request) ==
  LET matching == {i \in 1..Len(added) : Matches(added[i], request)}
      Later(i, j) == added[i].priority > added[j].priority \/ (added[i].priority = added[j].priority /\ i >= j)
      last == CHOOSE i \in matching : \A j \in matching : Later(i, j)
  IN  IF \E i \in matching : added[i].mode = "deny" THEN "deny"
      ELSE IF matching = {} THEN "allow"
      ELSE added[last].mode
=============================================================================
