----------------------------- MODULE PolicyProofs -----------------------------
(***************************************************************************)
(* Theorems about PolicyDecision, for any bindings, policies and actions,  *)
(* and about PolicyBuilder, for any policies, inputs and obligation types, *)
(* and any number of handlers.                                             *)
(***************************************************************************)
EXTENDS PolicyDecision, PolicyBuilder, FiniteSetTheorems, FunctionTheorems,
        SequenceTheorems, WellFoundedInduction, TLAPS

-----------------------------------------------------------------------------
(* PolicyDecision.                                                         *)


\* The trace says of every rule tried whether it held, and matched is the first.
TraceSoFar ==
    /\ pc \in {"collect", "load", "merge"} => trace = << >> /\ matched = 0
    /\ pc = "try" => Len(trace) = next - 1 /\ next <= Len(merged.rules) + 1
    /\ matched # 0 => /\ matched \in DOMAIN trace /\ trace[matched]
                      /\ \A i \in 1..(matched - 1) : ~trace[i]
    /\ matched = 0 => \A i \in DOMAIN trace : ~trace[i]
    /\ Len(trace) <= Len(merged.rules)
    /\ Answered => Len(trace) = Len(merged.rules)

\* Until the end there is no answer.
AnswerLast == pc # "done" => answer = Unanswered

IInv == TypeOK /\ TraceSoFar /\ AnswerLast /\ AllowedOwesNothing /\ ProofsBounded

-----------------------------------------------------------------------------
(* The initial state and one lemma per step.                                   *)

LEMMA InitInv == Init => IInv
<1> SUFFICES ASSUME Init PROVE IInv
  OBVIOUS
<1>1. TypeOK
  BY DEF Init, TypeOK, Policy, Unanswered, Tiers
<1>2. TraceSoFar /\ AnswerLast
  BY DEF Init, TraceSoFar, AnswerLast, Answered
<1>3. AllowedOwesNothing /\ ProofsBounded
  BY DEF Init, AllowedOwesNothing, ProofsBounded, Answered, Unanswered
<1>4. QED
  BY <1>1, <1>2, <1>3 DEF IInv

LEMMA InputTyped == bindings \in Inputs => bindings \in Seq(Binding)
BY InputAssumption DEF InputAssumption

LEMMA CollectStep == ASSUME IInv, Collect PROVE IInv'
<1>1. bindings[next] \in Binding
  BY InputTyped DEF Collect, IInv, TypeOK
<1>2. tiers' \in [Tiers -> Seq(Binding)]
  BY <1>1 DEF Collect, IInv, TypeOK
<1>3. TypeOK'
  BY <1>2 DEF Collect, IInv, TypeOK
<1>4. TraceSoFar' /\ AnswerLast' /\ AllowedOwesNothing' /\ ProofsBounded'
  BY DEF Collect, IInv, TraceSoFar, AnswerLast, AllowedOwesNothing, ProofsBounded, Answered
<1>5. QED
  BY <1>3, <1>4 DEF IInv

\* A refusal carries no result, no obligation and no token.
LEMMA RefuseFact ==
    ASSUME NEW code \in {"NO_POLICY", "POLICY_NOT_FOUND"}, Refuse(code)
    PROVE  /\ pc' = "done" /\ answer'.obligations = {} /\ answer'.ttl = None
           /\ answer'.code # "decision"
BY DEF Refuse, Unanswered

\* Reading a tier in a sorted order yields bindings again.
LEMMA SortedTier ==
    ASSUME NEW s \in Seq(Binding), NEW f \in StableOrders(s)
    PROVE  [i \in DOMAIN s |-> s[f[i]]] \in Seq(Binding)
<1>1. f \in [DOMAIN s -> DOMAIN s]
  BY DEF StableOrders, Bijection, Injection
<1>2. QED
  BY <1>1

LEMMA SortStep == ASSUME IInv, Sort PROVE IInv'
<1>1. PICK f \in [Tiers -> UNION {StableOrders(tiers[t]) : t \in Tiers}] :
        LET sorted(t) == [i \in DOMAIN tiers[t] |-> tiers[t][f[t][i]]] IN
        /\ \A t \in Tiers : f[t] \in StableOrders(tiers[t])
        /\ ordered' = sorted("agent") \o sorted("group") \o sorted("owner_wide")
  BY DEF Sort
<1> DEFINE sorted(t) == [i \in DOMAIN tiers[t] |-> tiers[t][f[t][i]]]
<1>2. \A t \in Tiers : sorted(t) \in Seq(Binding)
  <2> SUFFICES ASSUME NEW t \in Tiers PROVE sorted(t) \in Seq(Binding)
    OBVIOUS
  <2>1. tiers[t] \in Seq(Binding) /\ f[t] \in StableOrders(tiers[t])
    BY <1>1 DEF IInv, TypeOK
  <2>2. QED
    BY <2>1, SortedTier, ZenonT(40)
<1>3. ordered' = sorted("agent") \o sorted("group") \o sorted("owner_wide")
  BY <1>1
<1> HIDE DEF sorted
<1>4. ordered' \in Seq(Binding)
  BY <1>2, <1>3 DEF Tiers
<1>5. \/ /\ pc' = "done" /\ answer'.obligations = {} /\ answer'.ttl = None
         /\ answer'.code # "decision"
      \/ pc' = "load" /\ answer' = answer
  <2>1. CASE ordered' = << >>
    <3>1. Refuse("NO_POLICY")
      BY <2>1 DEF Sort
    <3>2. QED
      BY <3>1, RefuseFact DEF Refuse
  <2>2. CASE ordered' # << >>
    BY <2>2 DEF Sort
  <2>3. QED
    BY <2>1, <2>2
<1>6. /\ pc = "collect" /\ next' = 1
      /\ UNCHANGED <<bindings, action, tiers, layers, merged, trace, matched>>
  BY DEF Sort
<1>7. TypeOK'
  BY <1>4, <1>5, <1>6 DEF IInv, TypeOK
<1>8. TraceSoFar'
  BY <1>5, <1>6 DEF IInv, TypeOK, TraceSoFar, Answered
<1>9. AnswerLast'
  BY <1>5, <1>6 DEF IInv, AnswerLast
<1>10. AllowedOwesNothing' /\ ProofsBounded'
  BY <1>5, <1>6 DEF IInv, AllowedOwesNothing, ProofsBounded, Answered
<1>11. QED
  BY <1>7, <1>8, <1>9, <1>10 DEF IInv

LEMMA LoadStep == ASSUME IInv, Load PROVE IInv'
<1>1. ordered[next].policy \in Policy \cup {None}
  <2>1. ordered[next] \in Binding
    BY DEF Load, IInv, TypeOK
  <2>2. QED
    BY <2>1 DEF Binding
<1>2. layers' \in Seq(Policy)
  BY <1>1 DEF Load, IInv, TypeOK
<1>3. TypeOK'
  BY <1>2 DEF Load, IInv, TypeOK
<1>4. TraceSoFar' /\ AnswerLast' /\ AllowedOwesNothing' /\ ProofsBounded'
  BY DEF Load, IInv, TraceSoFar, AnswerLast, AllowedOwesNothing, ProofsBounded, Answered
<1>5. QED
  BY <1>3, <1>4 DEF IInv

LEMMA LoadedStep == ASSUME IInv, Loaded PROVE IInv'
<1>1. \/ /\ pc' = "done" /\ answer'.obligations = {} /\ answer'.ttl = None
         /\ answer'.code # "decision"
      \/ pc' = "merge" /\ answer' = answer
  <2>1. CASE layers = << >>
    <3>1. Refuse("POLICY_NOT_FOUND")
      BY <2>1 DEF Loaded
    <3>2. QED
      BY <3>1, RefuseFact DEF Refuse
  <2>2. CASE layers # << >>
    BY <2>2 DEF Loaded
  <2>3. QED
    BY <2>1, <2>2
<1>2. /\ pc = "load" /\ next' = 1
      /\ UNCHANGED <<bindings, action, tiers, ordered, layers, merged, trace, matched>>
  BY DEF Loaded
<1>3. TypeOK'
  BY <1>1, <1>2 DEF IInv, TypeOK
<1>4. TraceSoFar' /\ AnswerLast'
  BY <1>1, <1>2 DEF IInv, TypeOK, TraceSoFar, AnswerLast, Answered
<1>5. AllowedOwesNothing' /\ ProofsBounded'
  BY <1>1, <1>2 DEF IInv, AllowedOwesNothing, ProofsBounded, Answered
<1>6. QED
  BY <1>3, <1>4, <1>5 DEF IInv

LEMMA MergeStep == ASSUME IInv, Merge PROVE IInv'
<1>1. layers[next] \in Policy /\ merged \in Policy
  BY DEF Merge, IInv, TypeOK
<1>2. /\ merged' = [default |-> DefaultAfter(next),
                    rules |-> merged.rules \o layers[next].rules]
      /\ next' = next + 1 /\ pc = "merge"
      /\ UNCHANGED <<pc, bindings, action, tiers, ordered, layers, trace,
                     matched, answer>>
  BY DEF Merge
<1>3. DefaultAfter(next) \in {"allow", "deny", "passthrough", "require_approval"}
  BY <1>1 DEF DefaultAfter, Policy
<1>4. merged.rules \o layers[next].rules \in Seq(Rule)
  BY <1>1 DEF Policy
<1>5. merged' \in Policy
  BY <1>2, <1>3, <1>4 DEF Policy
<1>6. TypeOK'
  BY <1>2, <1>5 DEF IInv, TypeOK
<1>7. Len(merged'.rules) \in Nat
  BY <1>5 DEF Policy
<1>8. TraceSoFar'
  <2>1. trace' = << >> /\ matched' = 0 /\ pc' = "merge"
    BY <1>2 DEF IInv, TraceSoFar
  <2>2. Len(trace') = 0 /\ DOMAIN trace' = {}
    BY <2>1
  <2>3. QED
    BY <1>7, <2>1, <2>2 DEF TraceSoFar, Answered
<1>9. AnswerLast' /\ AllowedOwesNothing' /\ ProofsBounded'
  BY <1>2 DEF IInv, AnswerLast, AllowedOwesNothing, ProofsBounded, Answered, Unanswered
<1>10. QED
  BY <1>6, <1>8, <1>9 DEF IInv

LEMMA MergedStep == ASSUME IInv, Merged PROVE IInv'
<1>1. Len(merged.rules) \in Nat
  BY DEF IInv, TypeOK, Policy
<1>2. TypeOK'
  BY DEF Merged, IInv, TypeOK
<1>3. TraceSoFar' /\ AnswerLast' /\ AllowedOwesNothing' /\ ProofsBounded'
  BY <1>1 DEF Merged, IInv, TraceSoFar, AnswerLast, AllowedOwesNothing, ProofsBounded, Answered
<1>4. QED
  BY <1>2, <1>3 DEF IInv

\* A rule is tried: the trace grows by what it is worth.
LEMMA TryStep == ASSUME IInv, Try PROVE IInv'
<1> DEFINE final == Holds(merged.rules[next])
<1>1. /\ pc = "try" /\ next <= Len(merged.rules)
      /\ trace' = Append(trace, final)
      /\ matched' = IF final /\ matched = 0 THEN next ELSE matched
      /\ next' = next + 1
      /\ UNCHANGED <<pc, bindings, action, tiers, ordered, layers, merged, answer>>
  BY DEF Try
<1>2. final \in BOOLEAN
  BY <1>1 DEF IInv, TypeOK, Policy, Rule, Holds
<1>3. /\ next \in Nat \ {0} /\ matched \in Nat /\ trace \in Seq(BOOLEAN)
      /\ Len(trace) = next - 1 /\ Len(merged.rules) \in Nat
  BY <1>1 DEF IInv, TypeOK, Policy, TraceSoFar
<1> HIDE DEF final
<1>4. /\ trace' \in Seq(BOOLEAN) /\ Len(trace') = next
      /\ trace'[next] = final /\ \A i \in 1..(next - 1) : trace'[i] = trace[i]
  BY <1>1, <1>2, <1>3
<1>5. DOMAIN trace = 1..(next - 1) /\ DOMAIN trace' = 1..next
  BY <1>3, <1>4
<1>6. TypeOK'
  BY <1>1, <1>3, <1>4 DEF IInv, TypeOK
<1>7. matched' # 0 => /\ matched' \in DOMAIN trace' /\ trace'[matched']
                      /\ \A i \in 1..(matched' - 1) : ~trace'[i]
  <2>1. CASE matched # 0
    BY <1>1, <1>3, <1>4, <1>5, <2>1 DEF IInv, TraceSoFar
  <2>2. CASE matched = 0 /\ final
    BY <1>1, <1>3, <1>4, <1>5, <2>2 DEF IInv, TraceSoFar
  <2>3. CASE matched = 0 /\ ~final
    BY <1>1, <2>3
  <2>4. QED
    BY <2>1, <2>2, <2>3
<1>8. matched' = 0 => \A i \in DOMAIN trace' : ~trace'[i]
  <2> SUFFICES ASSUME matched' = 0, NEW i \in 1..next PROVE ~trace'[i]
    BY <1>5
  <2>1. matched = 0 /\ ~final
    BY <1>1, <1>3
  <2>2. CASE i = next
    BY <1>4, <2>1, <2>2
  <2>3. CASE i # next
    BY <1>3, <1>4, <1>5, <2>1, <2>3 DEF IInv, TraceSoFar
  <2>4. QED
    BY <2>2, <2>3
<1>9. TraceSoFar'
  BY <1>1, <1>3, <1>4, <1>7, <1>8 DEF TraceSoFar, Answered
<1>10. AnswerLast' /\ AllowedOwesNothing' /\ ProofsBounded'
  BY <1>1 DEF IInv, AnswerLast, AllowedOwesNothing, ProofsBounded, Answered, Unanswered
<1>11. QED
  BY <1>6, <1>9, <1>10 DEF IInv

\* What is owed decides the result: nothing blocking is waved through.
LEMMA OwedDecides ==
    ASSUME NEW owed \in SUBSET Obligation
    PROVE  /\ ResultOf(owed) = "ALLOW" => owed \cap Blocking = {}
           /\ "HUMAN_APPROVAL" \in owed => ResultOf(owed) = "REQUIRE_APPROVAL"
           /\ ResultOf(owed) # "DENY"
<1>1. CASE "HUMAN_APPROVAL" \in owed
  BY <1>1 DEF ResultOf, Blocking
<1>2. CASE "HUMAN_APPROVAL" \notin owed /\ "STEP_UP_AUTH" \in owed
  BY <1>2 DEF ResultOf, Blocking
<1>3. CASE "HUMAN_APPROVAL" \notin owed /\ "STEP_UP_AUTH" \notin owed
  <2>1. CASE "DEPOSIT" \in owed
    <3>1. owed \cap Blocking = {"DEPOSIT"}
      BY <1>3, <2>1 DEF Blocking
    <3>2. QED
      BY <1>3, <3>1 DEF ResultOf
  <2>2. CASE "DEPOSIT" \notin owed
    <3>1. owed \cap Blocking = {}
      BY <1>3, <2>2 DEF Blocking
    <3>2. QED
      BY <1>3, <3>1 DEF ResultOf
  <2>3. QED
    BY <2>1, <2>2
<1>4. QED
  BY <1>1, <1>2, <1>3

LEMMA CappedTtl ==
    ASSUME TypeOK, NEW i \in Nat, i # 0 => merged.rules[i] \in Rule
    PROVE  ProofTtl(i) <= MaxTtl
<1> DEFINE ttl == IF i # 0 /\ merged.rules[i].ttl # None
                  THEN merged.rules[i].ttl ELSE DefaultTtl
<1>1. ttl \in Nat /\ MaxTtl \in Nat
  BY TtlAssumption DEF TtlAssumption, Rule
<1> HIDE DEF ttl
<1>2. ProofTtl(i) = IF ttl > MaxTtl THEN MaxTtl ELSE ttl
  BY DEF ProofTtl, ttl
<1>3. QED
  BY <1>1, <1>2

LEMMA AnswerStep == ASSUME IInv, Answer PROVE IInv'
<1> DEFINE out == Outcome(merged.rules, matched, merged.default)
<1>1. /\ pc = "try" /\ next > Len(merged.rules) /\ pc' = "done"
      /\ UNCHANGED <<bindings, action, next, tiers, ordered, layers, merged,
                     trace, matched>>
  BY DEF Answer
<1>2. answer' = [code |-> "decision",
                 result |-> out.result,
                 obligations |-> out.obligations,
                 ttl |-> IF ProofRequired(matched) /\ out.result = "ALLOW"
                         THEN ProofTtl(matched) ELSE None]
  BY DEF Answer
<1>3. /\ matched \in Nat /\ next \in Nat /\ Len(merged.rules) \in Nat
      /\ trace \in Seq(BOOLEAN) /\ Len(trace) = Len(merged.rules)
  BY <1>1 DEF IInv, TypeOK, Policy, TraceSoFar
<1>4. matched # 0 => merged.rules[matched] \in Rule
  BY <1>3 DEF IInv, TypeOK, Policy, TraceSoFar
<1>5. action.level \in Level
  BY InputAssumption DEF InputAssumption, IInv, TypeOK, Action
<1>6. /\ out.obligations \subseteq Obligation
      /\ out.result = "ALLOW" =>
            /\ out.obligations \cap Blocking = {}
            /\ matched # 0 => action.level >= merged.rules[matched].level
      /\ "HUMAN_APPROVAL" \in out.obligations => out.result = "REQUIRE_APPROVAL"
  <2>1. CASE matched = 0
    BY <2>1 DEF Outcome, Obligation, Blocking
  <2>2. CASE matched # 0 /\ merged.rules[matched].effect = "deny"
    BY <2>2 DEF Outcome
  <2>3. CASE matched # 0 /\ merged.rules[matched].effect # "deny"
    <3> DEFINE owed == Owed(merged.rules[matched])
    <3>1. out.result = ResultOf(owed) /\ out.obligations = owed
      BY <2>3 DEF Outcome
    <3>2. owed \in SUBSET Obligation
      BY <1>4, <2>3 DEF Owed, Rule, Obligation, Blocking
    <3>3. action.level < merged.rules[matched].level => "STEP_UP_AUTH" \in owed
      BY DEF Owed
    <3> HIDE DEF owed
    <3>4. merged.rules[matched].level \in Level
      BY <1>4, <2>3 DEF Rule
    <3>5. out.result = "ALLOW" => action.level >= merged.rules[matched].level
      <4>1. out.result = "ALLOW" => "STEP_UP_AUTH" \notin owed
        BY <3>1, <3>2, OwedDecides DEF Blocking
      <4>2. QED
        BY <1>5, <3>3, <3>4, <4>1 DEF Level
    <3>6. QED
      BY <3>1, <3>2, <3>5, OwedDecides
  <2>4. QED
    BY <2>1, <2>2, <2>3
<1> HIDE DEF out
<1>7. ProofTtl(matched) <= MaxTtl
  BY <1>3, <1>4, CappedTtl DEF IInv
<1>8. TypeOK'
  BY <1>1, <1>2, <1>6 DEF IInv, TypeOK
<1>9. TraceSoFar'
  BY <1>1, <1>2, <1>3 DEF IInv, TraceSoFar, Answered
<1>10. AnswerLast' /\ ProofsBounded'
  BY <1>1, <1>2, <1>7 DEF AnswerLast, ProofsBounded
<1>11. AllowedOwesNothing'
  BY <1>1, <1>2, <1>6 DEF AllowedOwesNothing, Answered
<1>12. QED
  BY <1>8, <1>9, <1>10, <1>11 DEF IInv

-----------------------------------------------------------------------------
(* The invariant.                                                              *)

LEMMA StutterStep == ASSUME IInv, UNCHANGED vars PROVE IInv'
BY DEF vars, IInv, TypeOK, TraceSoFar, AnswerLast, AllowedOwesNothing,
       ProofsBounded, Answered

LEMMA NextStep == IInv /\ [Next]_vars => IInv'
BY CollectStep, SortStep, LoadStep, LoadedStep, MergeStep, MergedStep, TryStep,
   AnswerStep, StutterStep DEF Next

\* The inductive invariant holds at every step of every evaluation.
THEOREM Invariance == Spec => []IInv
BY InitInv, NextStep, PTL DEF Spec

\* Tiers, layers, the merged policy and the trace keep their types, whatever an
\* owner's bindings are.
THEOREM TypeCorrect == Spec => []TypeOK
BY Invariance, PTL DEF IInv

\* The trace in the audit log has every rule, and its first match is the one
\* that decided.
THEOREM TraceAlwaysExplains == Spec => []TraceExplains
<1>1. IInv => TraceExplains
  BY DEF IInv, TraceSoFar, TraceExplains
<1>2. QED
  BY <1>1, Invariance, PTL

\* No action is let through while a blocking obligation is owed or its assurance
\* is below what the matched rule requires; a human who is owed a say is asked.
THEOREM NothingOwedWhenAllowed == Spec => []AllowedOwesNothing
BY Invariance, PTL DEF IInv

\* Proof tokens go with allowed actions only and never outlive the maximum.
THEOREM ProofsAlwaysBounded == Spec => []ProofsBounded
BY Invariance, PTL DEF IInv

\* Every answer owes nothing it lets through, bounds its token and is explained
\* by its trace.
THEOREM AnswersAlwaysSound == Spec => []AnswersSound
BY TraceAlwaysExplains, NothingOwedWhenAllowed, ProofsAlwaysBounded, PTL DEF AnswersSound

-----------------------------------------------------------------------------
(* The order of specificity.                                                   *)

LEMMA TierFact ==
    ASSUME NEW b
    PROVE  /\ "agent" \in TierOf(b) <=> b.agent = Self
           /\ "group" \in TierOf(b) <=> b.agent # Self /\ InGroup(b)
           /\ "owner_wide" \in TierOf(b) <=> b.agent = None /\ b.group = None
           /\ TierOf(b) \subseteq Tiers
<1>1. None # Self
  BY SelfAssumption, NoneAssumption DEF SelfAssumption, NoneAssumption
<1>2. CASE b.agent = Self
  <2>1. TierOf(b) = {"agent"}
    BY <1>1, <1>2 DEF TierOf, InGroup
  <2>2. QED
    BY <1>1, <1>2, <2>1 DEF Tiers
<1>3. CASE b.agent # Self /\ InGroup(b)
  <2>1. TierOf(b) = {"group"}
    BY <1>1, <1>3 DEF TierOf, InGroup
  <2>2. QED
    BY <1>3, <2>1 DEF Tiers, InGroup
<1>4. CASE b.agent # Self /\ ~InGroup(b) /\ b.agent = None /\ b.group = None
  <2>1. TierOf(b) = {"owner_wide"}
    BY <1>4 DEF TierOf
  <2>2. QED
    BY <1>4, <2>1 DEF Tiers
<1>5. CASE b.agent # Self /\ ~InGroup(b) /\ ~(b.agent = None /\ b.group = None)
  <2>1. TierOf(b) = {}
    BY <1>5 DEF TierOf
  <2>2. QED
    BY <1>5, <2>1
<1>6. QED
  BY <1>2, <1>3, <1>4, <1>5

LEMMA BreadthFact ==
    ASSUME NEW b
    PROVE  Breadth(b) = IF b.agent = Self THEN 1
                        ELSE IF b.agent = None /\ b.group = None THEN 3 ELSE 2
<1>1. None # Self
  BY SelfAssumption, NoneAssumption DEF SelfAssumption, NoneAssumption
<1> DEFINE P(n) == /\ n = 1 <=> b.agent = Self
                   /\ n = 3 <=> b.agent = None /\ b.group = None
           n == IF b.agent = Self THEN 1
                ELSE IF b.agent = None /\ b.group = None THEN 3 ELSE 2
<1>2. n \in 1..3 /\ P(n)
  BY <1>1
<1>3. \A m \in 1..3 : P(m) => m = n
  BY <1>1
<1>4. QED
  BY <1>2, <1>3 DEF Breadth

\* No binding precedes another both ways.
LEMMA PrecedesOneWay ==
    ASSUME NEW i \in Nat, NEW j \in Nat, Precedes(i, j),
           bindings[i] \in Binding, bindings[j] \in Binding
    PROVE  i # j /\ ~Precedes(j, i)
<1>1. /\ Breadth(bindings[i]) \in Nat /\ Breadth(bindings[j]) \in Nat
  BY BreadthFact
<1>2. Rank(bindings[i]) \in Nat /\ Rank(bindings[j]) \in Nat
  BY DEF Rank, Binding
<1>3. QED
  BY <1>1, <1>2 DEF Precedes

\* So at most one rule, and at most one default, can be the one that decides.
LEMMA DecidedByOnce ==
    ASSUME bindings \in Seq(Binding),
           NEW i \in Consulted, NEW k \in DOMAIN bindings[i].policy.rules, DecidedBy(i, k),
           NEW j \in Consulted, NEW m \in DOMAIN bindings[j].policy.rules, DecidedBy(j, m)
    PROVE  i = j /\ k = m
<1>1. /\ i \in Nat /\ j \in Nat /\ bindings[i] \in Binding /\ bindings[j] \in Binding
      /\ bindings[i].policy # None
  BY DEF Consulted
<1>2. i = j
  <2> SUFFICES ASSUME i # j PROVE FALSE
    OBVIOUS
  <2>1. Precedes(i, j) /\ Precedes(j, i)
    BY DEF DecidedBy
  <2>2. QED
    BY <1>1, <2>1, PrecedesOneWay
<1>3. k \in Nat /\ m \in Nat
  BY <1>1, <1>2 DEF Binding, Policy
<1>4. k <= m /\ m <= k
  BY <1>2 DEF DecidedBy
<1>5. QED
  BY <1>2, <1>3, <1>4

LEMMA DefaultByOnce ==
    ASSUME bindings \in Seq(Binding),
           NEW i \in Consulted, DefaultBy(i), NEW j \in Consulted, DefaultBy(j)
    PROVE  i = j
<1> SUFFICES ASSUME i # j PROVE FALSE
  OBVIOUS
<1>1. i \in Nat /\ j \in Nat /\ bindings[i] \in Binding /\ bindings[j] \in Binding
  BY DEF Consulted
<1>2. Precedes(i, j) /\ Precedes(j, i)
  BY DEF DefaultBy
<1>3. QED
  BY <1>1, <1>2, PrecedesOneWay

-----------------------------------------------------------------------------
(* Where what is collected, sorted, loaded and merged comes from.              *)

\* g gives the places, among the first n, of the bindings of a tier.
ReadsTier(t, n, g) ==
    /\ g \in [DOMAIN tiers[t] -> 1..n]
    /\ \A k \in DOMAIN tiers[t] :
          tiers[t][k] = bindings[g[k]] /\ t \in TierOf(bindings[g[k]])
    /\ \A k, l \in DOMAIN tiers[t] : k < l => g[k] < g[l]
    /\ \A i \in 1..n : t \in TierOf(bindings[i]) => \E k \in DOMAIN tiers[t] : g[k] = i

TiersRead ==
    pc = "collect" => /\ next <= Len(bindings) + 1
                      /\ \A t \in Tiers : \E g : ReadsTier(t, next - 1, g)

\* s has the bindings of the tiers ts, in their order, and place their places.
Arranges(s, ts, place) ==
    /\ s \in Seq(Binding)
    /\ place \in [DOMAIN s -> DOMAIN bindings]
    /\ \A k \in DOMAIN s :
          s[k] = bindings[place[k]] /\ TierOf(bindings[place[k]]) \cap ts # {}
    /\ \A k, l \in DOMAIN s : k < l => Precedes(place[k], place[l])
    /\ \A i \in DOMAIN bindings :
          TierOf(bindings[i]) \cap ts # {} => \E k \in DOMAIN s : place[k] = i

\* from gives the places, among the first n, of what the layers were loaded for.
LoadsFrom(n, from) ==
    /\ from \in [DOMAIN layers -> 1..n]
    /\ \A k \in DOMAIN layers : /\ layers[k] = ordered[from[k]].policy
                                /\ ordered[from[k]].policy # None
    /\ \A k, l \in DOMAIN layers : k < l => from[k] < from[l]
    /\ \A j \in 1..n : ordered[j].policy # None => \E k \in DOMAIN layers : from[k] = j

LayersLoaded ==
    /\ pc = "collect" => layers = << >>
    /\ pc = "load" => /\ next <= Len(ordered) + 1
                      /\ \E place : Arranges(ordered, Tiers, place)
                      /\ \E from : LoadsFrom(next - 1, from)

\* source gives the binding each layer is of, the most specific first.
Layers(source) ==
    /\ source \in [DOMAIN layers -> Consulted]
    /\ \A k \in DOMAIN layers : layers[k] = bindings[source[k]].policy
    /\ \A k, l \in DOMAIN layers : k < l => Precedes(source[k], source[l])
    /\ \A i \in Consulted : \E k \in DOMAIN layers : source[k] = i

LayersOrdered == pc \in {"merge", "try"} => \E source : Layers(source)

\* The merged rules are those of the first n layers, one layer after the other:
\* lay and at tell the layer and the place there.
MergesFrom(n, lay, at) ==
    /\ \A p \in DOMAIN merged.rules :
          /\ lay[p] \in 1..n /\ at[p] \in DOMAIN layers[lay[p]].rules
          /\ merged.rules[p] = layers[lay[p]].rules[at[p]]
    /\ \A p, q \in DOMAIN merged.rules :
          p < q => \/ lay[p] < lay[q]
                   \/ lay[p] = lay[q] /\ at[p] < at[q]
    /\ \A j \in 1..n : \A k \in DOMAIN layers[j].rules :
          \E p \in DOMAIN merged.rules : lay[p] = j /\ at[p] = k

\* The merged default is the first among n layers that does not abstain.
DefaultFrom(n) ==
    \/ merged.default = "deny" /\ \A j \in 1..n : ~Decided(layers[j])
    \/ \E j \in 1..n : /\ Decided(layers[j]) /\ merged.default = layers[j].default
                       /\ \A m \in 1..(j - 1) : ~Decided(layers[m])

LayersMerged ==
    /\ pc \in {"collect", "load"} => merged = [default |-> "deny", rules |-> << >>]
    /\ pc = "merge" => /\ next <= Len(layers) + 1 /\ DefaultFrom(next - 1)
                       /\ \E lay, at : MergesFrom(next - 1, lay, at)
    /\ pc = "try" => /\ DefaultFrom(Len(layers))
                     /\ \E lay, at : MergesFrom(Len(layers), lay, at)

\* The trace says what the rules are worth.
TraceTrue == pc = "try" => \A i \in DOMAIN trace : trace[i] = Holds(merged.rules[i])

DInv == /\ IInv /\ TiersRead /\ LayersLoaded /\ LayersOrdered /\ LayersMerged
        /\ TraceTrue /\ DecidedBySpecificity

LEMMA InitWhence == Init => DInv
<1> SUFFICES ASSUME Init PROVE DInv
  OBVIOUS
<1>1. bindings \in Seq(Binding)
  BY InputTyped DEF Init
<1>2. ASSUME NEW t \in Tiers PROVE \E g : ReadsTier(t, next - 1, g)
  <2>1. tiers[t] = << >> /\ next - 1 = 0
    BY DEF Init
  <2>2. DOMAIN tiers[t] = {} /\ 1..0 = {} /\ << >> \in [DOMAIN tiers[t] -> 1..0]
    BY <2>1
  <2>3. ReadsTier(t, next - 1, << >>)
    BY <2>1, <2>2 DEF ReadsTier
  <2>4. QED
    BY <2>3
<1>3. TiersRead
  BY <1>1, <1>2 DEF Init, TiersRead
<1>4. LayersLoaded /\ LayersOrdered /\ LayersMerged /\ TraceTrue
  BY DEF Init, LayersLoaded, LayersOrdered, LayersMerged, TraceTrue
<1>5. DecidedBySpecificity
  BY DEF Init, DecidedBySpecificity, Answered
<1>6. QED
  BY <1>3, <1>4, <1>5, InitInv DEF DInv

\* A binding is read into its tier.
LEMMA CollectWhence == ASSUME DInv, Collect PROVE DInv'
<1>0. PICK n, b : n = next /\ b = bindings[next]
  OBVIOUS
<1>1. /\ pc = "collect" /\ n <= Len(bindings) /\ pc' = "collect"
      /\ tiers' = [t \in Tiers |-> IF t \in TierOf(b) THEN Append(tiers[t], b) ELSE tiers[t]]
      /\ next' = n + 1 /\ layers' = layers /\ merged' = merged /\ bindings' = bindings
  BY <1>0 DEF Collect
<1>2. n \in Nat \ {0} /\ bindings \in Seq(Binding) /\ tiers \in [Tiers -> Seq(Binding)]
  BY <1>0, InputTyped DEF DInv, IInv, TypeOK
<1>3. ASSUME NEW t \in Tiers PROVE \E g : ReadsTier(t, n, g)'
  <2>1. PICK g : ReadsTier(t, n - 1, g)
    BY <1>0, <1>1 DEF DInv, TiersRead
  <2>2. tiers[t] \in Seq(Binding)
    BY <1>2
  <2>3. /\ g \in [DOMAIN tiers[t] -> 1..(n - 1)]
        /\ \A k \in DOMAIN tiers[t] :
              tiers[t][k] = bindings[g[k]] /\ t \in TierOf(bindings[g[k]])
        /\ \A k, l \in DOMAIN tiers[t] : k < l => g[k] < g[l]
        /\ \A i \in 1..(n - 1) :
              t \in TierOf(bindings[i]) => \E k \in DOMAIN tiers[t] : g[k] = i
    BY <2>1 DEF ReadsTier
  <2>4. CASE t \notin TierOf(b)
    <3>1. tiers'[t] = tiers[t]
      BY <1>1, <2>4
    <3>2. g \in [DOMAIN tiers'[t] -> 1..n]
      BY <1>2, <2>3, <3>1
    <3>3. \A i \in 1..n : t \in TierOf(bindings[i]) => \E k \in DOMAIN tiers[t] : g[k] = i
      BY <1>0, <1>2, <2>3, <2>4
    <3>4. ReadsTier(t, n, g)'
      BY <1>1, <2>3, <3>1, <3>2, <3>3 DEF ReadsTier, TierOf, InGroup
    <3>5. QED
      BY <3>4
  <2>5. CASE t \in TierOf(b)
    <3>0. PICK m, h : /\ m = Len(tiers[t])
                      /\ h = [k \in 1..(m + 1) |-> IF k = m + 1 THEN n ELSE g[k]]
      OBVIOUS
    <3>1. tiers'[t] = Append(tiers[t], b)
      BY <1>1, <2>5
    <3>2. m \in Nat /\ DOMAIN tiers[t] = 1..m /\ DOMAIN tiers'[t] = 1..(m + 1)
      BY <2>2, <3>0, <3>1
    <3>3. /\ \A k \in 1..m : tiers'[t][k] = tiers[t][k] /\ h[k] = g[k]
          /\ tiers'[t][m + 1] = b /\ h[m + 1] = n
      BY <2>2, <3>0, <3>1, <3>2
    <3>4. h \in [1..(m + 1) -> 1..n]
      BY <1>2, <2>3, <3>0, <3>2
    <3>5. \A k \in 1..(m + 1) : k \in 1..m \/ k = m + 1
      BY <3>2
    <3>6. \A k \in 1..m : h[k] \in 1..(n - 1) /\ h[k] < n
      BY <1>2, <2>3, <3>2, <3>3
    <3>7. ASSUME NEW k \in 1..(m + 1)
          PROVE  tiers'[t][k] = bindings[h[k]] /\ t \in TierOf(bindings[h[k]])
      <4>1. CASE k \in 1..m
        BY <2>3, <3>2, <3>3, <4>1
      <4>2. CASE k = m + 1
        BY <1>0, <2>5, <3>3, <4>2
      <4>3. QED
        BY <3>5, <4>1, <4>2
    <3>8. ASSUME NEW k \in 1..(m + 1), NEW l \in 1..(m + 1), k < l PROVE h[k] < h[l]
      <4>1. k \in 1..m
        BY <3>2, <3>8
      <4>2. CASE l \in 1..m
        BY <2>3, <3>2, <3>3, <3>8, <4>1, <4>2
      <4>3. CASE l = m + 1
        BY <3>3, <3>6, <4>1, <4>3
      <4>4. QED
        BY <3>5, <4>2, <4>3
    <3>9. \A i \in 1..n : t \in TierOf(bindings[i]) => \E k \in 1..(m + 1) : h[k] = i
      <4> SUFFICES ASSUME NEW i \in 1..n, t \in TierOf(bindings[i])
                   PROVE  \E k \in 1..(m + 1) : h[k] = i
        OBVIOUS
      <4>1. CASE i = n
        BY <1>2, <3>2, <3>3, <4>1
      <4>2. CASE i # n
        <5>1. i \in 1..(n - 1)
          BY <1>2, <4>2
        <5>2. PICK k \in 1..m : g[k] = i
          BY <2>3, <3>2, <5>1
        <5>3. QED
          BY <3>2, <3>3, <5>2
      <4>3. QED
        BY <4>1, <4>2
    <3>10. ReadsTier(t, n, h)'
      BY <1>1, <3>2, <3>4, <3>7, <3>8, <3>9 DEF ReadsTier, TierOf, InGroup
    <3>11. QED
      BY <3>10
  <2>6. QED
    BY <2>4, <2>5
<1>4. next' - 1 = n /\ next' <= Len(bindings') + 1
  BY <1>1, <1>2
<1>5. TiersRead'
  <2> SUFFICES ASSUME NEW t \in Tiers PROVE \E g : ReadsTier(t, next - 1, g)'
    BY <1>4 DEF TiersRead
  <2>1. PICK g : ReadsTier(t, n, g)'
    BY <1>3
  <2>2. ReadsTier(t, next - 1, g)'
    BY <1>4, <2>1 DEF ReadsTier
  <2>3. QED
    BY <2>2
<1>6. LayersLoaded' /\ LayersOrdered' /\ LayersMerged' /\ TraceTrue'
  BY <1>1 DEF DInv, LayersLoaded, LayersOrdered, LayersMerged, TraceTrue
<1>7. DecidedBySpecificity'
  BY <1>1 DEF DecidedBySpecificity, Answered
<1>8. QED
  BY <1>5, <1>6, <1>7, CollectStep DEF DInv

\* A tier is sorted.
LEMMA SortTier ==
    ASSUME bindings \in Seq(Binding), NEW t \in Tiers, tiers[t] \in Seq(Binding),
           NEW g, ReadsTier(t, Len(bindings), g), NEW f \in StableOrders(tiers[t])
    PROVE  \E place : Arranges([k \in DOMAIN tiers[t] |-> tiers[t][f[k]]], {t}, place)
<1>0. PICK D, s, h : /\ D = DOMAIN tiers[t]
                     /\ s = [k \in D |-> tiers[t][f[k]]] /\ h = [k \in D |-> g[f[k]]]
  OBVIOUS
<1>1. f \in [D -> D] /\ \A l \in D : \E k \in D : f[k] = l
  BY <1>0 DEF StableOrders, Bijection, Injection, Surjection
<1>2. \A i, j \in D : i < j => \/ Rank(tiers[t][f[i]]) < Rank(tiers[t][f[j]])
                               \/ /\ Rank(tiers[t][f[i]]) = Rank(tiers[t][f[j]])
                                  /\ f[i] < f[j]
  BY <1>0 DEF StableOrders
<1>3. D = 1..Len(tiers[t]) /\ Len(tiers[t]) \in Nat /\ DOMAIN bindings = 1..Len(bindings)
  BY <1>0
<1>4. s \in Seq(Binding) /\ DOMAIN s = D
  <2>1. \A k \in D : tiers[t][k] \in Binding
    BY <1>0
  <2>2. \A k \in D : tiers[t][f[k]] \in Binding
    BY <1>1, <2>1
  <2>3. s \in [1..Len(tiers[t]) -> Binding]
    BY <1>0, <1>3, <2>2
  <2>4. QED
    BY <1>3, <2>3
<1>5. /\ g \in [D -> DOMAIN bindings]
      /\ \A k \in D : tiers[t][k] = bindings[g[k]] /\ t \in TierOf(bindings[g[k]])
      /\ \A k, l \in D : k < l => g[k] < g[l]
      /\ \A i \in DOMAIN bindings : t \in TierOf(bindings[i]) => \E k \in D : g[k] = i
  BY <1>0, <1>3 DEF ReadsTier
<1>6. h \in [D -> DOMAIN bindings]
  BY <1>0, <1>1, <1>5
<1>7. \A k \in D : s[k] = bindings[h[k]] /\ t \in TierOf(bindings[h[k]])
  BY <1>0, <1>1, <1>5
<1>8. ASSUME NEW k \in D, NEW l \in D, k < l PROVE Precedes(h[k], h[l])
  <2>1. Breadth(bindings[h[k]]) = Breadth(bindings[h[l]])
    BY <1>7, BreadthFact, TierFact DEF Tiers, InGroup
  <2>2. /\ Rank(bindings[h[k]]) = Rank(tiers[t][f[k]])
        /\ Rank(bindings[h[l]]) = Rank(tiers[t][f[l]])
    BY <1>0, <1>7
  <2>3. CASE Rank(tiers[t][f[k]]) < Rank(tiers[t][f[l]])
    BY <2>1, <2>2, <2>3 DEF Precedes
  <2>4. CASE Rank(tiers[t][f[k]]) = Rank(tiers[t][f[l]]) /\ f[k] < f[l]
    <3>1. h[k] < h[l]
      BY <1>0, <1>1, <1>5, <2>4
    <3>2. QED
      BY <2>1, <2>2, <2>4, <3>1 DEF Precedes
  <2>5. QED
    BY <1>2, <1>8, <2>3, <2>4
<1>9. ASSUME NEW i \in DOMAIN bindings, t \in TierOf(bindings[i])
      PROVE  \E k \in D : h[k] = i
  <2>1. PICK l \in D : g[l] = i
    BY <1>5, <1>9
  <2>2. PICK k \in D : f[k] = l
    BY <1>1
  <2>3. QED
    BY <1>0, <2>1, <2>2
<1>10. Arranges(s, {t}, h)
  BY <1>4, <1>6, <1>7, <1>8, <1>9 DEF Arranges
<1>11. QED
  BY <1>0, <1>10

\* Two arrangements are joined.
LEMMA JoinTiers ==
    ASSUME NEW s, NEW ts, NEW h, Arranges(s, ts, h),
           NEW r, NEW us, NEW g, Arranges(r, us, g),
           \A i, j \in DOMAIN bindings :
              TierOf(bindings[i]) \cap ts # {} /\ TierOf(bindings[j]) \cap us # {}
                 => Precedes(i, j)
    PROVE  \E place : Arranges(s \o r, ts \cup us, place)
<1>0. PICK m, n, p : /\ m = Len(s) /\ n = Len(r)
                     /\ p = [k \in 1..(m + n) |-> IF k <= m THEN h[k] ELSE g[k - m]]
  OBVIOUS
<1>1. /\ s \in Seq(Binding) /\ r \in Seq(Binding)
      /\ m \in Nat /\ n \in Nat /\ DOMAIN s = 1..m /\ DOMAIN r = 1..n
  BY <1>0 DEF Arranges
<1>2. /\ s \o r \in Seq(Binding) /\ DOMAIN (s \o r) = 1..(m + n)
      /\ \A k \in 1..m : (s \o r)[k] = s[k]
      /\ \A k \in 1..n : (s \o r)[k + m] = r[k]
  BY <1>0, <1>1
<1>3. /\ \A k \in 1..m : k \in 1..(m + n) /\ p[k] = h[k]
      /\ \A k \in 1..n : k + m \in 1..(m + n) /\ p[k + m] = g[k]
  BY <1>0, <1>1
<1>4. \A k \in 1..(m + n) : k \in 1..m \/ \E l \in 1..n : k = l + m
  <2> TAKE k \in 1..(m + n)
  <2>1. CASE k <= m
    BY <1>1, <2>1
  <2>2. CASE k > m
    <3>1. k - m \in 1..n /\ k = (k - m) + m
      BY <1>1, <2>2
    <3>2. QED
      BY <3>1
  <2>3. QED
    BY <1>1, <2>1, <2>2
<1>5. /\ \A k \in 1..m : h[k] \in DOMAIN bindings
      /\ \A k \in 1..n : g[k] \in DOMAIN bindings
  BY <1>1 DEF Arranges
<1>6. \A k \in 1..(m + n) : p[k] \in DOMAIN bindings
  BY <1>3, <1>4, <1>5
<1>7. p \in [1..(m + n) -> DOMAIN bindings]
  BY <1>0, <1>6
<1>8. \A k \in 1..m : s[k] = bindings[h[k]] /\ TierOf(bindings[h[k]]) \cap ts # {}
  BY <1>1 DEF Arranges
<1>9. \A k \in 1..n : r[k] = bindings[g[k]] /\ TierOf(bindings[g[k]]) \cap us # {}
  BY <1>1 DEF Arranges
<1>10. ASSUME NEW k \in 1..(m + n)
       PROVE  (s \o r)[k] = bindings[p[k]] /\ TierOf(bindings[p[k]]) \cap (ts \cup us) # {}
  <2>1. CASE k \in 1..m
    BY <1>2, <1>3, <1>8, <2>1, ZenonT(40)
  <2>2. CASE \E l \in 1..n : k = l + m
    <3>1. PICK l \in 1..n : k = l + m
      BY <2>2
    <3>2. QED
      BY <1>2, <1>3, <1>9, <3>1, ZenonT(40)
  <2>3. QED
    BY <1>4, <2>1, <2>2
<1>11. ASSUME NEW k \in 1..(m + n), NEW l \in 1..(m + n), k < l
       PROVE  Precedes(p[k], p[l])
  <2>1. CASE k \in 1..m /\ l \in 1..m
    BY <1>1, <1>3, <1>11, <2>1 DEF Arranges
  <2>2. CASE k \in 1..m /\ l \notin 1..m
    <3>1. PICK j \in 1..n : l = j + m
      BY <1>4, <2>2
    <3>2. QED
      BY <1>3, <1>5, <1>8, <1>9, <2>2, <3>1
  <2>3. CASE k \notin 1..m
    <3>1. PICK i \in 1..n : k = i + m
      BY <1>4, <2>3
    <3>2. l \notin 1..m
      BY <1>1, <1>11, <3>1
    <3>3. PICK j \in 1..n : l = j + m
      BY <1>4, <3>2
    <3>4. i < j
      BY <1>1, <1>11, <3>1, <3>3
    <3>5. Precedes(g[i], g[j])
      BY <1>1, <3>4 DEF Arranges
    <3>6. p[k] = g[i] /\ p[l] = g[j]
      BY <1>3, <3>1, <3>3
    <3>7. QED
      BY <3>5, <3>6
  <2>4. QED
    BY <2>1, <2>2, <2>3
<1>12. ASSUME NEW i \in DOMAIN bindings, TierOf(bindings[i]) \cap (ts \cup us) # {}
       PROVE  \E k \in 1..(m + n) : p[k] = i
  <2>1. CASE TierOf(bindings[i]) \cap ts # {}
    <3>1. PICK k \in 1..m : h[k] = i
      BY <1>1, <2>1 DEF Arranges
    <3>2. QED
      BY <1>3, <3>1
  <2>2. CASE TierOf(bindings[i]) \cap us # {}
    <3>1. PICK k \in 1..n : g[k] = i
      BY <1>1, <2>2 DEF Arranges
    <3>2. QED
      BY <1>3, <3>1
  <2>3. QED
    BY <1>12, <2>1, <2>2
<1>13. Arranges(s \o r, ts \cup us, p)
  BY <1>2, <1>7, <1>10, <1>11, <1>12 DEF Arranges
<1>14. QED
  BY <1>13

\* Every binding of a tier read, sorted and joined: the most specific first.
LEMMA SortWhence == ASSUME DInv, Sort PROVE DInv'
<1>1. PICK f \in [Tiers -> UNION {StableOrders(tiers[t]) : t \in Tiers}] :
        LET sorted(t) == [i \in DOMAIN tiers[t] |-> tiers[t][f[t][i]]] IN
        /\ \A t \in Tiers : f[t] \in StableOrders(tiers[t])
        /\ ordered' = sorted("agent") \o sorted("group") \o sorted("owner_wide")
  BY DEF Sort
<1> DEFINE sorted(t) == [i \in DOMAIN tiers[t] |-> tiers[t][f[t][i]]]
<1>2. ordered' = sorted("agent") \o sorted("group") \o sorted("owner_wide")
  BY <1>1
<1>3. /\ pc = "collect" /\ next > Len(bindings) /\ next' = 1
      /\ UNCHANGED <<bindings, layers, merged>>
      /\ \/ pc' = "load" /\ answer' = answer
         \/ pc' = "done" /\ answer'.code = "NO_POLICY"
  <2>1. CASE ordered' = << >>
    <3>1. Refuse("NO_POLICY")
      BY <2>1 DEF Sort
    <3>2. QED
      BY <3>1, ZenonT(40) DEF Refuse, Unanswered, Sort
  <2>2. CASE ordered' # << >>
    BY <2>2 DEF Sort
  <2>3. QED
    BY <2>1, <2>2
<1>4. bindings \in Seq(Binding) /\ tiers \in [Tiers -> Seq(Binding)] /\ next \in Nat
  BY InputTyped DEF DInv, IInv, TypeOK
<1>5. next - 1 = Len(bindings)
  BY <1>3, <1>4 DEF DInv, TiersRead
<1>6. ASSUME NEW t \in Tiers PROVE \E place : Arranges(sorted(t), {t}, place)
  <2>1. PICK g : ReadsTier(t, Len(bindings), g)
    BY <1>3, <1>5 DEF DInv, TiersRead
  <2>2. tiers[t] \in Seq(Binding) /\ f[t] \in StableOrders(tiers[t])
    BY <1>1, <1>4
  <2>3. QED
    BY <1>4, <2>1, <2>2, SortTier
<1>7. PICK a, s, h : a = sorted("agent") /\ s = sorted("group") /\ h = sorted("owner_wide")
  OBVIOUS
<1>8. PICK p, q, r : /\ Arranges(a, {"agent"}, p) /\ Arranges(s, {"group"}, q)
                     /\ Arranges(h, {"owner_wide"}, r)
  BY <1>6, <1>7 DEF Tiers
<1> HIDE DEF sorted
<1>9. \A b : /\ "agent" \in TierOf(b) => Breadth(b) = 1
             /\ "group" \in TierOf(b) => Breadth(b) = 2
             /\ "owner_wide" \in TierOf(b) => Breadth(b) = 3
  <2> TAKE b
  <2>1. None # Self
    BY SelfAssumption, NoneAssumption DEF SelfAssumption, NoneAssumption
  <2>2. QED
    BY <2>1, TierFact, BreadthFact DEF InGroup
<1>10. \E place : Arranges(a \o s, {"agent"} \cup {"group"}, place)
  <2>1. \A i, j \in DOMAIN bindings :
           TierOf(bindings[i]) \cap {"agent"} # {} /\ TierOf(bindings[j]) \cap {"group"} # {}
              => Precedes(i, j)
    <3> TAKE i, j \in DOMAIN bindings
    <3>1. QED
      BY <1>9 DEF Precedes
  <2>2. QED
    BY <1>8, <2>1, JoinTiers
<1>11. \E place : Arranges(ordered', Tiers, place)
  <2>1. PICK place : Arranges(a \o s, {"agent"} \cup {"group"}, place)
    BY <1>10
  <2>2. \A i, j \in DOMAIN bindings :
           TierOf(bindings[i]) \cap ({"agent"} \cup {"group"}) # {}
           /\ TierOf(bindings[j]) \cap {"owner_wide"} # {}
              => Precedes(i, j)
    <3> SUFFICES ASSUME NEW i \in DOMAIN bindings, NEW j \in DOMAIN bindings,
                        TierOf(bindings[i]) \cap ({"agent"} \cup {"group"}) # {},
                        TierOf(bindings[j]) \cap {"owner_wide"} # {}
                 PROVE  Precedes(i, j)
      OBVIOUS
    <3>1. "agent" \in TierOf(bindings[i]) \/ "group" \in TierOf(bindings[i])
      OBVIOUS
    <3>2. Breadth(bindings[i]) \in {1, 2} /\ Breadth(bindings[j]) = 3
      BY <1>9, <3>1
    <3>3. QED
      BY <3>2 DEF Precedes
  <2>3. \E w : Arranges((a \o s) \o h, ({"agent"} \cup {"group"}) \cup {"owner_wide"}, w)
    BY <1>8, <2>1, <2>2, JoinTiers
  <2>4. ({"agent"} \cup {"group"}) \cup {"owner_wide"} = Tiers
    BY DEF Tiers
  <2>5. (a \o s) \o h = ordered'
    BY <1>2, <1>7
  <2>6. QED
    BY <2>3, <2>4, <2>5
<1>12. \E place : Arranges(ordered, Tiers, place)'
  <2>1. PICK place : Arranges(ordered', Tiers, place)
    BY <1>11
  <2>2. Arranges(ordered, Tiers, place)'
    BY <1>3, <2>1 DEF Arranges, Precedes
  <2>3. QED
    BY <2>2
<1>13. pc' = "load" => \E from : LoadsFrom(next - 1, from)'
  <2>1. layers' = << >> /\ next' - 1 = 0
    BY <1>3 DEF DInv, LayersLoaded
  <2>2. DOMAIN layers' = {} /\ 1..0 = {} /\ << >> \in [DOMAIN layers' -> 1..0]
    BY <2>1
  <2>3. LoadsFrom(next - 1, << >>)'
    BY <2>1, <2>2 DEF LoadsFrom
  <2>4. QED
    BY <2>3
<1>14. IInv'
  BY SortStep DEF DInv
<1>15. LayersLoaded'
  <2>1. next' <= Len(ordered') + 1
    <3>1. Len(ordered') \in Nat
      BY <1>14 DEF IInv, TypeOK
    <3>2. QED
      BY <1>3, <3>1
  <2>2. QED
    BY <1>3, <1>12, <1>13, <2>1 DEF LayersLoaded
<1>16. TiersRead' /\ LayersOrdered' /\ LayersMerged' /\ TraceTrue'
  BY <1>3 DEF DInv, TiersRead, LayersOrdered, LayersMerged, TraceTrue
<1>17. DecidedBySpecificity'
  BY <1>3 DEF DecidedBySpecificity, Answered
<1>18. QED
  BY <1>14, <1>15, <1>16, <1>17 DEF DInv

\* The policy of a binding is loaded, or the binding skipped.
LEMMA LoadWhence == ASSUME DInv, Load PROVE DInv'
<1>0. PICK n, p : n = next /\ p = ordered[next].policy
  OBVIOUS
<1>1. /\ pc = "load" /\ pc' = "load" /\ n <= Len(ordered) /\ next' = n + 1
      /\ layers' = IF p = None THEN layers ELSE Append(layers, p)
      /\ UNCHANGED <<bindings, ordered, merged, answer>>
  BY <1>0 DEF Load
<1>2. n \in Nat \ {0} /\ ordered \in Seq(Binding) /\ layers \in Seq(Policy)
  BY <1>0 DEF DInv, IInv, TypeOK
<1>3. \E place : Arranges(ordered, Tiers, place)'
  <2>1. PICK place : Arranges(ordered, Tiers, place)
    BY <1>1 DEF DInv, LayersLoaded
  <2>2. Arranges(ordered, Tiers, place)'
    BY <1>1, <2>1 DEF Arranges, Precedes
  <2>3. QED
    BY <2>2
<1>4. PICK from : LoadsFrom(n - 1, from)
  BY <1>0, <1>1 DEF DInv, LayersLoaded
<1>5. /\ from \in [DOMAIN layers -> 1..(n - 1)]
      /\ \A k \in DOMAIN layers : /\ layers[k] = ordered[from[k]].policy
                                  /\ ordered[from[k]].policy # None
      /\ \A k, l \in DOMAIN layers : k < l => from[k] < from[l]
      /\ \A j \in 1..(n - 1) :
            ordered[j].policy # None => \E k \in DOMAIN layers : from[k] = j
  BY <1>4 DEF LoadsFrom
<1>6. \A j \in 1..n : j = n \/ j \in 1..(n - 1)
  BY <1>2
<1>7. \E w : LoadsFrom(n, w)'
  <2>1. CASE p = None
    <3>1. layers' = layers
      BY <1>1, <2>1
    <3>2. from \in [DOMAIN layers -> 1..n]
      BY <1>2, <1>5
    <3>3. \A j \in 1..n : ordered[j].policy # None => \E k \in DOMAIN layers : from[k] = j
      BY <1>0, <1>5, <1>6, <2>1
    <3>4. LoadsFrom(n, from)'
      BY <1>1, <1>5, <3>1, <3>2, <3>3 DEF LoadsFrom
    <3>5. QED
      BY <3>4
  <2>2. CASE p # None
    <3>0. PICK m, h : /\ m = Len(layers)
                      /\ h = [k \in 1..(m + 1) |-> IF k = m + 1 THEN n ELSE from[k]]
      OBVIOUS
    <3>1. layers' = Append(layers, p)
      BY <1>1, <2>2
    <3>2. m \in Nat /\ DOMAIN layers = 1..m /\ DOMAIN layers' = 1..(m + 1)
      BY <1>2, <3>0, <3>1
    <3>3. /\ \A k \in 1..m : layers'[k] = layers[k] /\ h[k] = from[k]
          /\ layers'[m + 1] = p /\ h[m + 1] = n
      BY <1>2, <3>0, <3>1, <3>2
    <3>4. h \in [1..(m + 1) -> 1..n]
      BY <1>2, <1>5, <3>0, <3>2
    <3>5. \A k \in 1..(m + 1) : k \in 1..m \/ k = m + 1
      BY <3>2
    <3>6. \A k \in 1..m : h[k] < n
      BY <1>2, <1>5, <3>2, <3>3
    <3>7. ASSUME NEW k \in 1..(m + 1)
          PROVE  layers'[k] = ordered[h[k]].policy /\ ordered[h[k]].policy # None
      <4>1. CASE k \in 1..m
        BY <1>5, <3>2, <3>3, <4>1
      <4>2. CASE k = m + 1
        BY <1>0, <2>2, <3>3, <4>2
      <4>3. QED
        BY <3>5, <4>1, <4>2
    <3>8. ASSUME NEW k \in 1..(m + 1), NEW l \in 1..(m + 1), k < l PROVE h[k] < h[l]
      <4>1. k \in 1..m
        BY <3>2, <3>8
      <4>2. CASE l \in 1..m
        BY <1>5, <3>2, <3>3, <3>8, <4>1, <4>2
      <4>3. CASE l = m + 1
        BY <3>3, <3>6, <4>1, <4>3
      <4>4. QED
        BY <3>5, <4>2, <4>3
    <3>9. ASSUME NEW j \in 1..n, ordered[j].policy # None
          PROVE  \E k \in 1..(m + 1) : h[k] = j
      <4>1. CASE j = n
        BY <3>2, <3>3, <4>1
      <4>2. CASE j \in 1..(n - 1)
        <5>1. PICK k \in 1..m : from[k] = j
          BY <1>5, <3>2, <3>9, <4>2
        <5>2. QED
          BY <3>2, <3>3, <5>1
      <4>3. QED
        BY <1>6, <4>1, <4>2
    <3>10. LoadsFrom(n, h)'
      BY <1>1, <3>2, <3>4, <3>7, <3>8, <3>9 DEF LoadsFrom
    <3>11. QED
      BY <3>10
  <2>3. QED
    BY <2>1, <2>2
<1>8. next' - 1 = n /\ next' <= Len(ordered') + 1
  BY <1>1, <1>2
<1>9. \E w : LoadsFrom(next - 1, w)'
  <2>1. PICK w : LoadsFrom(n, w)'
    BY <1>7
  <2>2. LoadsFrom(next - 1, w)'
    BY <1>8, <2>1 DEF LoadsFrom
  <2>3. QED
    BY <2>2
<1>10. LayersLoaded'
  BY <1>1, <1>3, <1>8, <1>9 DEF LayersLoaded
<1>11. TiersRead' /\ LayersOrdered' /\ LayersMerged' /\ TraceTrue' /\ DecidedBySpecificity'
  BY <1>1 DEF DInv, TiersRead, LayersOrdered, LayersMerged, TraceTrue,
              DecidedBySpecificity, Answered
<1>12. QED
  BY <1>10, <1>11, LoadStep DEF DInv

\* The bindings that have a say are those of a tier whose policy has an entry.
LEMMA ConsultedFact ==
    ASSUME NEW i \in DOMAIN bindings
    PROVE  i \in Consulted <=> /\ TierOf(bindings[i]) \cap Tiers # {}
                               /\ bindings[i].policy # None
<1>1. TierOf(bindings[i]) \cap Tiers # {}
        <=> \/ "agent" \in TierOf(bindings[i]) \/ "group" \in TierOf(bindings[i])
            \/ "owner_wide" \in TierOf(bindings[i])
  BY DEF Tiers
<1>2. QED
  BY <1>1, TierFact DEF Consulted

\* What was loaded is the policies of the consulted bindings, in order.
LEMMA LayersFound ==
    ASSUME NEW place, Arranges(ordered, Tiers, place),
           NEW from, LoadsFrom(Len(ordered), from), bindings \in Seq(Binding)
    PROVE  \E source : Layers(source)
<1>0. PICK D, n, h : /\ D = DOMAIN layers /\ n = Len(ordered)
                     /\ h = [k \in D |-> place[from[k]]]
  OBVIOUS
<1>1. /\ ordered \in Seq(Binding) /\ n \in Nat /\ DOMAIN ordered = 1..n
      /\ place \in [1..n -> DOMAIN bindings]
      /\ \A k \in 1..n : /\ ordered[k] = bindings[place[k]]
                         /\ TierOf(bindings[place[k]]) \cap Tiers # {}
      /\ \A k, l \in 1..n : k < l => Precedes(place[k], place[l])
      /\ \A i \in DOMAIN bindings :
            TierOf(bindings[i]) \cap Tiers # {} => \E k \in 1..n : place[k] = i
  <2>1. ordered \in Seq(Binding) /\ n \in Nat /\ DOMAIN ordered = 1..n
    BY <1>0 DEF Arranges
  <2>2. QED
    BY <2>1 DEF Arranges
<1>2. /\ from \in [D -> 1..n]
      /\ \A k \in D : /\ layers[k] = ordered[from[k]].policy
                      /\ ordered[from[k]].policy # None
      /\ \A k, l \in D : k < l => from[k] < from[l]
      /\ \A j \in 1..n : ordered[j].policy # None => \E k \in D : from[k] = j
  BY <1>0 DEF LoadsFrom
<1>3. \A k \in D : h[k] = place[from[k]] /\ from[k] \in 1..n
  BY <1>0, <1>2
<1>4. \A k \in D : h[k] \in DOMAIN bindings /\ bindings[h[k]] = ordered[from[k]]
  BY <1>1, <1>3
<1>5. \A k \in D : h[k] \in Consulted
  <2> TAKE k \in D
  <2>1. TierOf(bindings[h[k]]) \cap Tiers # {} /\ bindings[h[k]].policy # None
    BY <1>1, <1>2, <1>3, <1>4
  <2>2. QED
    BY <1>4, <2>1, ConsultedFact
<1>6. \A k \in D : layers[k] = bindings[h[k]].policy
  BY <1>2, <1>4
<1>7. \A k, l \in D : k < l => Precedes(h[k], h[l])
  BY <1>1, <1>2, <1>3
<1>8. ASSUME NEW i \in Consulted PROVE \E k \in D : h[k] = i
  <2>1. i \in DOMAIN bindings
    BY DEF Consulted
  <2>2. TierOf(bindings[i]) \cap Tiers # {} /\ bindings[i].policy # None
    BY <2>1, ConsultedFact
  <2>3. PICK j \in 1..n : place[j] = i
    BY <1>1, <2>1, <2>2
  <2>4. ordered[j].policy # None
    BY <1>1, <2>2, <2>3
  <2>5. PICK k \in D : from[k] = j
    BY <1>2, <2>4
  <2>6. QED
    BY <1>3, <2>3, <2>5
<1>9. Layers(h)
  BY <1>0, <1>5, <1>6, <1>7, <1>8 DEF Layers
<1>10. QED
  BY <1>9

\* All bindings have been tried, and merging begins.
LEMMA LoadedWhence == ASSUME DInv, Loaded PROVE DInv'
<1>1. /\ pc = "load" /\ next > Len(ordered) /\ next' = 1
      /\ UNCHANGED <<bindings, ordered, layers, merged>>
      /\ \/ pc' = "merge" /\ answer' = answer
         \/ pc' = "done" /\ answer'.code = "POLICY_NOT_FOUND"
  <2>1. CASE layers = << >>
    <3>1. Refuse("POLICY_NOT_FOUND")
      BY <2>1 DEF Loaded
    <3>2. QED
      BY <3>1 DEF Refuse, Unanswered, Loaded
  <2>2. CASE layers # << >>
    BY <2>2 DEF Loaded
  <2>3. QED
    BY <2>1, <2>2
<1>2. /\ bindings \in Seq(Binding) /\ next \in Nat
      /\ ordered \in Seq(Binding) /\ layers \in Seq(Policy)
  BY InputTyped DEF DInv, IInv, TypeOK
<1>3. next - 1 = Len(ordered)
  BY <1>1, <1>2 DEF DInv, LayersLoaded
<1>4. PICK source : Layers(source)
  <2>1. PICK place, from : Arranges(ordered, Tiers, place) /\ LoadsFrom(Len(ordered), from)
    BY <1>1, <1>3 DEF DInv, LayersLoaded
  <2>2. QED
    BY <1>2, <2>1, LayersFound
<1>5. Layers(source)'
  BY <1>1, <1>4 DEF Layers, Precedes, Consulted, InGroup
<1>6. LayersOrdered'
  BY <1>5 DEF LayersOrdered
<1>7. merged' = [default |-> "deny", rules |-> << >>] /\ next' - 1 = 0
  BY <1>1 DEF DInv, LayersMerged
<1>8. DefaultFrom(next - 1)' /\ MergesFrom(next - 1, << >>, << >>)'
  <2>1. merged'.default = "deny" /\ DOMAIN merged'.rules = {} /\ 1..(next' - 1) = {}
    BY <1>7
  <2>2. DefaultFrom(next - 1)'
    BY <2>1 DEF DefaultFrom
  <2>3. MergesFrom(next - 1, << >>, << >>)'
    BY <2>1 DEF MergesFrom
  <2>4. QED
    BY <2>2, <2>3
<1>9. LayersMerged'
  <2>1. \E lay, at : MergesFrom(next - 1, lay, at)'
    BY <1>8
  <2>2. next' <= Len(layers') + 1
    BY <1>1, <1>2
  <2>3. QED
    BY <1>1, <1>8, <2>1, <2>2 DEF LayersMerged
<1>10. TiersRead' /\ LayersLoaded' /\ TraceTrue' /\ DecidedBySpecificity'
  BY <1>1 DEF DInv, TiersRead, LayersLoaded, TraceTrue, DecidedBySpecificity, Answered
<1>11. QED
  BY <1>6, <1>9, <1>10, LoadedStep DEF DInv

\* The rules of a layer are appended to the merged rules.
LEMMA MergeRules ==
    ASSUME DInv, Merge, NEW n, n = next,
           NEW lay, NEW at, MergesFrom(n - 1, lay, at)
    PROVE  \E lay2, at2 : MergesFrom(n, lay2, at2)'
<1>0. PICK m, q, r, s, u, v :
        /\ r = merged.rules /\ s = layers[n].rules /\ m = Len(r) /\ q = Len(s)
        /\ u = [p \in 1..(m + q) |-> IF p <= m THEN lay[p] ELSE n]
        /\ v = [p \in 1..(m + q) |-> IF p <= m THEN at[p] ELSE p - m]
  OBVIOUS
<1>1. n \in Nat \ {0} /\ layers \in Seq(Policy) /\ merged \in Policy
  BY DEF DInv, IInv, TypeOK
<1>2. n \in DOMAIN layers /\ merged'.rules = r \o s /\ layers' = layers
  <2>1. n <= Len(layers) /\ layers' = layers
    BY DEF Merge
  <2>2. merged' = [default |-> DefaultAfter(n), rules |-> r \o s]
    BY <1>0 DEF Merge
  <2>3. QED
    BY <1>1, <2>1, <2>2
<1>3. layers[n] \in Policy
  BY <1>1, <1>2
<1>4. /\ r \in Seq(Rule) /\ s \in Seq(Rule)
  BY <1>0, <1>1, <1>3 DEF Policy
<1>5. m \in Nat /\ q \in Nat /\ DOMAIN r = 1..m /\ DOMAIN s = 1..q
  BY <1>0, <1>4
<1>6. /\ DOMAIN (r \o s) = 1..(m + q)
      /\ \A k \in 1..m : (r \o s)[k] = r[k]
      /\ \A k \in 1..q : (r \o s)[k + m] = s[k]
  <2>1. m = Len(r) /\ q = Len(s)
    BY <1>0
  <2>2. QED
    BY <1>4, <1>5, <2>1
<1>7. /\ \A k \in 1..m : k \in 1..(m + q) /\ u[k] = lay[k] /\ v[k] = at[k]
      /\ \A k \in 1..q : k + m \in 1..(m + q) /\ u[k + m] = n /\ v[k + m] = k
  <2>1. /\ \A k \in 1..(m + q) : u[k] = IF k <= m THEN lay[k] ELSE n
        /\ \A k \in 1..(m + q) : v[k] = IF k <= m THEN at[k] ELSE k - m
    BY <1>0
  <2>2. \A k \in 1..m : k \in 1..(m + q) /\ k <= m
    BY <1>5
  <2>3. \A k \in 1..q : k + m \in 1..(m + q) /\ ~(k + m <= m) /\ (k + m) - m = k
    BY <1>5
  <2>4. QED
    BY <2>1, <2>2, <2>3
<1>8. \A k \in 1..(m + q) : k \in 1..m \/ \E l \in 1..q : k = l + m
  <2> TAKE k \in 1..(m + q)
  <2>1. CASE k <= m
    BY <1>5, <2>1
  <2>2. CASE k > m
    <3>1. k - m \in 1..q /\ k = (k - m) + m
      BY <1>5, <2>2
    <3>2. QED
      BY <3>1
  <2>3. QED
    BY <1>5, <2>1, <2>2
<1>9. /\ \A p \in 1..m : /\ lay[p] \in 1..(n - 1) /\ at[p] \in DOMAIN layers[lay[p]].rules
                        /\ r[p] = layers[lay[p]].rules[at[p]]
      /\ \A p, o \in 1..m : p < o => \/ lay[p] < lay[o]
                                     \/ lay[p] = lay[o] /\ at[p] < at[o]
      /\ \A j \in 1..(n - 1) : \A k \in DOMAIN layers[j].rules :
            \E p \in 1..m : lay[p] = j /\ at[p] = k
  BY <1>0, <1>5 DEF MergesFrom
<1>10. ASSUME NEW p \in 1..(m + q)
       PROVE  /\ u[p] \in 1..n /\ v[p] \in DOMAIN layers[u[p]].rules
              /\ (r \o s)[p] = layers[u[p]].rules[v[p]]
  <2>1. CASE p \in 1..m
    <3>1. lay[p] \in 1..n
      BY <1>1, <1>9, <2>1
    <3>2. QED
      BY <1>6, <1>7, <1>9, <2>1, <3>1
  <2>2. CASE \E l \in 1..q : p = l + m
    <3>1. PICK l \in 1..q : p = l + m
      BY <2>2
    <3>2. u[p] = n /\ v[p] = l /\ (r \o s)[p] = s[l]
      BY <1>6, <1>7, <3>1
    <3>3. QED
      BY <1>0, <1>1, <1>5, <3>2, SMTT(60)
  <2>3. QED
    BY <1>8, <2>1, <2>2
<1>11. ASSUME NEW p \in 1..(m + q), NEW o \in 1..(m + q), p < o
       PROVE  \/ u[p] < u[o]
              \/ u[p] = u[o] /\ v[p] < v[o]
  <2>1. CASE p \in 1..m /\ o \in 1..m
    BY <1>7, <1>9, <1>11, <2>1
  <2>2. CASE p \in 1..m /\ o \notin 1..m
    <3>1. PICK l \in 1..q : o = l + m
      BY <1>8, <2>2
    <3>2. u[p] \in 1..(n - 1) /\ u[o] = n
      BY <1>7, <1>9, <2>2, <3>1
    <3>3. QED
      BY <1>1, <3>2
  <2>3. CASE p \notin 1..m
    <3>1. PICK k \in 1..q : p = k + m
      BY <1>8, <2>3
    <3>2. o \notin 1..m
      BY <1>5, <1>11, <3>1
    <3>3. PICK l \in 1..q : o = l + m
      BY <1>8, <3>2
    <3>4. k < l
      BY <1>5, <1>11, <3>1, <3>3
    <3>5. u[p] = n /\ u[o] = n /\ v[p] = k /\ v[o] = l
      BY <1>7, <3>1, <3>3
    <3>6. QED
      BY <3>4, <3>5
  <2>4. QED
    BY <2>1, <2>2, <2>3
<1>12. ASSUME NEW j \in 1..n, NEW k \in DOMAIN layers[j].rules
       PROVE  \E p \in 1..(m + q) : u[p] = j /\ v[p] = k
  <2>1. CASE j = n
    <3>1. k \in 1..q
      BY <1>0, <1>5, <1>12, <2>1
    <3>2. QED
      BY <1>7, <2>1, <3>1
  <2>2. CASE j # n
    <3>1. j \in 1..(n - 1)
      BY <1>1, <2>2
    <3>2. PICK p \in 1..m : lay[p] = j /\ at[p] = k
      BY <1>9, <3>1
    <3>3. QED
      BY <1>7, <3>2
  <2>3. QED
    BY <2>1, <2>2
<1>13. MergesFrom(n, u, v)'
  <2>1. DOMAIN merged'.rules = 1..(m + q)
    BY <1>2, <1>6
  <2>2. \A p \in 1..(m + q) : /\ u[p] \in 1..n /\ v[p] \in DOMAIN layers'[u[p]].rules
                              /\ merged'.rules[p] = layers'[u[p]].rules[v[p]]
    BY <1>2, <1>10
  <2>3. \A j \in 1..n : \A k \in DOMAIN layers'[j].rules :
           \E p \in 1..(m + q) : u[p] = j /\ v[p] = k
    BY <1>2, <1>12
  <2>4. QED
    BY <2>1, <2>2, <2>3, <1>11 DEF MergesFrom
<1>14. QED
  BY <1>13

\* The default of a layer counts if no layer before it has one.
LEMMA MergeDefault ==
    ASSUME DInv, Merge, NEW n, n = next, DefaultFrom(n - 1)
    PROVE  DefaultFrom(n)'
<1>1. n \in Nat \ {0}
  BY DEF DInv, IInv, TypeOK
<1>2. merged'.default = DefaultAfter(n) /\ layers' = layers
  BY DEF Merge
<1>3. \A j \in 1..n : j = n \/ j \in 1..(n - 1)
  BY <1>1
<1>4. CASE Decided(layers[n]) /\ \A j \in 1..(n - 1) : ~Decided(layers[j])
  <2>1. n \in 1..n /\ merged'.default = layers[n].default
    BY <1>1, <1>2, <1>4 DEF DefaultAfter
  <2>2. QED
    BY <1>2, <1>4, <2>1 DEF DefaultFrom
<1>5. CASE ~Decided(layers[n]) /\ \A j \in 1..(n - 1) : ~Decided(layers[j])
  <2>1. merged'.default = merged.default /\ merged.default = "deny"
    BY <1>2, <1>5 DEF DefaultAfter, DefaultFrom
  <2>2. \A j \in 1..n : ~Decided(layers[j])
    BY <1>3, <1>5
  <2>3. QED
    BY <1>2, <2>1, <2>2 DEF DefaultFrom
<1>6. CASE \E j \in 1..(n - 1) : Decided(layers[j])
  <2>1. PICK j \in 1..(n - 1) : /\ Decided(layers[j]) /\ merged.default = layers[j].default
                               /\ \A m \in 1..(j - 1) : ~Decided(layers[m])
    BY <1>6 DEF DefaultFrom
  <2>2. merged'.default = merged.default /\ j \in 1..n
    BY <1>1, <1>2, <1>6 DEF DefaultAfter
  <2>3. QED
    BY <1>2, <2>1, <2>2 DEF DefaultFrom
<1>7. QED
  BY <1>4, <1>5, <1>6

LEMMA MergeWhence == ASSUME DInv, Merge PROVE DInv'
<1>0. PICK n : n = next
  OBVIOUS
<1>1. /\ pc = "merge" /\ pc' = "merge" /\ n <= Len(layers) /\ next' = n + 1
      /\ UNCHANGED <<bindings, layers, answer>>
  BY <1>0 DEF Merge
<1>2. n \in Nat \ {0} /\ layers \in Seq(Policy)
  BY <1>0 DEF DInv, IInv, TypeOK
<1>3. PICK source : Layers(source)
  BY <1>1 DEF DInv, LayersOrdered
<1>4. Layers(source)'
  BY <1>1, <1>3 DEF Layers, Precedes, Consulted, InGroup
<1>5. LayersOrdered'
  BY <1>4 DEF LayersOrdered
<1>6. PICK lay, at : MergesFrom(n - 1, lay, at)
  BY <1>0, <1>1 DEF DInv, LayersMerged
<1>7. \E lay2, at2 : MergesFrom(n, lay2, at2)'
  BY <1>0, <1>6, MergeRules
<1>8. DefaultFrom(n)'
  BY <1>0, <1>1, MergeDefault DEF DInv, LayersMerged
<1>9. next' - 1 = n /\ next' <= Len(layers') + 1
  BY <1>1, <1>2
<1>10. DefaultFrom(next - 1)' /\ \E lay2, at2 : MergesFrom(next - 1, lay2, at2)'
  <2>1. PICK lay2, at2 : MergesFrom(n, lay2, at2)'
    BY <1>7
  <2>2. MergesFrom(next - 1, lay2, at2)'
    BY <1>9, <2>1 DEF MergesFrom
  <2>3. DefaultFrom(next - 1)'
    BY <1>8, <1>9 DEF DefaultFrom
  <2>4. QED
    BY <2>2, <2>3
<1>11. LayersMerged'
  BY <1>1, <1>9, <1>10 DEF LayersMerged
<1>12. TiersRead' /\ LayersLoaded' /\ TraceTrue' /\ DecidedBySpecificity'
  BY <1>1 DEF DInv, TiersRead, LayersLoaded, TraceTrue, DecidedBySpecificity, Answered
<1>13. QED
  BY <1>5, <1>11, <1>12, MergeStep DEF DInv

\* All layers are merged, and no rule has been tried.
LEMMA MergedWhence == ASSUME DInv, Merged PROVE DInv'
<1>1. /\ pc = "merge" /\ pc' = "try" /\ next > Len(layers)
      /\ UNCHANGED <<bindings, layers, merged, trace, answer>>
  BY DEF Merged
<1>2. next \in Nat /\ layers \in Seq(Policy)
  BY DEF DInv, IInv, TypeOK
<1>3. next - 1 = Len(layers)
  BY <1>1, <1>2 DEF DInv, LayersMerged
<1>4. PICK source : Layers(source)
  BY <1>1 DEF DInv, LayersOrdered
<1>5. Layers(source)'
  BY <1>1, <1>4 DEF Layers, Precedes, Consulted, InGroup
<1>6. LayersOrdered'
  BY <1>5 DEF LayersOrdered
<1>7. PICK lay, at : MergesFrom(Len(layers), lay, at)
  BY <1>1, <1>3 DEF DInv, LayersMerged
<1>8. MergesFrom(Len(layers), lay, at)'
  BY <1>1, <1>7 DEF MergesFrom
<1>9. DefaultFrom(Len(layers))'
  BY <1>1, <1>3 DEF DInv, LayersMerged, DefaultFrom
<1>10. LayersMerged'
  BY <1>1, <1>8, <1>9 DEF LayersMerged
<1>11. TraceTrue'
  BY <1>1 DEF DInv, IInv, TraceSoFar, TraceTrue
<1>12. TiersRead' /\ LayersLoaded' /\ DecidedBySpecificity'
  BY <1>1 DEF TiersRead, LayersLoaded, DecidedBySpecificity, Answered
<1>13. QED
  BY <1>6, <1>10, <1>11, <1>12, MergedStep DEF DInv

\* A rule is tried, and the trace says what it is worth.
LEMMA TryWhence == ASSUME DInv, Try PROVE DInv'
<1>0. PICK n : n = next
  OBVIOUS
<1>1. /\ pc = "try" /\ pc' = "try" /\ trace' = Append(trace, Holds(merged.rules[n]))
      /\ UNCHANGED <<bindings, layers, merged, answer>>
  BY <1>0 DEF Try
<1>2. /\ trace \in Seq(BOOLEAN) /\ n \in Nat \ {0} /\ Len(trace) = n - 1
  BY <1>0, <1>1 DEF DInv, IInv, TypeOK, TraceSoFar
<1>3. PICK source : Layers(source)
  BY <1>1 DEF DInv, LayersOrdered
<1>4. Layers(source)'
  BY <1>1, <1>3 DEF Layers, Precedes, Consulted, InGroup
<1>5. LayersOrdered'
  BY <1>4 DEF LayersOrdered
<1>6. PICK lay, at : MergesFrom(Len(layers), lay, at)
  BY <1>1 DEF DInv, LayersMerged
<1>7. MergesFrom(Len(layers), lay, at)'
  BY <1>1, <1>6 DEF MergesFrom
<1>8. DefaultFrom(Len(layers))'
  BY <1>1 DEF DInv, LayersMerged, DefaultFrom
<1>9. LayersMerged'
  BY <1>1, <1>7, <1>8 DEF LayersMerged
<1>10. \A i \in DOMAIN trace' : trace'[i] = Holds(merged.rules[i])
  <2>1. /\ DOMAIN trace = 1..(n - 1) /\ DOMAIN trace' = 1..n
        /\ \A i \in 1..(n - 1) : trace'[i] = trace[i]
        /\ trace'[n] = Holds(merged.rules[n])
    BY <1>1, <1>2
  <2>2. \A i \in 1..n : i = n \/ i \in 1..(n - 1)
    BY <1>2
  <2>3. \A i \in 1..(n - 1) : trace[i] = Holds(merged.rules[i])
    BY <1>1, <2>1 DEF DInv, TraceTrue
  <2>4. QED
    BY <2>1, <2>2, <2>3
<1>11. TraceTrue'
  BY <1>1, <1>10 DEF TraceTrue
<1>12. TiersRead' /\ LayersLoaded' /\ DecidedBySpecificity'
  BY <1>1 DEF TiersRead, LayersLoaded, DecidedBySpecificity, Answered
<1>13. QED
  BY <1>5, <1>9, <1>11, <1>12, TryStep DEF DInv

-----------------------------------------------------------------------------
(* The answer.  All rules tried, matched is the first that holds, and its      *)
(* place in the merged rules tells the binding and the place in its policy.    *)

Tried == pc = "try" /\ next > Len(merged.rules)

LEMMA AllTried ==
    ASSUME DInv, Tried
    PROVE  /\ matched # 0 => matched \in DOMAIN merged.rules /\ Holds(merged.rules[matched])
           /\ \A p \in DOMAIN merged.rules :
                 Holds(merged.rules[p]) => matched # 0 /\ matched <= p
<1>1. /\ trace \in Seq(BOOLEAN) /\ merged \in Policy /\ next \in Nat /\ matched \in Nat
      /\ Len(trace) = next - 1 /\ next <= Len(merged.rules) + 1
      /\ next > Len(merged.rules)
  BY DEF DInv, IInv, TypeOK, TraceSoFar, Tried
<1>2. merged.rules \in Seq(Rule)
  BY <1>1 DEF Policy
<1>3. Len(trace) = Len(merged.rules)
  BY <1>1, <1>2
<1>4. DOMAIN trace = DOMAIN merged.rules /\ DOMAIN trace = 1..Len(trace) /\ Len(trace) \in Nat
  BY <1>1, <1>2, <1>3
<1>5. \A i \in DOMAIN trace : trace[i] = Holds(merged.rules[i])
  BY DEF DInv, TraceTrue, Tried
<1>6. /\ matched # 0 => /\ matched \in DOMAIN trace /\ trace[matched]
                        /\ \A i \in 1..(matched - 1) : ~trace[i]
      /\ matched = 0 => \A i \in DOMAIN trace : ~trace[i]
  BY DEF DInv, IInv, TraceSoFar
<1>7. ASSUME NEW p \in DOMAIN merged.rules, Holds(merged.rules[p])
      PROVE  matched # 0 /\ matched <= p
  <2>1. trace[p]
    BY <1>4, <1>5, <1>7
  <2>2. matched # 0
    BY <1>4, <1>6, <2>1
  <2>3. p \notin 1..(matched - 1)
    BY <1>6, <2>1, <2>2
  <2>4. QED
    BY <1>1, <1>4, <2>2, <2>3
<1>8. QED
  BY <1>4, <1>5, <1>6, <1>7

\* A rule of a consulted binding is somewhere among the merged rules.
LEMMA RuleMerged ==
    ASSUME NEW source, Layers(source), NEW lay, NEW at,
           MergesFrom(Len(layers), lay, at), layers \in Seq(Policy),
           NEW l \in DOMAIN layers, NEW k \in DOMAIN bindings[source[l]].policy.rules
    PROVE  \E p \in DOMAIN merged.rules :
              /\ lay[p] = l /\ at[p] = k
              /\ merged.rules[p] = bindings[source[l]].policy.rules[k]
<1>1. layers[l] = bindings[source[l]].policy /\ l \in 1..Len(layers)
  BY DEF Layers
<1>2. PICK p \in DOMAIN merged.rules : lay[p] = l /\ at[p] = k
  BY <1>1 DEF MergesFrom
<1>3. merged.rules[p] = layers[lay[p]].rules[at[p]]
  BY DEF MergesFrom
<1>4. QED
  BY <1>1, <1>2, <1>3

LEMMA MatchedIsNarrowest ==
    ASSUME DInv, Tried, matched # 0
    PROVE  \E i \in Consulted : \E k \in DOMAIN bindings[i].policy.rules :
              DecidedBy(i, k) /\ bindings[i].policy.rules[k] = merged.rules[matched]
<1>1. PICK source : Layers(source)
  BY DEF DInv, LayersOrdered, Tried
<1>2. PICK lay, at : MergesFrom(Len(layers), lay, at)
  BY DEF DInv, LayersMerged, Tried
<1>3. layers \in Seq(Policy) /\ merged \in Policy
  BY DEF DInv, IInv, TypeOK
<1>4. matched \in DOMAIN merged.rules /\ Holds(merged.rules[matched])
  BY AllTried
<1>5. PICK l, i, k : l = lay[matched] /\ i = source[l] /\ k = at[matched]
  OBVIOUS
<1>6. /\ l \in DOMAIN layers /\ k \in DOMAIN layers[l].rules
      /\ merged.rules[matched] = layers[l].rules[k]
  BY <1>2, <1>3, <1>4, <1>5 DEF MergesFrom
<1>7. /\ i \in Consulted /\ layers[l] = bindings[i].policy
      /\ \A a, b \in DOMAIN layers : a < b => Precedes(source[a], source[b])
      /\ \A j \in Consulted : \E a \in DOMAIN layers : source[a] = j
  BY <1>1, <1>5, <1>6 DEF Layers
<1>8. layers[l] \in Policy
  BY <1>3, <1>6
<1>9. k \in Nat /\ DOMAIN layers \subseteq Nat /\ DOMAIN layers[l].rules \subseteq Nat
      /\ DOMAIN merged.rules \subseteq Nat
  BY <1>3, <1>6, <1>8 DEF Policy
<1>10. ASSUME NEW p \in DOMAIN merged.rules, Holds(merged.rules[p])
       PROVE  \/ p = matched
              \/ l < lay[p]
              \/ l = lay[p] /\ k < at[p]
  <2>1. matched <= p
    BY <1>10, AllTried
  <2>2. CASE matched < p
    BY <1>2, <1>4, <1>5, <2>2 DEF MergesFrom
  <2>3. QED
    BY <1>4, <1>9, <2>1, <2>2
<1>11. ASSUME NEW m \in DOMAIN bindings[i].policy.rules,
              Holds(bindings[i].policy.rules[m])
       PROVE  k <= m
  <2>1. PICK p \in DOMAIN merged.rules :
           /\ lay[p] = l /\ at[p] = m
           /\ merged.rules[p] = bindings[source[l]].policy.rules[m]
    <3>1. m \in DOMAIN bindings[source[l]].policy.rules
      BY <1>5
    <3>2. QED
      BY <1>1, <1>2, <1>3, <1>6, <3>1, RuleMerged
  <2>2. p = matched \/ k < m
    BY <1>5, <1>6, <1>9, <1>10, <1>11, <2>1
  <2>3. QED
    BY <1>5, <1>7, <1>9, <2>1, <2>2
<1>12. ASSUME NEW j \in Consulted \ {i}, NEW m \in DOMAIN bindings[j].policy.rules,
              Holds(bindings[j].policy.rules[m])
       PROVE  Precedes(i, j)
  <2>1. PICK a \in DOMAIN layers : source[a] = j
    BY <1>7
  <2>2. PICK p \in DOMAIN merged.rules :
           /\ lay[p] = a /\ at[p] = m
           /\ merged.rules[p] = bindings[source[a]].policy.rules[m]
    <3>1. m \in DOMAIN bindings[source[a]].policy.rules
      BY <2>1
    <3>2. QED
      BY <1>1, <1>2, <1>3, <3>1, RuleMerged
  <2>3. a # l
    BY <1>5, <2>1
  <2>4. l < a
    BY <1>5, <1>10, <1>12, <2>1, <2>2, <2>3
  <2>5. QED
    BY <1>5, <1>6, <1>7, <2>1, <2>4
<1>13. DecidedBy(i, k)
  BY <1>4, <1>6, <1>7, <1>11, <1>12 DEF DecidedBy
<1>14. QED
  BY <1>6, <1>7, <1>13

LEMMA NoneHolds ==
    ASSUME DInv, Tried, matched = 0,
           NEW i \in Consulted, NEW k \in DOMAIN bindings[i].policy.rules
    PROVE  ~Holds(bindings[i].policy.rules[k])
<1>1. PICK source : Layers(source)
  BY DEF DInv, LayersOrdered, Tried
<1>2. PICK lay, at : MergesFrom(Len(layers), lay, at)
  BY DEF DInv, LayersMerged, Tried
<1>3. layers \in Seq(Policy)
  BY DEF DInv, IInv, TypeOK
<1>4. PICK l \in DOMAIN layers : source[l] = i
  BY <1>1 DEF Layers
<1>5. PICK p \in DOMAIN merged.rules : merged.rules[p] = bindings[i].policy.rules[k]
  BY <1>1, <1>2, <1>3, <1>4, RuleMerged
<1>6. QED
  BY <1>5, AllTried

\* The merged default is that of the binding which DefaultBy names.
LEMMA DefaultOfOne ==
    ASSUME DInv, Tried, NEW c \in Consulted, Decided(bindings[c].policy)
    PROVE  \E d \in Consulted :
              DefaultBy(d) /\ merged.default = bindings[d].policy.default
<1>1. PICK source : Layers(source)
  BY DEF DInv, LayersOrdered, Tried
<1>2. layers \in Seq(Policy) /\ DOMAIN layers = 1..Len(layers) /\ Len(layers) \in Nat
  BY DEF DInv, IInv, TypeOK
<1>3. /\ \A k \in DOMAIN layers : source[k] \in Consulted
      /\ \A k \in DOMAIN layers : layers[k] = bindings[source[k]].policy
      /\ \A k, l \in DOMAIN layers : k < l => Precedes(source[k], source[l])
      /\ \A i \in Consulted : \E k \in DOMAIN layers : source[k] = i
  BY <1>1 DEF Layers
<1>4. PICK j \in DOMAIN layers : /\ Decided(layers[j]) /\ merged.default = layers[j].default
                                /\ \A m \in 1..(j - 1) : ~Decided(layers[m])
  <2>1. DefaultFrom(Len(layers))
    BY DEF DInv, LayersMerged, Tried
  <2>2. PICK l \in DOMAIN layers : source[l] = c
    BY <1>3
  <2>3. Decided(layers[l])
    BY <1>3, <2>2
  <2>4. QED
    BY <1>2, <2>1, <2>2, <2>3 DEF DefaultFrom
<1>5. PICK d \in Consulted : d = source[j]
  BY <1>3
<1>6. Decided(bindings[d].policy) /\ merged.default = bindings[d].policy.default
  BY <1>3, <1>4, <1>5
<1>7. ASSUME NEW e \in Consulted \ {d}, Decided(bindings[e].policy) PROVE Precedes(d, e)
  <2>1. PICK k \in DOMAIN layers : source[k] = e
    BY <1>3
  <2>2. Decided(layers[k]) /\ k # j
    BY <1>3, <1>5, <1>7, <2>1
  <2>3. k \notin 1..(j - 1)
    BY <1>4, <2>2
  <2>4. j < k
    BY <1>2, <2>2, <2>3
  <2>5. QED
    BY <1>3, <1>5, <2>1, <2>4
<1>8. DefaultBy(d)
  BY <1>6, <1>7 DEF DefaultBy
<1>9. QED
  BY <1>6, <1>8

\* If all abstain the merged default is deny.
LEMMA DefaultOfNone ==
    ASSUME DInv, Tried, \A i \in Consulted : ~Decided(bindings[i].policy)
    PROVE  merged.default = "deny"
<1>1. PICK source : Layers(source)
  BY DEF DInv, LayersOrdered, Tried
<1>2. layers \in Seq(Policy) /\ DOMAIN layers = 1..Len(layers)
  BY DEF DInv, IInv, TypeOK
<1>3. \A k \in DOMAIN layers : ~Decided(layers[k])
  BY <1>1 DEF Layers
<1>4. DefaultFrom(Len(layers))
  BY DEF DInv, LayersMerged, Tried
<1>5. QED
  BY <1>2, <1>3, <1>4 DEF DefaultFrom

LEMMA AnswerWhence == ASSUME DInv, Answer PROVE DInv'
<1>1. /\ Tried /\ pc' = "done"
      /\ UNCHANGED <<bindings, action, layers, merged, matched>>
      /\ answer'.result = Outcome(merged.rules, matched, merged.default).result
  BY DEF Answer, Tried
<1>2. /\ Consulted' = Consulted
      /\ \A i, k : DecidedBy(i, k)' <=> DecidedBy(i, k)
      /\ \A i : DefaultBy(i)' <=> DefaultBy(i)
  <2>1. Consulted' = Consulted
    BY <1>1 DEF Consulted, InGroup
  <2>2. \A i, j : Precedes(i, j)' <=> Precedes(i, j)
    BY <1>1 DEF Precedes
  <2>3. QED
    BY <1>1, <2>1, <2>2 DEF DecidedBy, DefaultBy
<1>3. NarrowestRuleDecides'
  <2> SUFFICES ASSUME matched # 0
               PROVE  LET rule == merged.rules[matched] IN
                      /\ \E i \in Consulted : \E k \in DOMAIN bindings[i].policy.rules :
                            DecidedBy(i, k) /\ bindings[i].policy.rules[k] = rule
                      /\ answer'.result = "DENY" <=> rule.effect = "deny"
    BY <1>1, <1>2 DEF NarrowestRuleDecides
  <2>1. \A owed : ResultOf(owed) # "DENY"
    BY DEF ResultOf
  <2>2. answer'.result = "DENY" <=> merged.rules[matched].effect = "deny"
    BY <1>1, <2>1 DEF Outcome
  <2>3. QED
    BY <1>1, <2>2, MatchedIsNarrowest
<1>4. AbstainersDefer'
  <2> SUFFICES ASSUME matched = 0 PROVE AbstainersDefer'
    BY <1>1 DEF AbstainersDefer
  <2>1. answer'.result = IF merged.default = "allow" THEN "ALLOW"
                         ELSE IF merged.default = "require_approval" THEN "REQUIRE_APPROVAL"
                         ELSE "DENY"
    BY <1>1 DEF Outcome
  <2>2. \A i \in Consulted : \A k \in DOMAIN bindings[i].policy.rules :
           ~Holds(bindings[i].policy.rules[k])
    BY <1>1, NoneHolds
  <2>3. CASE \E i \in Consulted : Decided(bindings[i].policy)
    <3>1. PICK d \in Consulted :
             DefaultBy(d) /\ merged.default = bindings[d].policy.default
      BY <1>1, <2>3, DefaultOfOne
    <3>2. /\ merged.default \in {"allow", "deny", "passthrough", "require_approval"}
          /\ merged.default # "passthrough"
      BY <3>1 DEF DefaultBy, Decided, DInv, IInv, TypeOK, Policy
    <3>3. answer'.result = CASE bindings'[d].policy.default = "allow" -> "ALLOW"
                             [] bindings'[d].policy.default = "deny" -> "DENY"
                             [] OTHER -> "REQUIRE_APPROVAL"
      BY <1>1, <2>1, <3>1, <3>2
    <3>4. QED
      BY <1>1, <1>2, <2>2, <2>3, <3>1, <3>3 DEF AbstainersDefer
  <2>4. CASE \A i \in Consulted : ~Decided(bindings[i].policy)
    <3>1. answer'.result = "DENY"
      BY <1>1, <2>1, <2>4, DefaultOfNone
    <3>2. QED
      BY <1>1, <1>2, <2>2, <2>4, <3>1 DEF AbstainersDefer
  <2>5. QED
    BY <2>3, <2>4
<1>5. DecidedBySpecificity'
  BY <1>3, <1>4 DEF DecidedBySpecificity
<1>6. TiersRead' /\ LayersLoaded' /\ LayersOrdered' /\ LayersMerged' /\ TraceTrue'
  BY <1>1 DEF TiersRead, LayersLoaded, LayersOrdered, LayersMerged, TraceTrue
<1>7. QED
  BY <1>5, <1>6, AnswerStep DEF DInv

LEMMA StutterWhence == ASSUME DInv, UNCHANGED vars PROVE DInv'
<1>1. /\ pc' = pc /\ bindings' = bindings /\ next' = next /\ tiers' = tiers
      /\ ordered' = ordered /\ layers' = layers /\ merged' = merged /\ trace' = trace
      /\ matched' = matched /\ answer' = answer
  BY DEF vars
<1>2. Consulted' = Consulted /\ \A i, j : Precedes(i, j)' <=> Precedes(i, j)
  BY <1>1 DEF Consulted, InGroup, Precedes
<1>3. TiersRead'
  <2>1. ASSUME NEW t \in Tiers, NEW n, NEW g, ReadsTier(t, n, g) PROVE ReadsTier(t, n, g)'
    BY <1>1, <2>1 DEF ReadsTier
  <2>2. QED
    <3> SUFFICES ASSUME pc = "collect", NEW t \in Tiers
                 PROVE  \E g : ReadsTier(t, next - 1, g)'
      BY <1>1 DEF TiersRead, DInv
    <3>1. PICK g : ReadsTier(t, next - 1, g)
      BY DEF TiersRead, DInv
    <3>2. ReadsTier(t, next - 1, g)'
      BY <1>1, <3>1 DEF ReadsTier
    <3>3. QED
      BY <3>2
<1>4. LayersLoaded'
  <2> SUFFICES ASSUME pc = "load"
               PROVE  /\ \E place : Arranges(ordered, Tiers, place)'
                      /\ \E from : LoadsFrom(next - 1, from)'
    BY <1>1 DEF LayersLoaded, DInv
  <2>1. PICK place, from : Arranges(ordered, Tiers, place) /\ LoadsFrom(next - 1, from)
    BY DEF LayersLoaded, DInv
  <2>2. Arranges(ordered, Tiers, place)'
    BY <1>1, <1>2, <2>1 DEF Arranges
  <2>3. LoadsFrom(next - 1, from)'
    BY <1>1, <2>1 DEF LoadsFrom
  <2>4. QED
    BY <2>2, <2>3
<1>5. LayersOrdered'
  <2> SUFFICES ASSUME pc \in {"merge", "try"} PROVE \E source : Layers(source)'
    BY <1>1 DEF LayersOrdered
  <2>1. PICK source : Layers(source)
    BY DEF LayersOrdered, DInv
  <2>2. Layers(source)'
    BY <1>1, <1>2, <2>1 DEF Layers
  <2>3. QED
    BY <2>2
<1>6. LayersMerged'
  <2>1. CASE pc = "merge"
    <3>1. PICK lay, at : MergesFrom(next - 1, lay, at)
      BY <2>1 DEF LayersMerged, DInv
    <3>2. MergesFrom(next - 1, lay, at)'
      BY <1>1, <3>1 DEF MergesFrom
    <3>3. \E u, v : MergesFrom(next - 1, u, v)'
      BY <3>2
    <3>4. QED
      BY <1>1, <2>1, <3>3 DEF LayersMerged, DefaultFrom, DInv
  <2>2. CASE pc = "try"
    <3>1. PICK lay, at : MergesFrom(Len(layers), lay, at)
      BY <2>2 DEF LayersMerged, DInv
    <3>2. MergesFrom(Len(layers), lay, at)'
      BY <1>1, <3>1 DEF MergesFrom
    <3>3. \E u, v : MergesFrom(Len(layers), u, v)'
      BY <3>2
    <3>4. QED
      BY <1>1, <2>2, <3>3 DEF LayersMerged, DefaultFrom, DInv
  <2>3. CASE pc \notin {"merge", "try"}
    BY <1>1, <2>3 DEF LayersMerged, DInv
  <2>4. QED
    BY <2>1, <2>2, <2>3
<1>7. TraceTrue'
  BY <1>1 DEF TraceTrue, DInv
<1>8. DecidedBySpecificity'
  <2>1. /\ \A i, k : DecidedBy(i, k)' <=> DecidedBy(i, k)
        /\ \A i : DefaultBy(i)' <=> DefaultBy(i)
    BY <1>1, <1>2 DEF DecidedBy, DefaultBy
  <2>2. NarrowestRuleDecides => NarrowestRuleDecides'
    BY <1>1, <1>2, <2>1 DEF NarrowestRuleDecides
  <2>3. AbstainersDefer => AbstainersDefer'
    BY <1>1, <1>2, <2>1 DEF AbstainersDefer
  <2>4. QED
    BY <1>1, <2>2, <2>3 DEF DecidedBySpecificity, Answered, DInv
<1>9. QED
  BY <1>3, <1>4, <1>5, <1>6, <1>7, <1>8, StutterStep DEF DInv

\* Whatever order the bindings were written in, the narrowest rule that holds
\* decides, and with no such rule the narrowest default that does not abstain:
\* collecting into tiers, sorting each, skipping stale policies, merging and
\* trying in a loop come to that.
THEOREM NarrowestAlwaysDecides == Spec => []DecidedBySpecificity
<1>1. DInv /\ [Next]_vars => DInv'
  BY CollectWhence, SortWhence, LoadWhence, LoadedWhence, MergeWhence, MergedWhence,
     TryWhence, AnswerWhence, StutterWhence DEF Next
<1>2. DInv => DecidedBySpecificity
  BY DEF DInv
<1>3. QED
  BY <1>1, <1>2, InitWhence, PTL DEF Spec

-----------------------------------------------------------------------------
(* PolicyBuilder: trees of conditions.  EvaluateExpr of a tree is what its *)
(* nodes are worth one by one, and what is left of a tree without one of its*)
(* parts is worth what Without says.                                       *)

\* A set of naturals that is not empty has a least member.
LEMMA SmallestOf ==
    ASSUME NEW S \in SUBSET Nat, S # {}
    PROVE  \E n \in S : \A m \in S : n <= m
<1>1. PICK n \in S : \A m \in S : ~(<<m, n>> \in OpToRel(<, Nat))
  BY NatLessThanWellFounded, WFMin
<1>2. ASSUME NEW m \in S, m < n PROVE <<m, n>> \in OpToRel(<, Nat)
  BY <1>2 DEF OpToRel
<1>3. \A m \in S : n \in Nat /\ m \in Nat /\ ~(m < n)
  BY <1>1, <1>2
<1>4. QED
  BY <1>3

\* What is set at 0 and then goes by a function from each number to the next.
LEMMA Iterates ==
    ASSUME NEW X, NEW x0 \in X, NEW N \in Nat, NEW F \in [1..N -> [X -> X]]
    PROVE  \E f \in [0..N -> X] : f[0] = x0 /\ \A n \in 1..N : f[n] = F[n][f[n - 1]]
<1> DEFINE good(m) == \E f \in [0..m -> X] : f[0] = x0 /\ \A n \in 1..m : f[n] = F[n][f[n - 1]]
           bad == {m \in 0..N : ~good(m)}
<1>1. SUFFICES ASSUME bad # {} PROVE FALSE
  <2>1. N \in 0..N
    OBVIOUS
  <2>2. good(N) => \E f \in [0..N -> X] : f[0] = x0 /\ \A n \in 1..N : f[n] = F[n][f[n - 1]]
    OBVIOUS
  <2> HIDE DEF good
  <2>3. QED
    BY <2>1, <2>2
<1>2. good(0)
  <2>1. [i \in 0..0 |-> x0] \in [0..0 -> X]
    OBVIOUS
  <2>2. [i \in 0..0 |-> x0][0] = x0 /\ \A n \in 1..0 : FALSE
    OBVIOUS
  <2>3. QED
    BY <2>1, <2>2
<1> HIDE DEF good
<1>3. bad \subseteq Nat
  OBVIOUS
<1>4. PICK m \in bad : \A k \in bad : m <= k
  BY <1>1, <1>3, SmallestOf
<1>5. m \in 0..N /\ ~good(m)
  BY <1>4
<1>6. m \in 1..N /\ m - 1 \in 0..N
  BY <1>5, <1>2
<1>7. good(m - 1)
  BY <1>4, <1>6
<1>8. PICK f \in [0..(m - 1) -> X] : f[0] = x0 /\ \A n \in 1..(m - 1) : f[n] = F[n][f[n - 1]]
  BY <1>7 DEF good
<1> DEFINE g == [i \in 0..m |-> IF i = m THEN F[m][f[m - 1]] ELSE f[i]]
<1>9. g \in [0..m -> X]
  BY <1>6, <1>8
<1>10. g[0] = x0 /\ \A n \in 1..m : g[n] = F[n][g[n - 1]]
  BY <1>6, <1>8
<1>11. good(m)
  BY <1>9, <1>10 DEF good
<1>12. QED
  BY <1>5, <1>11

\* f is what starts with x0 and then goes by F.
Iterated(X, x0, N, F, f) ==
    f \in [0..N -> X] /\ f[0] = x0 /\ \A n \in 1..N : f[n] = F[n][f[n - 1]]

\* The same, with its name.
LEMMA IteratesTo ==
    ASSUME NEW X, NEW x0 \in X, NEW N \in Nat, NEW F \in [1..N -> [X -> X]]
    PROVE  \E f : Iterated(X, x0, N, F, f)
BY Iterates DEF Iterated

\* A finite set of addresses has a longest.
LEMMA LengthBound ==
    ASSUME NEW D, IsFiniteSet(D), \A a \in D : Len(a) \in Nat
    PROVE  \E n \in Nat : \A a \in D : Len(a) <= n
<1> DEFINE bounded(U) == \E n \in Nat : \A a \in U : Len(a) <= n
           bad == {U \in SUBSET D : ~bounded(U)}
<1>1. SUFFICES ASSUME bad # {} PROVE FALSE
  OBVIOUS
<1>2. bad \subseteq FiniteSubsetsOf(D)
  BY FS_FiniteSubsetsOfFinite
<1>3. PICK U \in bad : \A V \in bad : ~(<<V, U>> \in StrictSubsetOrdering(D))
  BY <1>1, <1>2, WFMin, FS_StrictSubsetOrderingWellFounded
<1>4. U # {}
  BY <1>3
<1>5. PICK x \in U : TRUE
  BY <1>4
<1>6. <<U \ {x}, U>> \in StrictSubsetOrdering(D)
  BY <1>3, <1>5 DEF StrictSubsetOrdering
<1>7. bounded(U \ {x})
  BY <1>3, <1>6
<1>8. PICK n \in Nat : \A a \in U \ {x} : Len(a) <= n
  BY <1>7
<1>9. Len(x) \in Nat
  BY <1>3, <1>5
<1>10. CASE Len(x) <= n
  BY <1>3, <1>8, <1>10
<1>11. CASE ~(Len(x) <= n)
  <2>1. \A a \in U : Len(a) <= Len(x)
    <3> SUFFICES ASSUME NEW a \in U PROVE Len(a) <= Len(x)
      OBVIOUS
    <3>1. Len(a) \in Nat
      BY <1>3
    <3>2. CASE a = x
      BY <1>9, <3>2
    <3>3. CASE a # x
      BY <1>8, <1>9, <1>11, <3>1, <3>3
    <3>4. QED
      BY <3>2, <3>3
  <2>2. QED
    BY <2>1, <1>9, <1>3
<1>12. QED
  BY <1>10, <1>11

\* A match holds or not, and so does a node.
LEMMA MatchIsBoolean == \A m, doc : EvaluateMatch(m, doc) \in BOOLEAN
BY DEF EvaluateMatch, Same, Includes, Both

LEMMA NodeWorthIsBoolean == \A node, kids, doc : NodeWorth(node, kids, doc) \in BOOLEAN
BY MatchIsBoolean DEF NodeWorth

\* The addresses of nodes.
Address == Seq(Nat \ {0})

\* The first elements of a sequence.
LEMMA CutFact ==
    ASSUME NEW S, NEW s \in Seq(S), NEW n \in 0..Len(s)
    PROVE  /\ SubSeq(s, 1, n) \in Seq(S) /\ Len(SubSeq(s, 1, n)) = n
           /\ \A i \in 1..n : SubSeq(s, 1, n)[i] = s[i]
OBVIOUS

\* The address of a parent.
LEMMA FrontFact ==
    ASSUME NEW a \in Address, a # << >>
    PROVE  /\ Front(a) \in Address /\ Len(a) \in Nat \ {0} /\ Len(Front(a)) = Len(a) - 1
           /\ \A i \in 1..(Len(a) - 1) : Front(a)[i] = a[i]
<1>1. a \in Seq(Nat \ {0})
  BY DEF Address
<1>2. Len(a) \in Nat \ {0} /\ Len(a) - 1 \in 0..Len(a)
  BY <1>1
<1>3. /\ SubSeq(a, 1, Len(a) - 1) \in Seq(Nat \ {0})
      /\ Len(SubSeq(a, 1, Len(a) - 1)) = Len(a) - 1
      /\ \A i \in 1..(Len(a) - 1) : SubSeq(a, 1, Len(a) - 1)[i] = a[i]
  BY <1>1, <1>2, CutFact, Zenon
<1>4. QED
  BY <1>2, <1>3, Zenon DEF Front, Address

\* Addresses in a tree, and those of a node's children.
LEMMA TreeAddress ==
    ASSUME NEW e, IsTree(e)
    PROVE  /\ DOMAIN e \subseteq Address /\ << >> \in DOMAIN e
           /\ \A at \in DOMAIN e : Len(at) \in Nat
           /\ \A at \in DOMAIN e : \A a \in Under(e, at) :
                 a \in DOMAIN e /\ a # << >> /\ Front(a) = at /\ Len(a) = Len(at) + 1
<1>1. DOMAIN e \subseteq Address /\ << >> \in DOMAIN e
  BY DEF IsTree, Address
<1>2. \A at \in DOMAIN e : Len(at) \in Nat
  BY <1>1 DEF Address
<1>3. ASSUME NEW at \in DOMAIN e, NEW a \in Under(e, at)
      PROVE  a \in DOMAIN e /\ a # << >> /\ Front(a) = at /\ Len(a) = Len(at) + 1
  <2>1. a \in DOMAIN e /\ a # << >> /\ Front(a) = at
    BY DEF Under
  <2>2. QED
    BY <1>1, <2>1, FrontFact
<1>4. QED
  BY <1>1, <1>2, <1>3

\* A tree has a worth: each node's is that of its children.
LEMMA WorthFact ==
    ASSUME NEW e, IsTree(e), NEW doc
    PROVE  /\ Worth(e, doc) \in [DOMAIN e -> BOOLEAN]
           /\ \A at \in DOMAIN e :
                 Worth(e, doc)[at] =
                    NodeWorth(e[at], {Worth(e, doc)[a] : a \in Under(e, at)}, doc)
<1> DEFINE X == [DOMAIN e -> BOOLEAN]
           body(g) == [at \in DOMAIN e |-> NodeWorth(e[at], {g[a] : a \in Under(e, at)}, doc)]
<1>1. PICK D \in Nat : \A at \in DOMAIN e : Len(at) <= D
  BY TreeAddress, LengthBound DEF IsTree
<1>2. \A g : body(g) \in X
  BY NodeWorthIsBoolean
<1> DEFINE N == D + 2
           start == [at \in DOMAIN e |-> FALSE]
           F == [n \in 1..N |-> [g \in X |-> body(g)]]
<1>3. N \in Nat /\ start \in X
  OBVIOUS
<1>4. F \in [1..N -> [X -> X]]
  BY <1>2
<1>5. \A n \in 1..N : \A g \in X : F[n][g] = body(g)
  OBVIOUS
<1> HIDE DEF N, start, F, X, body
<1>6. PICK f \in [0..N -> X] : f[0] = start /\ \A n \in 1..N : f[n] = F[n][f[n - 1]]
  BY <1>3, <1>4, Iterates
<1>7. \A n \in 1..N : f[n] = body(f[n - 1])
  <2> SUFFICES ASSUME NEW n \in 1..N PROVE f[n] = body(f[n - 1])
    OBVIOUS
  <2>1. f[n - 1] \in X
    BY <1>3, <1>6
  <2>2. QED
    BY <1>5, <1>6, <2>1
<1> DEFINE settled(n) == \A at \in DOMAIN e : Len(at) > D - n => f[n + 1][at] = f[n][at]
           bad == {n \in 1..(N - 1) : ~settled(n)}
<1>8. bad = {}
  <2> SUFFICES ASSUME bad # {} PROVE FALSE
    OBVIOUS
  <2> bad \subseteq Nat
    BY <1>3
  <2>1. PICK n \in bad : \A k \in bad : n <= k
    BY SmallestOf
  <2>2. PICK at \in DOMAIN e : Len(at) > D - n /\ f[n + 1][at] # f[n][at]
    BY <2>1
  <2>3. n \in 1..N /\ n + 1 \in 1..N
    BY <2>1, <1>3
  <2>4. /\ f[n + 1][at] = NodeWorth(e[at], {f[n][a] : a \in Under(e, at)}, doc)
        /\ f[n][at] = NodeWorth(e[at], {f[n - 1][a] : a \in Under(e, at)}, doc)
    <3>1. f[n + 1] = body(f[n]) /\ f[n] = body(f[n - 1])
      BY <1>7, <2>3, SMTT(60)
    <3>2. QED
      BY <3>1 DEF body
  <2>5. \A a \in Under(e, at) : f[n][a] = f[n - 1][a]
    <3> SUFFICES ASSUME NEW a \in Under(e, at) PROVE f[n][a] = f[n - 1][a]
      OBVIOUS
    <3>1. a \in DOMAIN e /\ Len(a) = Len(at) + 1 /\ Len(at) \in Nat /\ Len(a) <= D
      BY TreeAddress, <1>1
    <3>2. n # 1
      BY <3>1, <2>2
    <3>3. n - 1 \in 1..(N - 1) /\ n - 1 \notin bad
      BY <3>2, <2>1, <1>3
    <3>4. settled(n - 1)
      BY <3>3
    <3>5. Len(a) > D - (n - 1) /\ (n - 1) + 1 = n
      BY <3>1, <2>2, <2>3
    <3>6. QED
      BY <3>1, <3>4, <3>5
  <2>6. {f[n][a] : a \in Under(e, at)} = {f[n - 1][a] : a \in Under(e, at)}
    BY <2>5
  <2>7. QED
    BY <2>2, <2>4, <2>6
<1> DEFINE g == f[D + 1]
<1>9. D + 1 \in 1..(N - 1) /\ D + 1 \in 0..N /\ D + 2 \in 0..N /\ D + 2 \in 1..N
  BY DEF N
<1>10. g \in X /\ f[D + 2] \in X
  BY <1>6, <1>9
<1>11. f[D + 2] = g
  <2>1. settled(D + 1)
    BY <1>8, <1>9
  <2>2. \A at \in DOMAIN e : f[D + 2][at] = g[at]
    <3> SUFFICES ASSUME NEW at \in DOMAIN e PROVE f[D + 2][at] = g[at]
      OBVIOUS
    <3>1. Len(at) \in Nat
      BY TreeAddress
    <3>2. Len(at) > D - (D + 1) /\ (D + 1) + 1 = D + 2
      BY <3>1
    <3>3. QED
      BY <2>1, <3>2
  <2>3. QED
    BY <2>2, <1>10 DEF X
<1>12. g = body(g)
  <2>1. f[D + 2] = body(f[D + 1])
    BY <1>7, <1>9
  <2>2. QED
    BY <2>1, <1>11
<1>13. \E h : h = [at \in DOMAIN e |-> NodeWorth(e[at], {h[a] : a \in Under(e, at)}, doc)]
  BY <1>12, SMTT(60) DEF body
<1>14. Worth(e, doc) = [at \in DOMAIN e |->
                          NodeWorth(e[at], {Worth(e, doc)[a] : a \in Under(e, at)}, doc)]
  BY <1>13 DEF Worth
<1>15. QED
  BY <1>14, NodeWorthIsBoolean

\* Addresses that agree everywhere are one.
LEMMA SameAddress ==
    ASSUME NEW a \in Address, NEW b \in Address, Len(a) = Len(b),
           \A i \in 1..Len(a) : a[i] = b[i]
    PROVE  a = b
BY SeqEqual DEF Address

\* What it is for a node to be above another, or it.
LEMMA PrefixFact ==
    ASSUME NEW s \in Address, NEW t \in Address
    PROVE  IsPrefix(s, t) <=> Len(s) <= Len(t) /\ \A i \in 1..Len(s) : s[i] = t[i]
<1>1. s \in Seq(Nat \ {0}) /\ t \in Seq(Nat \ {0}) /\ Len(s) \in Nat /\ Len(t) \in Nat
  BY DEF Address
<1>2. CASE Len(s) <= Len(t)
  <2>1. Len(s) \in 0..Len(s) /\ Len(s) \in 0..Len(t)
    BY <1>1, <1>2
  <2> DEFINE u == SubSeq(s, 1, Len(s))
             v == SubSeq(t, 1, Len(s))
  <2>2. u \in Address /\ Len(u) = Len(s) /\ \A i \in 1..Len(s) : u[i] = s[i]
    BY <1>1, <2>1, CutFact, Zenon DEF Address
  <2>3. v \in Address /\ Len(v) = Len(s) /\ \A i \in 1..Len(s) : v[i] = t[i]
    BY <1>1, <2>1, CutFact, Zenon DEF Address
  <2>4. IsPrefix(s, t) <=> u = v
    BY <1>2 DEF IsPrefix
  <2> HIDE DEF u, v
  <2>5. u = v <=> \A i \in 1..Len(s) : s[i] = t[i]
    <3>1. ASSUME \A i \in 1..Len(s) : s[i] = t[i] PROVE u = v
      BY <2>2, <2>3, <3>1, SameAddress
    <3>2. QED
      BY <2>2, <2>3, <3>1
  <2>6. QED
    BY <1>2, <2>4, <2>5
<1>3. CASE ~(Len(s) <= Len(t))
  BY <1>3 DEF IsPrefix
<1>4. QED
  BY <1>2, <1>3

\* The node above, so many levels below the root.
LEMMA AboveFact ==
    ASSUME NEW at \in Address, NEW n \in 0..Len(at)
    PROVE  /\ Above(at, n) \in Address /\ Len(Above(at, n)) = n
           /\ \A i \in 1..n : Above(at, n)[i] = at[i]
           /\ n = 0 => Above(at, n) = << >>
           /\ n = Len(at) => Above(at, n) = at
           /\ n > 0 => Above(at, n) # << >> /\ Front(Above(at, n)) = Above(at, n - 1)
<1>1. at \in Seq(Nat \ {0}) /\ Len(at) \in Nat
  BY DEF Address
<1>2. \A m \in 0..Len(at) : /\ Above(at, m) \in Address /\ Len(Above(at, m)) = m
                            /\ \A i \in 1..m : Above(at, m)[i] = at[i]
  BY <1>1, CutFact, Zenon DEF Above, Address
<1>3. n = 0 => Above(at, n) = << >>
  BY <1>2 DEF Address
<1>4. n = Len(at) => Above(at, n) = at
  BY <1>2, SameAddress
<1>5. ASSUME n > 0 PROVE Above(at, n) # << >> /\ Front(Above(at, n)) = Above(at, n - 1)
  <2> DEFINE a == Above(at, n)
             b == Above(at, n - 1)
  <2>1. n - 1 \in 0..Len(at)
    BY <1>5
  <2>2. a \in Address /\ Len(a) = n /\ \A i \in 1..n : a[i] = at[i]
    BY <1>2
  <2>3. b \in Address /\ Len(b) = n - 1 /\ \A i \in 1..(n - 1) : b[i] = at[i]
    BY <1>2, <2>1
  <2> HIDE DEF a, b
  <2>4. a # << >>
    BY <2>2, <1>5
  <2>5. /\ Front(a) \in Address /\ Len(Front(a)) = n - 1
        /\ \A i \in 1..(n - 1) : Front(a)[i] = a[i]
    BY <2>2, <2>4, FrontFact
  <2>6. \A i \in 1..(n - 1) : Front(a)[i] = b[i]
    BY <2>2, <2>3, <2>5
  <2>7. Front(a) = b
    BY <2>3, <2>5, <2>6, SameAddress
  <2>8. QED
    BY <2>4, <2>7 DEF a, b
<1>6. QED
  BY <1>2, <1>3, <1>4, <1>5

\* Every ancestor of a node of a tree is one of its nodes.
LEMMA AboveInTree ==
    ASSUME NEW e, IsTree(e), NEW at \in DOMAIN e, NEW n \in 0..Len(at)
    PROVE  Above(at, n) \in DOMAIN e
<1>1. at \in Address /\ Len(at) \in Nat
  BY TreeAddress
<1> DEFINE bad == {k \in 0..Len(at) : Above(at, Len(at) - k) \notin DOMAIN e}
<1>2. bad = {}
  <2> SUFFICES ASSUME bad # {} PROVE FALSE
    OBVIOUS
  <2> bad \subseteq Nat
    OBVIOUS
  <2>1. PICK k \in bad : \A m \in bad : k <= m
    BY SmallestOf
  <2>2. k # 0
    BY <1>1, <2>1, AboveFact
  <2>3. k - 1 \in 0..Len(at) /\ k - 1 \notin bad
    BY <2>1, <2>2
  <2> DEFINE m == Len(at) - (k - 1)
  <2>4. m \in 0..Len(at) /\ m > 0 /\ m - 1 = Len(at) - k
    BY <1>1, <2>1, <2>2
  <2>5. Above(at, m) \in DOMAIN e
    BY <2>3
  <2> HIDE DEF m
  <2>6. Above(at, m) # << >> /\ Front(Above(at, m)) = Above(at, m - 1)
    BY <1>1, <2>4, AboveFact
  <2>7. Above(at, m - 1) \in DOMAIN e
    BY <2>5, <2>6 DEF IsTree
  <2>8. QED
    BY <2>1, <2>4, <2>7
<1>3. Len(at) - n \in 0..Len(at) /\ Len(at) - (Len(at) - n) = n
  BY <1>1
<1>4. QED
  BY <1>2, <1>3

\* The nodes that move up: a younger brother of what goes, and what is below him.
Moves(a, gone) ==
    /\ Len(a) >= Len(gone) /\ a[Len(gone)] > gone[Len(gone)]
    /\ \A i \in 1..(Len(gone) - 1) : a[i] = gone[i]

\* Where a node is afterwards.
LEMMA ClosedFact ==
    ASSUME NEW a \in Address, NEW gone \in Address, gone # << >>
    PROVE  /\ Closed(a, gone) \in Address /\ Len(Closed(a, gone)) = Len(a)
           /\ \A i \in 1..Len(a) :
                 Closed(a, gone)[i] = IF Moves(a, gone) /\ i = Len(gone) THEN a[i] - 1 ELSE a[i]
<1>1. Len(a) \in Nat /\ Len(gone) \in Nat \ {0} /\ Len(gone) - 1 \in 0..Len(gone)
  BY FrontFact DEF Address
<1>2. /\ Front(gone) \in Address /\ Len(Front(gone)) = Len(gone) - 1
      /\ \A i \in 1..(Len(gone) - 1) : Front(gone)[i] = gone[i]
  BY FrontFact
<1>3. Closed(a, gone) = IF Moves(a, gone) THEN [a EXCEPT ![Len(gone)] = @ - 1] ELSE a
  <2>1. CASE ~(Len(a) >= Len(gone))
    BY <2>1 DEF Closed, Moves
  <2>2. CASE Len(a) >= Len(gone)
    <3>1. Len(gone) - 1 \in 0..Len(a)
      BY <1>1, <2>2
    <3> DEFINE b == Above(a, Len(gone) - 1)
    <3>2. b \in Address /\ Len(b) = Len(gone) - 1 /\ \A i \in 1..(Len(gone) - 1) : b[i] = a[i]
      BY <3>1, AboveFact
    <3>3. b = Front(gone) <=> \A i \in 1..(Len(gone) - 1) : a[i] = gone[i]
      <4> HIDE DEF b
      <4>1. ASSUME \A i \in 1..(Len(gone) - 1) : a[i] = gone[i] PROVE b = Front(gone)
        <5>1. \A i \in 1..Len(b) : b[i] = Front(gone)[i]
          BY <4>1, <3>2, <1>2
        <5>2. QED
          BY <5>1, <3>2, <1>2, SameAddress
      <4>2. ASSUME b = Front(gone), NEW i \in 1..(Len(gone) - 1) PROVE a[i] = gone[i]
        BY <4>2, <3>2, <1>2
      <4>3. QED
        BY <4>1, <4>2
    <3>4. QED
      BY <2>2, <3>3 DEF Closed, Moves
  <2>3. QED
    BY <2>1, <2>2
<1>4. CASE ~Moves(a, gone)
  BY <1>3, <1>4
<1>5. CASE Moves(a, gone)
  <2> DEFINE n == Len(gone)
  <2>1. n \in 1..Len(a) /\ a[n] > gone[n]
    BY <1>1, <1>5 DEF Moves
  <2>2. a[n] \in Nat \ {0} /\ gone[n] \in Nat \ {0}
    BY <1>1, <2>1 DEF Address
  <2>3. a[n] - 1 \in Nat \ {0}
    BY <2>1, <2>2
  <2> HIDE DEF n
  <2> DEFINE c == [a EXCEPT ![n] = a[n] - 1]
  <2>4. /\ c \in Seq(Nat \ {0}) /\ Len(c) = Len(a)
        /\ \A j \in 1..Len(a) : c[j] = IF j = n THEN a[n] - 1 ELSE a[j]
    BY <2>1, <2>3, ExceptSeq DEF Address
  <2>5. Closed(a, gone) = c
    BY <1>3, <1>5 DEF n
  <2> HIDE DEF c
  <2>6. QED
    BY <1>5, <2>4, <2>5 DEF Address, n
<1>6. QED
  BY <1>4, <1>5

\* Addresses outside what goes are told apart by where they move up to.
LEMMA ClosedInjective ==
    ASSUME NEW a \in Address, NEW b \in Address, NEW gone \in Address, gone # << >>,
           ~IsPrefix(gone, a), ~IsPrefix(gone, b), Closed(a, gone) = Closed(b, gone)
    PROVE  a = b
<1> DEFINE n == Len(gone)
           ca == Closed(a, gone)
           cb == Closed(b, gone)
<1>1. n \in Nat \ {0} /\ Len(a) \in Nat /\ Len(b) \in Nat
  BY FrontFact DEF Address
<1>2. /\ Len(ca) = Len(a)
      /\ \A i \in 1..Len(a) : ca[i] = IF Moves(a, gone) /\ i = n THEN a[i] - 1 ELSE a[i]
  BY ClosedFact
<1>3. /\ Len(cb) = Len(b)
      /\ \A i \in 1..Len(b) : cb[i] = IF Moves(b, gone) /\ i = n THEN b[i] - 1 ELSE b[i]
  BY ClosedFact
<1>4. ca = cb
  OBVIOUS
<1>5. Len(a) = Len(b)
  BY <1>2, <1>3, <1>4
<1> HIDE DEF n, ca, cb
<1>6. /\ \A i \in 1..Len(a) : a[i] \in Nat \ {0} /\ b[i] \in Nat \ {0}
      /\ \A i \in 1..n : gone[i] \in Nat \ {0}
  BY <1>5, SMTT(60) DEF Address, n
<1>7. Moves(a, gone) <=> Len(a) >= n /\ a[n] > gone[n] /\ \A i \in 1..(n - 1) : a[i] = gone[i]
  BY DEF Moves, n
<1>8. Moves(b, gone) <=> Len(a) >= n /\ b[n] > gone[n] /\ \A i \in 1..(n - 1) : b[i] = gone[i]
  BY <1>5 DEF Moves, n
<1>9. \A i \in 1..Len(a) : i # n => a[i] = b[i]
  BY <1>2, <1>3, <1>4, <1>5
<1>10. ~(Len(a) >= n /\ \A i \in 1..n : a[i] = gone[i])
  BY PrefixFact, <1>1 DEF n
<1>11. ~(Len(a) >= n /\ \A i \in 1..n : b[i] = gone[i])
  BY PrefixFact, <1>1, <1>5 DEF n
<1>12. ASSUME n \in 1..Len(a) PROVE a[n] = b[n]
  <2>1. /\ ca[n] = IF Moves(a, gone) THEN a[n] - 1 ELSE a[n]
        /\ ca[n] = IF Moves(b, gone) THEN b[n] - 1 ELSE b[n]
    BY <1>2, <1>3, <1>4, <1>5, <1>12
  <2>2. a[n] \in Nat /\ b[n] \in Nat /\ gone[n] \in Nat
    BY <1>6, <1>12, <1>1
  <2>3. (\A i \in 1..(n - 1) : a[i] = gone[i]) <=> (\A i \in 1..(n - 1) : b[i] = gone[i])
    BY <1>9, <1>12
  <2>4. CASE Moves(a, gone) <=> Moves(b, gone)
    BY <2>1, <2>2, <2>4
  <2>5. CASE Moves(a, gone) /\ ~Moves(b, gone)
    <3>1. b[n] = a[n] - 1 /\ ~(b[n] > gone[n]) /\ a[n] > gone[n]
      BY <2>1, <2>3, <2>5, <1>7, <1>8
    <3>2. b[n] = gone[n]
      BY <3>1, <2>2
    <3>3. \A i \in 1..n : b[i] = gone[i]
      BY <3>2, <2>3, <2>5, <1>7, <1>1
    <3>4. QED
      BY <3>3, <1>11, <1>12
  <2>6. CASE ~Moves(a, gone) /\ Moves(b, gone)
    <3>1. a[n] = b[n] - 1 /\ ~(a[n] > gone[n]) /\ b[n] > gone[n]
      BY <2>1, <2>3, <2>6, <1>7, <1>8
    <3>2. a[n] = gone[n]
      BY <3>1, <2>2
    <3>3. \A i \in 1..n : a[i] = gone[i]
      BY <3>2, <2>3, <2>6, <1>8, <1>1
    <3>4. QED
      BY <3>3, <1>10, <1>12
  <2>7. QED
    BY <2>4, <2>5, <2>6
<1>13. \A i \in 1..Len(a) : a[i] = b[i]
  BY <1>9, <1>12
<1>14. QED
  BY <1>5, <1>13, SameAddress

\* Moving up keeps who is whose child.
LEMMA ClosedFront ==
    ASSUME NEW a \in Address, a # << >>, NEW gone \in Address, gone # << >>,
           ~IsPrefix(gone, a)
    PROVE  /\ Closed(a, gone) # << >>
           /\ Front(Closed(a, gone)) = Closed(Front(a), gone)
           /\ ~IsPrefix(gone, Front(a))
<1> DEFINE n == Len(gone)
           c == Closed(a, gone)
           f == Front(a)
<1>1. n \in Nat \ {0} /\ Len(a) \in Nat \ {0}
  BY FrontFact DEF Address
<1>2. f \in Address /\ Len(f) = Len(a) - 1 /\ \A i \in 1..(Len(a) - 1) : f[i] = a[i]
  BY FrontFact
<1>3. /\ c \in Address /\ Len(c) = Len(a)
      /\ \A i \in 1..Len(a) : c[i] = IF Moves(a, gone) /\ i = n THEN a[i] - 1 ELSE a[i]
  BY ClosedFact
<1>4. c # << >>
  BY <1>1, <1>3
<1>5. /\ Front(c) \in Address /\ Len(Front(c)) = Len(a) - 1
      /\ \A i \in 1..(Len(a) - 1) : Front(c)[i] = c[i]
  BY <1>3, <1>4, FrontFact
<1>6. /\ Closed(f, gone) \in Address /\ Len(Closed(f, gone)) = Len(a) - 1
      /\ \A i \in 1..(Len(a) - 1) :
            Closed(f, gone)[i] = IF Moves(f, gone) /\ i = n THEN f[i] - 1 ELSE f[i]
  <2> HIDE DEF f
  <2>1. QED
    BY <1>2, ClosedFact
<1>7. ~IsPrefix(gone, f)
  <2> HIDE DEF f
  <2>1. ASSUME IsPrefix(gone, f) PROVE FALSE
    <3>1. Len(gone) <= Len(a) - 1 /\ \A i \in 1..Len(gone) : f[i] = gone[i]
      BY <2>1, <1>2, PrefixFact
    <3>2. Len(gone) <= Len(a) /\ \A i \in 1..Len(gone) : gone[i] = a[i]
      BY <3>1, <1>1, <1>2
    <3>3. QED
      BY <3>2, PrefixFact
  <2>2. QED
    BY <2>1
<1>8. n \in 1..(Len(a) - 1) => (Moves(f, gone) <=> Moves(a, gone))
  BY <1>1, <1>2 DEF Moves
<1> HIDE DEF n, c, f
<1>9. \A i \in 1..(Len(a) - 1) : Front(c)[i] = Closed(f, gone)[i]
  <2> SUFFICES ASSUME NEW i \in 1..(Len(a) - 1) PROVE Front(c)[i] = Closed(f, gone)[i]
    OBVIOUS
  <2>1. i \in 1..Len(a)
    BY <1>1
  <2>2. Front(c)[i] = IF Moves(a, gone) /\ i = n THEN a[i] - 1 ELSE a[i]
    BY <2>1, <1>3, <1>5
  <2>3. Closed(f, gone)[i] = IF Moves(f, gone) /\ i = n THEN a[i] - 1 ELSE a[i]
    BY <1>2, <1>6
  <2>4. QED
    BY <2>2, <2>3, <1>8
<1>10. Front(c) = Closed(f, gone)
  BY <1>5, <1>6, <1>9, SameAddress
<1>11. QED
  BY <1>4, <1>7, <1>10 DEF c, f

\* Nothing above or before what goes moves.
LEMMA ClosedAbove ==
    ASSUME NEW a \in Address, NEW gone \in Address, gone # << >>, Len(a) < Len(gone)
    PROVE  Closed(a, gone) = a
BY FrontFact DEF Address, Closed

\* What stays, and the tree it makes.
Stay(e, gone) == {a \in DOMAIN e : ~IsPrefix(gone, a)}
WithoutTree(e, gone) == [b \in {Closed(a, gone) : a \in Stay(e, gone)} |->
                            e[CHOOSE a \in Stay(e, gone) : Closed(a, gone) = b]]

\* What is left of a tree is one, with every node that stays, and children.
LEMMA LeftFact ==
    ASSUME NEW e, IsTree(e), NEW gone \in DOMAIN e, gone # << >>
    PROVE  LET left == WithoutTree(e, gone) IN
           /\ << >> \in Stay(e, gone) /\ Closed(<< >>, gone) = << >>
           /\ \A a \in Stay(e, gone) : /\ Closed(a, gone) \in DOMAIN left
                                       /\ left[Closed(a, gone)] = e[a]
           /\ \A a \in Stay(e, gone) :
                 Under(left, Closed(a, gone)) =
                    {Closed(b, gone) : b \in Under(e, a) \cap Stay(e, gone)}
           /\ IsTree(left)
<1> DEFINE left == WithoutTree(e, gone)
           S == Stay(e, gone)
           cl(a) == Closed(a, gone)
<1>1. gone \in Address /\ DOMAIN e \subseteq Address /\ S \subseteq DOMAIN e
  BY TreeAddress DEF Stay
<1>2. << >> \in S /\ cl(<< >>) = << >>
  <2>1. << >> \in Address /\ Len(<< >>) = 0 /\ Len(gone) \in Nat \ {0} /\ << >> \in DOMAIN e
    BY <1>1, FrontFact, TreeAddress DEF Address
  <2>2. ~IsPrefix(gone, << >>)
    BY <2>1, <1>1, PrefixFact
  <2>3. QED
    BY <2>1, <2>2, <1>1, ClosedAbove DEF Stay
<1>3. \A a, b \in S : cl(a) = cl(b) => a = b
  BY <1>1, ClosedInjective DEF Stay
<1>4. \A a \in S : cl(a) \in Address
  BY <1>1, ClosedFact
<1>5. DOMAIN left = {cl(a) : a \in S}
  BY DEF WithoutTree
<1>6. \A a \in S : left[cl(a)] = e[a]
  <2> SUFFICES ASSUME NEW a \in S PROVE left[cl(a)] = e[a]
    OBVIOUS
  <2> DEFINE b == CHOOSE b \in S : cl(b) = cl(a)
  <2>1. b \in S /\ cl(b) = cl(a)
    OBVIOUS
  <2>2. b = a
    BY <2>1, <1>3
  <2>3. left[cl(a)] = e[b]
    BY DEF WithoutTree
  <2>4. QED
    BY <2>2, <2>3
<1>7. \A a \in S \ {<< >>} : /\ Front(a) \in S /\ cl(a) # << >> /\ Front(cl(a)) = cl(Front(a))
  <2> SUFFICES ASSUME NEW a \in S, a # << >>
               PROVE  Front(a) \in S /\ cl(a) # << >> /\ Front(cl(a)) = cl(Front(a))
    OBVIOUS
  <2>1. a \in DOMAIN e /\ ~IsPrefix(gone, a)
    BY DEF Stay
  <2>2. Front(a) \in DOMAIN e
    BY <2>1 DEF IsTree
  <2>3. QED
    BY <2>1, <2>2, <1>1, ClosedFront DEF Stay
<1> HIDE DEF left, S, cl
<1>8. \A a \in S : Under(left, cl(a)) = {cl(b) : b \in Under(e, a) \cap S}
  <2> SUFFICES ASSUME NEW a \in S
               PROVE  Under(left, cl(a)) = {cl(b) : b \in Under(e, a) \cap S}
    OBVIOUS
  <2>1. ASSUME NEW c \in Under(left, cl(a)) PROVE \E b \in Under(e, a) \cap S : c = cl(b)
    <3>1. c \in DOMAIN left /\ c # << >> /\ Front(c) = cl(a)
      BY DEF Under
    <3>2. PICK b \in S : c = cl(b)
      BY <3>1, <1>5
    <3>3. b # << >>
      BY <3>1, <3>2, <1>2
    <3>4. Front(b) \in S /\ cl(Front(b)) = cl(a)
      BY <3>1, <3>2, <3>3, <1>7
    <3>5. Front(b) = a
      BY <3>4, <1>3
    <3>6. b \in Under(e, a)
      BY <3>3, <3>5, <1>1 DEF Under
    <3>7. QED
      BY <3>2, <3>6
  <2>2. ASSUME NEW b \in Under(e, a) \cap S PROVE cl(b) \in Under(left, cl(a))
    <3>1. b \in S /\ b # << >> /\ Front(b) = a
      BY DEF Under
    <3>2. cl(b) \in DOMAIN left /\ cl(b) # << >> /\ Front(cl(b)) = cl(a)
      BY <3>1, <1>5, <1>7
    <3>3. QED
      BY <3>2 DEF Under
  <2>3. QED
    BY <2>1, <2>2
<1>9. IsTree(left)
  <2>1. IsFiniteSet(DOMAIN left)
    <3> DEFINE h == [a \in S |-> cl(a)]
    <3>1. IsFiniteSet(S)
      BY <1>1, FS_Subset DEF IsTree
    <3>2. h \in Surjection(S, DOMAIN left)
      BY <1>5, Fun_IsSurj
    <3>3. QED
      BY <3>1, <3>2, FS_Surjection
  <2>2. << >> \in DOMAIN left
    BY <1>2, <1>5
  <2>3. \A b \in DOMAIN left : b \in Seq(Nat \ {0})
    BY <1>4, <1>5 DEF Address
  <2>4. \A b \in DOMAIN left \ {<< >>} : Front(b) \in DOMAIN left
    BY <1>2, <1>5, <1>7
  <2>5. QED
    BY <2>1, <2>2, <2>3, <2>4 DEF IsTree
<1>10. QED
  BY <1>2, <1>5, <1>6, <1>8, <1>9 DEF left, S, cl

\* A node beside what goes is worth what it was.
LEMMA WorthBeside ==
    ASSUME NEW e, IsTree(e), NEW gone \in DOMAIN e, gone # << >>, NEW doc,
           NEW a \in DOMAIN e, ~IsPrefix(gone, a), ~IsPrefix(a, gone)
    PROVE  Worth(WithoutTree(e, gone), doc)[Closed(a, gone)] = Worth(e, doc)[a]
<1> DEFINE left == WithoutTree(e, gone)
           S == Stay(e, gone)
           cl(b) == Closed(b, gone)
           W == Worth(e, doc)
           V == Worth(left, doc)
           beside(b) == b \in DOMAIN e /\ ~IsPrefix(gone, b) /\ ~IsPrefix(b, gone)
           bad == {b \in DOMAIN e : beside(b) /\ V[cl(b)] # W[b]}
<1>1. PICK D \in Nat : \A b \in DOMAIN e : Len(b) <= D
  BY TreeAddress, LengthBound DEF IsTree
<1>2. gone \in Address /\ DOMAIN e \subseteq Address
  BY TreeAddress
<1>3. /\ IsTree(left)
      /\ \A b \in S : cl(b) \in DOMAIN left /\ left[cl(b)] = e[b]
      /\ \A b \in S : Under(left, cl(b)) = {cl(c) : c \in Under(e, b) \cap S}
  BY LeftFact, Zenon
<1>4. \A b \in DOMAIN e : W[b] = NodeWorth(e[b], {W[c] : c \in Under(e, b)}, doc)
  BY WorthFact
<1>5. \A b \in DOMAIN left : V[b] = NodeWorth(left[b], {V[c] : c \in Under(left, b)}, doc)
  <2> HIDE DEF left
  <2>1. QED
    BY <1>3, WorthFact
<1>6. ASSUME NEW b, beside(b), NEW c \in Under(e, b)
      PROVE  beside(c) /\ c \in S /\ Len(c) = Len(b) + 1
  <2>1. c \in DOMAIN e /\ c # << >> /\ Front(c) = b /\ Len(c) = Len(b) + 1
    BY <1>6, TreeAddress
  <2>2. c \in Address /\ b \in Address
    BY <1>2, <1>6, <2>1
  <2>3. \A i \in 1..Len(b) : b[i] = c[i]
    BY <2>1, <2>2, FrontFact
  <2>4. Len(b) \in Nat /\ Len(gone) \in Nat
    BY <1>2, <2>2 DEF Address
  <2>5. ASSUME IsPrefix(c, gone) PROVE FALSE
    <3>1. Len(c) <= Len(gone) /\ \A i \in 1..Len(c) : c[i] = gone[i]
      BY <1>2, <2>2, <2>5, PrefixFact
    <3>2. Len(b) <= Len(gone) /\ \A i \in 1..Len(b) : b[i] = gone[i]
      BY <2>1, <2>3, <2>4, <3>1
    <3>3. QED
      BY <1>2, <1>6, <2>2, <3>2, PrefixFact
  <2>6. ASSUME IsPrefix(gone, c) PROVE FALSE
    <3>1. Len(gone) <= Len(c) /\ \A i \in 1..Len(gone) : gone[i] = c[i]
      BY <1>2, <2>2, <2>6, PrefixFact
    <3>2. CASE Len(gone) = Len(c)
      <4>1. gone = c
        BY <3>1, <3>2, <1>2, <2>2, SameAddress
      <4>2. QED
        BY <4>1, <2>5, <3>1, <3>2, <1>2, <2>2, PrefixFact
    <3>3. CASE Len(gone) # Len(c)
      <4>1. Len(gone) <= Len(b) /\ \A i \in 1..Len(gone) : gone[i] = b[i]
        BY <2>1, <2>3, <2>4, <3>1, <3>3
      <4>2. QED
        BY <1>2, <1>6, <2>2, <4>1, PrefixFact
    <3>4. QED
      BY <3>2, <3>3
  <2>7. QED
    BY <2>1, <2>5, <2>6 DEF Stay
<1>7. \A b : beside(b) => b \in S
  BY DEF Stay
<1> HIDE DEF left, S, cl, W, V, beside
<1>8. SUFFICES bad = {}
  BY DEF beside, left, V, W, cl
<1>9. SUFFICES ASSUME bad # {} PROVE FALSE
  OBVIOUS
<1> DEFINE depths == {D - Len(b) : b \in bad}
<1>10. depths \subseteq Nat /\ depths # {}
  BY <1>1, <1>9, TreeAddress
<1>11. PICK d \in depths : \A k \in depths : d <= k
  BY <1>10, SmallestOf
<1>12. PICK b \in bad : d = D - Len(b)
  BY <1>11
<1>13. b \in DOMAIN e /\ beside(b) /\ V[cl(b)] # W[b] /\ Len(b) \in Nat
  BY <1>12, TreeAddress
<1>14. \A c \in Under(e, b) : V[cl(c)] = W[c]
  <2> SUFFICES ASSUME NEW c \in Under(e, b), V[cl(c)] # W[c] PROVE FALSE
    OBVIOUS
  <2>1. beside(c) /\ Len(c) = Len(b) + 1 /\ c \in DOMAIN e
    BY <1>6, <1>13 DEF beside
  <2>2. c \in bad /\ D - Len(c) < d
    BY <2>1, <1>12, <1>13
  <2>3. D - Len(c) \in depths
    BY <2>2
  <2>4. d <= D - Len(c) /\ d \in Nat /\ D - Len(c) \in Nat
    BY <2>3, <1>10, <1>11
  <2>5. QED
    BY <2>2, <2>4
<1>15. Under(left, cl(b)) = {cl(c) : c \in Under(e, b)}
  BY <1>3, <1>6, <1>7, <1>13
<1>16. {V[c] : c \in Under(left, cl(b))} = {W[c] : c \in Under(e, b)}
  BY <1>14, <1>15
<1>17. V[cl(b)] = W[b]
  BY <1>3, <1>4, <1>5, <1>7, <1>13, <1>16
<1>18. QED
  BY <1>13, <1>17

\* What goes with a node, and that it leaves a brother behind.
LEMMA GoesFact ==
    ASSUME NEW e, IsTree(e), NEW at \in DOMAIN e
    PROVE  LET g == Goes(e, at) IN
           /\ g \in 0..Len(at)
           /\ \A k \in g..(Len(at) - 1) : Cardinality(Under(e, Above(at, k))) = 1
           /\ g > 0 => Cardinality(Under(e, Above(at, g - 1))) # 1
<1> DEFINE alone(n) == Cardinality(Under(e, Above(at, n))) = 1
           fits(n) == /\ \A k \in n..(Len(at) - 1) : alone(k)
                      /\ n > 0 => ~alone(n - 1)
           all == {n \in 0..Len(at) : \A k \in n..(Len(at) - 1) : alone(k)}
<1>1. Len(at) \in Nat
  BY TreeAddress
<1> HIDE DEF alone
<1>2. Len(at) \in all /\ all \subseteq Nat
  BY <1>1
<1>3. PICK g \in all : \A n \in all : g <= n
  BY <1>2, SmallestOf
<1>4. ASSUME g > 0, alone(g - 1) PROVE FALSE
  <2>1. g - 1 \in all
    BY <1>1, <1>3, <1>4
  <2>2. g <= g - 1 /\ g \in Nat
    BY <2>1, <1>3, <1>2
  <2>3. QED
    BY <2>2
<1>5. g \in 0..Len(at) /\ fits(g)
  BY <1>3, <1>4
<1>6. Goes(e, at) = CHOOSE n \in 0..Len(at) : fits(n)
  BY DEF Goes, alone
<1> HIDE DEF fits
<1>7. Goes(e, at) \in 0..Len(at) /\ fits(Goes(e, at))
  BY <1>5, <1>6
<1>8. QED
  BY <1>7 DEF fits, alone

\* A node has the next one above the part for a child.
LEMMA NextUnder ==
    ASSUME NEW e, IsTree(e), NEW at \in DOMAIN e, NEW k \in 0..(Len(at) - 1)
    PROVE  Above(at, k + 1) \in Under(e, Above(at, k))
<1>1. at \in Address /\ Len(at) \in Nat /\ k + 1 \in 0..Len(at) /\ k + 1 > 0 /\ (k + 1) - 1 = k
  BY TreeAddress
<1>2. Above(at, k + 1) \in DOMAIN e
  BY <1>1, AboveInTree
<1>3. Above(at, k + 1) # << >> /\ Front(Above(at, k + 1)) = Above(at, (k + 1) - 1)
  BY <1>1, AboveFact
<1>4. QED
  BY <1>1, <1>2, <1>3 DEF Under

\* One step of Without, up from the part.
RestOf(e, at, doc, n, r) ==
    LET here == Above(at, Len(at) - n)
        others == Under(e, here) \ {Above(at, Len(at) - n + 1)}
        left == r \cup {Worth(e, doc)[a] : a \in others}
    IN IF left = {} THEN {} ELSE {NodeWorth(e[here], left, doc)}

\* The function by which Without goes from the part to the root.
GoesUp(e, at, doc, r) ==
    /\ r \in [0..Len(at) -> SUBSET BOOLEAN] /\ r[0] = {}
    /\ \A n \in 1..Len(at) : r[n] = RestOf(e, at, doc, n, r[n - 1])
    /\ Without(e, at, doc) = r[Len(at)]

\* Without is what that function has at the root.
LEMMA WithoutFact ==
    ASSUME NEW e, IsTree(e), NEW at \in DOMAIN e, NEW doc
    PROVE  \E r : GoesUp(e, at, doc, r)
<1> DEFINE N == Len(at)
           X == SUBSET BOOLEAN
           F == [n \in 1..N |-> [r \in X |-> RestOf(e, at, doc, n, r)]]
           body(f) == [n \in 0..N |->
                         LET here == Above(at, Len(at) - n)
                             others == Under(e, here) \ {Above(at, Len(at) - n + 1)}
                             left == f[n - 1] \cup {Worth(e, doc)[a] : a \in others}
                         IN IF n = 0 \/ left = {} THEN {} ELSE {NodeWorth(e[here], left, doc)}]
<1>1. N \in Nat /\ {} \in X
  BY TreeAddress
<1>2. \A n, r : RestOf(e, at, doc, n, r) \in X
  BY NodeWorthIsBoolean DEF RestOf
<1> HIDE DEF X, N
<1>3. F \in [1..N -> [X -> X]]
  BY <1>2
<1>4. \A n \in 1..N : \A r \in X : F[n][r] = RestOf(e, at, doc, n, r)
  OBVIOUS
<1> HIDE DEF F
<1>5. PICK f \in [0..N -> X] : f[0] = {} /\ \A n \in 1..N : f[n] = F[n][f[n - 1]]
  BY <1>1, <1>3, Iterates
<1>6. \A n \in 1..N : f[n] = RestOf(e, at, doc, n, f[n - 1])
  <2> SUFFICES ASSUME NEW n \in 1..N PROVE f[n] = RestOf(e, at, doc, n, f[n - 1])
    OBVIOUS
  <2>1. f[n - 1] \in X
    BY <1>1, <1>5
  <2>2. QED
    BY <1>4, <1>5, <2>1
<1>7. f = body(f)
  <2>1. \A n \in 0..N : f[n] = body(f)[n]
    <3> SUFFICES ASSUME NEW n \in 0..N PROVE f[n] = body(f)[n]
      OBVIOUS
    <3>1. CASE n = 0
      BY <1>5, <3>1
    <3>2. CASE n # 0
      <4>1. n \in 1..N
        BY <3>2, <1>1
      <4>2. body(f)[n] = RestOf(e, at, doc, n, f[n - 1])
        BY <3>2, Zenon DEF RestOf
      <4>3. QED
        BY <1>6, <4>1, <4>2
    <3>3. QED
      BY <3>1, <3>2
  <2>2. QED
    BY <2>1, <1>5
<1>8. Without(e, at, doc) = (CHOOSE h : h = body(h))[N]
  BY SMTT(60) DEF Without, N
<1> DEFINE w == CHOOSE h : h = body(h)
<1>9. w = body(w)
  BY <1>7
<1> HIDE DEF w
<1>10. w \in [0..N -> X]
  <2>1. \A n \in 0..N : body(w)[n] \in X
    BY NodeWorthIsBoolean DEF X
  <2>2. DOMAIN body(w) = 0..N /\ body(w) = [n \in 0..N |-> body(w)[n]]
    OBVIOUS
  <2> HIDE DEF body
  <2>3. QED
    BY <1>9, <2>1, <2>2
<1>11. w[0] = {}
  <2>1. body(w)[0] = {}
    BY <1>1
  <2>2. QED
    BY <1>9, <2>1
<1>12. \A n \in 1..N : w[n] = RestOf(e, at, doc, n, w[n - 1])
  <2> SUFFICES ASSUME NEW n \in 1..N PROVE w[n] = RestOf(e, at, doc, n, w[n - 1])
    OBVIOUS
  <2>1. n # 0 /\ n \in 0..N
    BY <1>1
  <2>2. body(w)[n] = RestOf(e, at, doc, n, w[n - 1])
    BY <2>1, Zenon DEF RestOf
  <2>3. QED
    BY <1>9, <2>2
<1>13. QED
  BY <1>8, <1>10, <1>11, <1>12 DEF w, N, X, GoesUp

\* What an expression is worth without a part is what the tree left is worth.
LEMMA RemovalFact ==
    ASSUME NEW e, IsTree(e), NEW at \in DOMAIN e, NEW doc
    PROVE  /\ \A tree \in RemoveExprAt(e, at) :
                 IsTree(tree) /\ Without(e, at, doc) = {EvaluateExpr(tree, doc)}
           /\ RemoveExprAt(e, at) = {} => Without(e, at, doc) = {}
           /\ RemoveExprAt(e, at) = {} \/ \E tree : RemoveExprAt(e, at) = {tree}
           /\ \A tree \in RemoveExprAt(e, at) : EvaluateExpr(tree, doc) \in BOOLEAN
<1>1. at \in Address /\ Len(at) \in Nat /\ DOMAIN e \subseteq Address /\ IsFiniteSet(DOMAIN e)
  BY TreeAddress DEF IsTree
<1>2. /\ Goes(e, at) \in 0..Len(at)
      /\ \A k \in Goes(e, at)..(Len(at) - 1) : Cardinality(Under(e, Above(at, k))) = 1
      /\ Goes(e, at) > 0 => Cardinality(Under(e, Above(at, Goes(e, at) - 1))) # 1
  BY GoesFact
<1>3. RemoveExprAt(e, at) = IF Above(at, Goes(e, at)) = << >> THEN {}
                            ELSE {WithoutTree(e, Above(at, Goes(e, at)))}
  BY DEF RemoveExprAt, WithoutTree, Stay
<1>4. PICK r : GoesUp(e, at, doc, r)
  BY WithoutFact
<1> DEFINE N == Len(at)
           g == Goes(e, at)
           gone == Above(at, g)
           left == WithoutTree(e, gone)
           W == Worth(e, doc)
           V == Worth(left, doc)
<1>0. /\ r \in [0..N -> SUBSET BOOLEAN] /\ r[0] = {}
      /\ \A n \in 1..N : r[n] = RestOf(e, at, doc, n, r[n - 1])
      /\ Without(e, at, doc) = r[N]
  BY <1>4 DEF GoesUp
<1>13. at \in Address /\ N \in Nat /\ DOMAIN e \subseteq Address /\ IsFiniteSet(DOMAIN e)
  BY <1>1
<1>14. /\ g \in 0..N
       /\ \A k \in g..(N - 1) : Cardinality(Under(e, Above(at, k))) = 1
       /\ g > 0 => Cardinality(Under(e, Above(at, g - 1))) # 1
  BY <1>2
<1>15. RemoveExprAt(e, at) = IF gone = << >> THEN {} ELSE {left}
  BY <1>3
<1> HIDE DEF N, g
<1>5. gone \in DOMAIN e /\ gone \in Address /\ Len(gone) = g /\ (gone = << >> <=> g = 0)
      /\ \A i \in 1..g : gone[i] = at[i]
  BY <1>13, <1>14, AboveFact, AboveInTree DEF N
<1>6. \A k \in 0..N : /\ Above(at, k) \in DOMAIN e /\ Above(at, k) \in Address
                      /\ Len(Above(at, k)) = k /\ \A i \in 1..k : Above(at, k)[i] = at[i]
  BY <1>13, AboveFact, AboveInTree DEF N
<1>7. \A k \in 0..(N - 1) : Above(at, k + 1) \in Under(e, Above(at, k))
  BY NextUnder DEF N
<1>8. \A k \in 0..N : IsFiniteSet(Under(e, Above(at, k)))
  <2> SUFFICES ASSUME NEW k \in 0..N PROVE IsFiniteSet(Under(e, Above(at, k)))
    OBVIOUS
  <2>1. Under(e, Above(at, k)) \in SUBSET DOMAIN e
    BY DEF Under
  <2>2. QED
    BY <1>13, <2>1, FS_Subset
<1> HIDE DEF gone
\* Up to what goes there is nothing beside the part.
<1>9. \A n \in 0..(N - g) : r[n] = {}
  <2> DEFINE bad == {n \in 0..(N - g) : r[n] # {}}
  <2> SUFFICES ASSUME bad # {} PROVE FALSE
    OBVIOUS
  <2> bad \subseteq Nat
    OBVIOUS
  <2>1. PICK n \in bad : \A m \in bad : n <= m
    BY SmallestOf
  <2>2. n # 0 /\ n \in 1..(N - g) /\ n \in 1..N
    BY <1>13, <1>14, <1>0, <2>1
  <2>3. n - 1 \in 0..(N - g) /\ n - 1 \notin bad
    BY <1>13, <1>14, <2>1, <2>2
  <2>4. r[n - 1] = {}
    BY <2>3
  <2>5. N - n \in g..(N - 1) /\ N - n \in 0..(N - 1) /\ N - n \in 0..N
    BY <1>13, <1>14, <2>2
  <2> DEFINE k == N - n
  <2>6. Cardinality(Under(e, Above(at, k))) = 1 /\ IsFiniteSet(Under(e, Above(at, k)))
    BY <1>14, <1>8, <2>5
  <2>7. PICK x : Under(e, Above(at, k)) = {x}
    BY <2>6, FS_Singleton
  <2>8. Above(at, k + 1) \in Under(e, Above(at, k))
    BY <1>7, <2>5
  <2>9. Under(e, Above(at, k)) \ {Above(at, k + 1)} = {}
    BY <2>7, <2>8
  <2>10. RestOf(e, at, doc, n, {}) = {}
    BY <2>9 DEF RestOf, N
  <2>11. r[n] = {}
    BY <1>0, <2>2, <2>4, <2>10
  <2>12. QED
    BY <2>1, <2>11
<1>10. CASE g = 0
  <2>1. RemoveExprAt(e, at) = {}
    BY <1>15, <1>5, <1>10
  <2>2. N \in 0..(N - g)
    BY <1>13, <1>10
  <2>3. Without(e, at, doc) = {}
    BY <1>0, <1>9, <2>2
  <2>4. QED
    BY <2>1, <2>3
<1>11. CASE g # 0
  <2>1. RemoveExprAt(e, at) = {left}
    BY <1>15, <1>5, <1>11
  <2>2. gone # << >> /\ g > 0 /\ g \in Nat
    BY <1>14, <1>5, <1>11
  <2>3. /\ IsTree(left) /\ << >> \in Stay(e, gone) /\ Closed(<< >>, gone) = << >>
        /\ \A a \in Stay(e, gone) : /\ Closed(a, gone) \in DOMAIN left
                                    /\ left[Closed(a, gone)] = e[a]
        /\ \A a \in Stay(e, gone) :
              Under(left, Closed(a, gone)) =
                 {Closed(b, gone) : b \in Under(e, a) \cap Stay(e, gone)}
    BY <1>5, <2>2, LeftFact, Zenon
  <2> HIDE DEF left
  <2>4. /\ V \in [DOMAIN left -> BOOLEAN]
        /\ \A b \in DOMAIN left : V[b] = NodeWorth(left[b], {V[c] : c \in Under(left, b)}, doc)
    BY <2>3, WorthFact
  <2>5. ASSUME NEW a \in DOMAIN e, ~IsPrefix(gone, a), ~IsPrefix(a, gone)
        PROVE  V[Closed(a, gone)] = W[a]
    BY <2>5, <1>5, <2>2, WorthBeside DEF left
  <2> HIDE DEF V, W
  <2>6. \A k \in 0..(g - 1) : /\ Above(at, k) \in Stay(e, gone) /\ k \in 0..N
                              /\ Closed(Above(at, k), gone) = Above(at, k)
    <3> SUFFICES ASSUME NEW k \in 0..(g - 1)
                 PROVE  /\ Above(at, k) \in Stay(e, gone) /\ k \in 0..N
                        /\ Closed(Above(at, k), gone) = Above(at, k)
      OBVIOUS
    <3>1. k \in 0..N /\ k < g
      BY <1>13, <1>14, <2>2
    <3>2. Above(at, k) \in DOMAIN e /\ Above(at, k) \in Address /\ Len(Above(at, k)) = k
      BY <1>6, <3>1
    <3>3. ~IsPrefix(gone, Above(at, k))
      BY <1>5, <3>1, <3>2, <2>2, PrefixFact
    <3>4. QED
      BY <3>1, <3>2, <3>3, <1>5, <2>2, ClosedAbove DEF Stay
  <2>7. ASSUME NEW k \in 0..(g - 1)
        PROVE  LET here == Above(at, k)
                   others == Under(e, here) \ {Above(at, k + 1)}
               IN /\ \A a \in others : a \in Stay(e, gone) /\ V[Closed(a, gone)] = W[a]
                  /\ left[here] = e[here] /\ here \in DOMAIN left
                  /\ Under(left, here) =
                        {Closed(a, gone) : a \in others}
                           \cup (IF k = g - 1 THEN {} ELSE {Above(at, k + 1)})
    <3> DEFINE here == Above(at, k)
               next1 == Above(at, k + 1)
               others == Under(e, here) \ {next1}
    <3>1. k \in 0..N /\ k + 1 \in 0..N /\ k \in 0..(N - 1)
      BY <1>13, <1>14, <2>2
    <3>2. here \in Stay(e, gone) /\ Closed(here, gone) = here
      BY <2>6
    <3>3. left[here] = e[here] /\ here \in DOMAIN left
      BY <2>3, <3>2
    <3>4. here \in DOMAIN e /\ here \in Address /\ Len(here) = k
      BY <1>6, <3>1
    <3>5. /\ next1 \in Address /\ Len(next1) = k + 1 /\ next1 \in Under(e, here)
          /\ \A i \in 1..(k + 1) : next1[i] = at[i]
      BY <1>6, <1>7, <3>1
    <3> HIDE DEF here, next1
    <3>6. ASSUME NEW a \in others PROVE ~IsPrefix(gone, a) /\ ~IsPrefix(a, gone)
      <4>1. a \in DOMAIN e /\ a # << >> /\ Front(a) = here /\ Len(a) = k + 1 /\ a # next1
        BY <3>4, TreeAddress
      <4>2. a \in Address /\ k + 1 \in 1..g
        BY <1>13, <4>1, <2>2
      <4>3. ~(\A i \in 1..(k + 1) : a[i] = next1[i])
        BY <4>1, <4>2, <3>5, SameAddress
      <4>4. ~(\A i \in 1..(k + 1) : a[i] = gone[i])
        BY <4>2, <4>3, <3>5, <1>5
      <4>5. ~IsPrefix(a, gone)
        BY <4>1, <4>2, <4>4, <1>5, PrefixFact
      <4>6. ~IsPrefix(gone, a)
        <5>1. ASSUME IsPrefix(gone, a) PROVE FALSE
          <6>1. g <= k + 1 /\ \A i \in 1..g : gone[i] = a[i]
            BY <5>1, <4>1, <4>2, <1>5, PrefixFact
          <6>2. \A i \in 1..(k + 1) : gone[i] = a[i]
            BY <4>2, <6>1, <2>2
          <6>3. QED
            BY <6>2, <4>4
        <5>2. QED
          BY <5>1
      <4>7. QED
        BY <4>5, <4>6
    <3>7. \A a \in others : a \in DOMAIN e /\ a \in Stay(e, gone) /\ V[Closed(a, gone)] = W[a]
      BY <3>6, <2>5 DEF Stay, Under
    <3>8. Under(left, here) = {Closed(a, gone) : a \in Under(e, here) \cap Stay(e, gone)}
      BY <2>3, <3>2
    <3>9. CASE k = g - 1
      <4>5. /\ next1 \in Address /\ gone \in Address /\ Len(next1) = Len(gone)
            /\ \A i \in 1..Len(next1) : next1[i] = gone[i]
        BY <1>5, <3>5, <3>9, <2>2
      <4>1. next1 = gone
        BY <4>5, SameAddress
      <4>2. next1 \notin Stay(e, gone)
        <5>1. IsPrefix(gone, gone)
          BY <1>5, <2>2, PrefixFact
        <5>2. QED
          BY <4>1, <5>1 DEF Stay
      <4>3. Under(e, here) \cap Stay(e, gone) = others
        BY <3>7, <4>2
      <4>4. QED
        BY <3>3, <3>7, <3>8, <3>9, <4>3 DEF here, next1
    <3>10. CASE k # g - 1
      <4>1. k + 1 \in 0..(g - 1)
        BY <3>10, <2>2
      <4>2. next1 \in Stay(e, gone) /\ Closed(next1, gone) = next1
        BY <2>6, <4>1 DEF next1
      <4>3. Under(e, here) \cap Stay(e, gone) = others \cup {next1}
        BY <3>5, <3>7, <4>2
      <4>4. Under(left, here) = {Closed(a, gone) : a \in others} \cup {next1}
        BY <3>8, <4>2, <4>3
      <4>5. QED
        BY <3>3, <3>7, <3>10, <4>4 DEF here, next1
    <3>11. QED
      BY <3>9, <3>10
  \* Above what goes the rest is worth what the tree left is.
  <2>8. \A n \in (N - g + 1)..N : r[n] = {V[Above(at, N - n)]}
    <3> DEFINE bad == {n \in (N - g + 1)..N : r[n] # {V[Above(at, N - n)]}}
    <3> SUFFICES ASSUME bad # {} PROVE FALSE
      OBVIOUS
    <3> bad \subseteq Nat
      BY <1>13, <1>14
    <3>1. PICK n \in bad : \A m \in bad : n <= m
      BY SmallestOf
    <3> DEFINE k == N - n
               here == Above(at, k)
               others == Under(e, here) \ {Above(at, k + 1)}
               rest == r[n - 1] \cup {W[a] : a \in others}
    <3>2. n \in 1..N /\ k \in 0..(g - 1) /\ k \in 0..N /\ k = N - n
      BY <1>13, <1>14, <3>1
    <3>3. r[n] = IF rest = {} THEN {} ELSE {NodeWorth(e[here], rest, doc)}
      BY <1>0, <3>2 DEF RestOf, W, N
    <3>4. /\ \A a \in others : a \in Stay(e, gone) /\ V[Closed(a, gone)] = W[a]
          /\ left[here] = e[here] /\ here \in DOMAIN left
          /\ Under(left, here) = {Closed(a, gone) : a \in others}
                                    \cup (IF k = g - 1 THEN {} ELSE {Above(at, k + 1)})
      BY <2>7, <3>2, Zenon
    <3>5. V[here] = NodeWorth(e[here], {V[c] : c \in Under(left, here)}, doc)
      BY <2>4, <3>4
    <3> HIDE DEF others, here, k
    <3>6. rest # {} /\ rest = {V[c] : c \in Under(left, here)}
      <4>1. CASE k = g - 1
        <5>1. n - 1 = N - g /\ n - 1 \in 0..(N - g)
          BY <4>1, <3>2, <1>13, <1>14
        <5>2. r[n - 1] = {}
          BY <5>1, <1>9
        <5>3. Cardinality(Under(e, here)) # 1
          BY <4>1, <1>14, <2>2 DEF here
        <5>4. Above(at, k + 1) \in Under(e, here)
          <6>1. k \in 0..(N - 1)
            BY <3>2, <1>13, <1>14
          <6>2. QED
            BY <6>1, <1>7 DEF here
        <5>5. others # {}
          <6>1. ASSUME others = {} PROVE FALSE
            <7>1. Under(e, here) = {Above(at, k + 1)}
              BY <5>4, <6>1 DEF others
            <7>2. QED
              BY <7>1, <5>3, FS_Singleton
          <6>2. QED
            BY <6>1
        <5>6. Under(left, here) = {Closed(a, gone) : a \in others}
          BY <3>4, <4>1
        <5>7. {V[c] : c \in Under(left, here)} = {W[a] : a \in others}
          BY <5>6, <3>4
        <5>8. rest = {W[a] : a \in others}
          BY <5>2
        <5>9. {W[a] : a \in others} # {}
          BY <5>5
        <5>10. QED
          BY <5>7, <5>8, <5>9
      <4>2. CASE k # g - 1
        <5>1. n - 1 \in (N - g + 1)..N /\ n - 1 \notin bad /\ N - (n - 1) = k + 1
          BY <4>2, <3>1, <3>2, <1>13, <1>14
        <5>2. r[n - 1] = {V[Above(at, k + 1)]}
          BY <5>1
        <5>3. Under(left, here) = {Closed(a, gone) : a \in others} \cup {Above(at, k + 1)}
          BY <3>4, <4>2
        <5>4. {V[c] : c \in Under(left, here)} = {W[a] : a \in others} \cup {V[Above(at, k + 1)]}
          BY <5>3, <3>4
        <5>5. QED
          BY <5>2, <5>4
      <4>3. QED
        BY <4>1, <4>2
    <3>7. r[n] = {V[here]}
      BY <3>3, <3>5, <3>6
    <3>8. QED
      BY <3>1, <3>7 DEF here, k
  <2>9. N \in (N - g + 1)..N /\ N - N = 0 /\ 0 \in 0..N
    BY <1>13, <1>14, <2>2
  <2>10. Above(at, 0) = << >>
    BY <1>13, AboveFact DEF N
  <2>11. r[N] = {V[<< >>]}
    BY <2>8, <2>9, <2>10
  <2>12. V[<< >>] \in BOOLEAN
    BY <2>3, <2>4
  <2>13. Without(e, at, doc) = {EvaluateExpr(left, doc)} /\ EvaluateExpr(left, doc) \in BOOLEAN
    BY <1>0, <2>11, <2>12 DEF EvaluateExpr, V
  <2>14. QED
    BY <2>1, <2>3, <2>13
<1>12. QED
  BY <1>10, <1>11

-----------------------------------------------------------------------------
(* PolicyBuilder: the invariant.  A card is owed what the rule it came from*)
(* said; where that is kept (rule, inputs or stash) depends on what was checked*)
(* and read since.                                                         *)

\* The shape of a card.
CardTyped(c) ==
    /\ c = [rule |-> c.rule, form |-> c.form, stash |-> c.stash,
            origin |-> c.origin, touched |-> c.touched]
    /\ RuleTyped(c.rule)
    /\ c.form = [fields |-> c.form.fields, checked |-> c.form.checked,
                 params |-> c.form.params]
    /\ DOMAIN c.form.fields = Fields
    /\ c.form.fields["effect"] \in {"allow", "deny"}
    /\ c.form.fields["min_assurance_level"] \in Levels \cup {Blank}
    /\ c.form.checked \subseteq Known
    /\ DOMAIN c.form.params \subseteq Known
    /\ \A t \in DOMAIN c.form.params : c.form.params[t] \in TypedParams
    /\ DOMAIN c.stash = Known
    /\ \A t \in Known : c.stash[t] \in Seq(PolicyObligation) /\ Types(c.stash[t]) \subseteq {t}

ListOf(rule) == Part(rule, "obligations")
Foreign == OtherTypes \ Known

\* What a rule owes of an obligation type if it is checked.
Due(was, t) == IF OfType(ListOf(was), t) = << >> THEN <<[type |-> t, params |-> Blank]>>
               ELSE OfType(ListOf(was), t)

\* The same list, but for the parameters of its first entry, which were touched.
SameBut(list, due, touched) ==
    /\ Len(list) = Len(due)
    /\ \A k \in DOMAIN due : list[k] = due[k] \/ (k = 1 /\ touched)

\* A field that comes through the form is in the rule as it was, and its input
\* shows it or cannot be read.
FieldKept(c, was, f) ==
    (\A value \in FieldOf(was, f) : PassesForm(f, value)) =>
       /\ FieldOf(c.rule, f) = FieldOf(was, f)
       /\ \/ c.form.fields[f] = Shown(was, f)
          \/ f \notin Plain /\ c.form.fields[f] = Bad

\* The entries of a type are in the rule or in the stash, not in both, and the
\* input for their parameters has those of the first or cannot be read.
OwedKept(c, was, t) ==
    LET list == OfType(ListOf(c.rule), t) IN
    /\ c.stash[t] = << >> \/ list = << >>
    /\ \/ c.stash[t] = << >> /\ list = << >> /\ OfType(ListOf(was), t) = << >>
       \/ SameBut(c.stash[t] \o list, Due(was, t), t \in c.touched)
    /\ t \in DOMAIN c.form.params =>
          \/ c.form.params[t] \in {Bad, Due(was, t)[1].params}
          \/ t \in c.touched

\* What a card keeps of the rule it came from.
CardKept(c, was) ==
    /\ RuleTyped(was)
    /\ SchemaRule(was) =>
          /\ \A f \in Fields \ c.touched : FieldKept(c, was, f)
          /\ "when" \notin c.touched => Part(c.rule, "when") = Part(was, "when")
          /\ OfTypes(ListOf(c.rule), Foreign) = OfTypes(ListOf(was), Foreign)
          /\ \A t \in Known : OwedKept(c, was, t)

CardInv(c) == CardTyped(c) /\ \A was \in c.origin : CardKept(c, was)

\* The rule of a card has no key that the server does not know.
CardStrict(c) ==
    /\ DOMAIN c.rule \subseteq {"id", "effect", "action", "description", "when", "obligations"}
                                  \cup DOMAIN Sections
    /\ \A s \in DOMAIN Sections \cap DOMAIN c.rule : DOMAIN c.rule[s] \subseteq Sections[s]
    /\ "when" \in DOMAIN c.rule =>
          \A at \in DOMAIN c.rule.when :
             c.rule.when[at].keys \in {{"all"}, {"any"}, {"not"}, {"match"}}

\* What holds of each card; strict is whether the server takes the policy loaded.
CardSafe(c, strict) == CardInv(c) /\ (strict => CardStrict(c))

AllSafe(list, strict) ==
    list \in Seq(Range(list)) /\ \A i \in DOMAIN list : CardSafe(list[i], strict)

BuilderInv ==
    /\ text = Unparsable \/ PolicyTyped(text)
    /\ mode = "visual" => /\ AllSafe(cards, SchemaPolicy(loaded))
                          /\ SchemaPolicy(loaded) => DOMAIN extra = {"version"}

-----------------------------------------------------------------------------
(* PolicyBuilder: lists of obligations, and what of them is rebuilt.       *)

\* What holds of the empty list and of a list with one more element holds of all.
LEMMA ListInduction ==
    ASSUME NEW S, NEW P, << >> \in P, \A s \in P \cap Seq(S) : \A x \in S : Append(s, x) \in P
    PROVE  Seq(S) \subseteq P
<1> DEFINE bad == {n \in Nat : \E s \in Seq(S) \ P : Len(s) = n}
<1> SUFFICES ASSUME NEW s0 \in Seq(S), s0 \notin P PROVE FALSE
  OBVIOUS
<1>1. Len(s0) \in bad
  BY EmptySeq, LenProperties
<1>2. PICK n \in bad : \A m \in bad : n <= m
  BY <1>1, SmallestOf
<1>3. PICK s \in Seq(S) \ P : Len(s) = n
  BY <1>2
<1>4. s # << >>
  BY <1>3
<1>5. PICK f \in Seq(S), x \in S : s = Append(f, x)
  BY <1>3, <1>4, SequenceEmptyOrAppend
<1>6. Len(f) \in Nat /\ n = Len(f) + 1
  BY <1>3, <1>5, AppendProperties, LenProperties
<1>7. f \in P
  BY <1>2, <1>6
<1>8. QED
  BY <1>3, <1>5, <1>7

\* The function by which OfTypes goes through a list.
OfTypesBy(list, types, w) ==
    /\ w \in [0..Len(list) -> Seq(PolicyObligation)] /\ w[0] = << >>
    /\ \A n \in 1..Len(list) :
          w[n] = IF list[n].type \in types THEN Append(w[n - 1], list[n]) ELSE w[n - 1]
    /\ OfTypes(list, types) = w[Len(list)]

\* OfTypes is what that function has at the end, and keeps entries of these types only.
LEMMA OfTypesFact ==
    ASSUME NEW s \in Seq(PolicyObligation), NEW T
    PROVE  \E w : OfTypesBy(s, T, w)
<1> DEFINE N == Len(s)
           X == Seq(PolicyObligation)
           F == [n \in 1..N |-> [v \in X |-> IF s[n].type \in T THEN Append(v, s[n]) ELSE v]]
           body(f) == [n \in 0..N |->
                         IF n = 0 THEN << >>
                         ELSE IF s[n].type \in T THEN Append(f[n - 1], s[n]) ELSE f[n - 1]]
<1>1. N \in Nat /\ << >> \in X /\ \A n \in 1..N : s[n] \in PolicyObligation
  BY LenProperties, EmptySeq, ElementOfSeq
<1>2. \A v \in X, n \in 1..N : (IF s[n].type \in T THEN Append(v, s[n]) ELSE v) \in X
  BY <1>1, AppendProperties
<1> HIDE DEF X
<1>3. F \in [1..N -> [X -> X]]
  BY <1>2
<1>4. \A n \in 1..N : \A v \in X : F[n][v] = IF s[n].type \in T THEN Append(v, s[n]) ELSE v
  OBVIOUS
<1> HIDE DEF F, N
<1>5. PICK f \in [0..N -> X] : f[0] = << >> /\ \A n \in 1..N : f[n] = F[n][f[n - 1]]
  <2> DEFINE x0 == << >>
  <2>1. x0 \in X
    BY <1>1
  <2>a. N \in Nat
    BY <1>1
  <2> HIDE DEF x0
  <2>2. \E f \in [0..N -> X] : f[0] = x0 /\ \A n \in 1..N : f[n] = F[n][f[n - 1]]
    BY <2>a, <1>3, <2>1, Iterates
  <2>3. QED
    BY <2>2 DEF x0
<1>6. \A n \in 1..N : f[n - 1] \in X
  BY <1>1, <1>5
<1>7. f = body(f)
  <2>1. \A n \in 0..N : f[n] = body(f)[n]
    <3> SUFFICES ASSUME NEW n \in 0..N PROVE f[n] = body(f)[n]
      OBVIOUS
    <3>1. CASE n = 0
      BY <1>5, <3>1
    <3>2. CASE n # 0
      <4>1. n \in 1..N
        BY <3>2, <1>1
      <4>2. f[n] = IF s[n].type \in T THEN Append(f[n - 1], s[n]) ELSE f[n - 1]
        BY <4>1, <1>4, <1>5, <1>6
      <4>3. body(f)[n] = IF s[n].type \in T THEN Append(f[n - 1], s[n]) ELSE f[n - 1]
        BY <3>2, Zenon
      <4>4. QED
        BY <4>2, <4>3
    <3>3. QED
      BY <3>1, <3>2
  <2>2. QED
    BY <2>1, <1>5
<1>8. OfTypes(s, T) = (CHOOSE h : h = body(h))[N]
  BY DEF OfTypes, N
<1> DEFINE w == CHOOSE h : h = body(h)
<1>9. w = body(w)
  BY <1>7
<1> HIDE DEF w
<1>10. w[0] = << >>
  <2>1. body(w)[0] = << >>
    BY <1>1
  <2>2. QED
    BY <1>9, <2>1
<1>11. \A n \in 1..N : w[n] = IF s[n].type \in T THEN Append(w[n - 1], s[n]) ELSE w[n - 1]
  <2> SUFFICES ASSUME NEW n \in 1..N
               PROVE w[n] = IF s[n].type \in T THEN Append(w[n - 1], s[n]) ELSE w[n - 1]
    OBVIOUS
  <2>1. n # 0 /\ n \in 0..N
    BY <1>1
  <2>2. body(w)[n] = IF s[n].type \in T THEN Append(w[n - 1], s[n]) ELSE w[n - 1]
    BY <2>1, Zenon
  <2>3. QED
    BY <1>9, <2>2
<1>12. DOMAIN w = 0..N /\ w = [n \in 0..N |-> w[n]]
  <2>1. DOMAIN body(w) = 0..N /\ body(w) = [n \in 0..N |-> body(w)[n]]
    OBVIOUS
  <2> HIDE DEF body
  <2>2. QED
    BY <1>9, <2>1
<1> HIDE DEF body
<1>13. \A n \in 0..N : w[n] \in X
  <2> DEFINE bad == {n \in 0..N : w[n] \notin X}
  <2> SUFFICES ASSUME bad # {} PROVE FALSE
    OBVIOUS
  <2> bad \subseteq Nat
    OBVIOUS
  <2>1. PICK n \in bad : \A m \in bad : n <= m
    BY SmallestOf
  <2>2. n # 0 /\ n \in 1..N
    BY <1>1, <1>10, <2>1
  <2>3. n - 1 \in 0..N /\ n - 1 \notin bad
    BY <1>1, <2>1, <2>2
  <2>4. w[n] \in X
    BY <1>2, <1>11, <2>2, <2>3
  <2>5. QED
    BY <2>1, <2>4
<1>14. w \in [0..N -> X]
  BY <1>12, <1>13
<1>15. QED
  BY <1>8, <1>10, <1>11, <1>14 DEF w, N, X, OfTypesBy

\* OfTypes of a list with one entry more.
LEMMA OfTypesAppend ==
    ASSUME NEW s \in Seq(PolicyObligation), NEW x \in PolicyObligation, NEW T
    PROVE  /\ OfTypes(<< >>, T) = << >>
           /\ OfTypes(s, T) \in Seq(PolicyObligation)
           /\ OfTypes(Append(s, x), T) =
                 IF x.type \in T THEN Append(OfTypes(s, T), x) ELSE OfTypes(s, T)
<1>1. OfTypes(<< >>, T) = << >>
  <2>1. << >> \in Seq(PolicyObligation) /\ Len(<< >>) = 0
    BY EmptySeq
  <2>2. PICK w : OfTypesBy(<< >>, T, w)
    BY <2>1, OfTypesFact
  <2>3. QED
    BY <2>1, <2>2 DEF OfTypesBy
<1>2. PICK w : OfTypesBy(s, T, w)
  BY OfTypesFact
<1> DEFINE r == Append(s, x)
           N == Len(s)
<1>3. /\ r \in Seq(PolicyObligation) /\ Len(r) = N + 1 /\ N \in Nat
      /\ \A i \in 1..N : r[i] = s[i]
      /\ r[N + 1] = x
  BY AppendProperties, LenProperties
<1> HIDE DEF r
<1>4. PICK v : OfTypesBy(r, T, v)
  BY <1>3, OfTypesFact
<1>5. \A n \in 0..N : v[n] = w[n]
  <2> DEFINE bad == {n \in 0..N : v[n] # w[n]}
  <2> SUFFICES ASSUME bad # {} PROVE FALSE
    OBVIOUS
  <2> bad \subseteq Nat
    OBVIOUS
  <2>1. PICK n \in bad : \A m \in bad : n <= m
    BY SmallestOf
  <2>2. n # 0 /\ n \in 1..N
    BY <1>2, <1>3, <1>4, <2>1 DEF OfTypesBy
  <2>3. n - 1 \in 0..N /\ n - 1 \notin bad
    BY <1>3, <2>1, <2>2
  <2>4. v[n - 1] = w[n - 1] /\ r[n] = s[n] /\ n \in 1..Len(r)
    BY <1>3, <2>2, <2>3
  <2>5. w[n] = IF s[n].type \in T THEN Append(w[n - 1], s[n]) ELSE w[n - 1]
    BY <1>2, <2>2 DEF OfTypesBy
  <2>6. v[n] = IF r[n].type \in T THEN Append(v[n - 1], r[n]) ELSE v[n - 1]
    BY <1>4, <2>4 DEF OfTypesBy
  <2>7. QED
    BY <2>1, <2>4, <2>5, <2>6
<1>6. v[N] = OfTypes(s, T) /\ OfTypes(s, T) \in Seq(PolicyObligation)
  BY <1>2, <1>3, <1>5 DEF OfTypesBy
<1>7. OfTypes(r, T) = v[N + 1] /\ N + 1 \in 1..Len(r) /\ (N + 1) - 1 = N
  BY <1>3, <1>4 DEF OfTypesBy
<1>8. v[N + 1] = IF x.type \in T THEN Append(v[N], x) ELSE v[N]
  BY <1>3, <1>4, <1>7 DEF OfTypesBy
<1>9. QED
  BY <1>1, <1>6, <1>7, <1>8 DEF r

\* A list with one entry more, if it is of one of some types.
Longer(list, x, types) == IF x.type \in types THEN Append(list, x) ELSE list

\* The same, of a list that is not empty.
LEMMA OfTypesNext ==
    ASSUME NEW s \in Seq(PolicyObligation), NEW x \in PolicyObligation, NEW T
    PROVE  OfTypes(Append(s, x), T) = Longer(OfTypes(s, T), x, T)
BY OfTypesAppend DEF Longer

\* The types of a list with one entry more.
LEMMA TypesAppend ==
    ASSUME NEW s \in Seq(PolicyObligation), NEW x \in PolicyObligation
    PROVE  /\ Types(<< >>) = {}
           /\ Types(Append(s, x)) = Types(s) \cup {x.type}
           /\ Types(s) = {} <=> s = << >>
<1>1. /\ Len(s) \in Nat /\ DOMAIN s = 1..Len(s)
      /\ Append(s, x) \in Seq(PolicyObligation) /\ Len(Append(s, x)) = Len(s) + 1
      /\ \A i \in 1..Len(s) : Append(s, x)[i] = s[i]
      /\ Append(s, x)[Len(s) + 1] = x
  BY AppendProperties, LenProperties
<1>2. DOMAIN Append(s, x) = 1..(Len(s) + 1)
  BY <1>1, LenProperties
<1>3. 1..(Len(s) + 1) = (1..Len(s)) \cup {Len(s) + 1}
  BY <1>1
<1>4. Types(Append(s, x)) = Types(s) \cup {x.type}
  BY <1>1, <1>2, <1>3 DEF Types
<1>5. Types(<< >>) = {}
  BY DEF Types
<1>6. s # << >> => 1 \in DOMAIN s
  BY <1>1, EmptySeq
<1>7. QED
  BY <1>4, <1>5, <1>6 DEF Types

\* The empty list.
LEMMA EmptyFact ==
    ASSUME NEW A
    PROVE  << >> \in Seq(PolicyObligation) /\ OfTypes(<< >>, A) = << >> /\ Types(<< >>) = {}
<1>1. << >> \in Seq(PolicyObligation) /\ Len(<< >>) = 0
  BY EmptySeq
<1>2. PICK w : OfTypesBy(<< >>, A, w)
  BY <1>1, OfTypesFact
<1>3. QED
  BY <1>1, <1>2 DEF OfTypesBy, Types

\* The types that are kept.
LEMMA OfTypesTypes ==
    ASSUME NEW s \in Seq(PolicyObligation), NEW A
    PROVE  Types(OfTypes(s, A)) = Types(s) \cap A
<1> DEFINE P == {u \in Seq(PolicyObligation) : Types(OfTypes(u, A)) = Types(u) \cap A}
<1>1. << >> \in P
  BY EmptyFact
<1>2. ASSUME NEW u \in P \cap Seq(PolicyObligation), NEW x \in PolicyObligation
      PROVE  Append(u, x) \in P
  <2>0. u \in Seq(PolicyObligation) /\ Types(OfTypes(u, A)) = Types(u) \cap A
    OBVIOUS
  <2> HIDE DEF P
  <2>1. /\ OfTypes(u, A) \in Seq(PolicyObligation)
        /\ OfTypes(Append(u, x), A) =
              IF x.type \in A THEN Append(OfTypes(u, A), x) ELSE OfTypes(u, A)
    <3>1. OfTypes(u, A) \in Seq(PolicyObligation)
      BY <2>0, OfTypesAppend
    <3>2. OfTypes(Append(u, x), A) = Longer(OfTypes(u, A), x, A)
      BY <2>0, OfTypesNext, Zenon
    <3>3. QED
      BY <3>1, <3>2 DEF Longer
  <2>2. Types(Append(u, x)) = Types(u) \cup {x.type}
    BY <2>0, TypesAppend
  <2>3. Types(Append(OfTypes(u, A), x)) = Types(OfTypes(u, A)) \cup {x.type}
    BY <2>0, <2>1, TypesAppend
  <2>4. Types(OfTypes(Append(u, x), A)) = Types(Append(u, x)) \cap A
    BY <2>0, <2>1, <2>2, <2>3
  <2>5. QED
    BY <2>4, <2>0, AppendProperties DEF P
<1> HIDE DEF P
<1>3. Seq(PolicyObligation) \subseteq P
  BY <1>1, <1>2, ListInduction
<1>4. QED
  BY <1>3 DEF P

\* To pick twice is to pick by both.
LEMMA OfTypesTwice ==
    ASSUME NEW s \in Seq(PolicyObligation), NEW A, NEW B
    PROVE  OfTypes(OfTypes(s, A), B) = OfTypes(s, A \cap B)
<1> DEFINE P == {u \in Seq(PolicyObligation) : OfTypes(OfTypes(u, A), B) = OfTypes(u, A \cap B)}
<1>1. << >> \in P
  BY EmptyFact
<1>2. ASSUME NEW u \in P \cap Seq(PolicyObligation), NEW x \in PolicyObligation
      PROVE  Append(u, x) \in P
  <2>0. u \in Seq(PolicyObligation) /\ OfTypes(OfTypes(u, A), B) = OfTypes(u, A \cap B)
    OBVIOUS
  <2> HIDE DEF P
  <2> DEFINE uA == OfTypes(u, A)
  <2>8. uA \in Seq(PolicyObligation)
    BY <2>0, OfTypesAppend
  <2>1. OfTypes(Append(u, x), A) = IF x.type \in A THEN Append(uA, x) ELSE uA
    <3>1. OfTypes(Append(u, x), A) = Longer(uA, x, A)
      BY <2>0, OfTypesNext, Zenon
    <3>2. QED
      BY <3>1 DEF Longer
  <2> HIDE DEF uA
  <2> DEFINE AB == A \cap B
  <2> HIDE DEF AB
  <2>5. OfTypes(Append(u, x), AB) =
           IF x.type \in AB THEN Append(OfTypes(u, AB), x) ELSE OfTypes(u, AB)
    <3>1. OfTypes(Append(u, x), AB) = Longer(OfTypes(u, AB), x, AB)
      BY <2>0, OfTypesNext, Zenon
    <3>2. QED
      BY <3>1 DEF Longer
  <2>6. OfTypes(uA, B) = OfTypes(u, AB)
    BY <2>0 DEF AB, uA
  <2>2. OfTypes(Append(uA, x), B) =
           IF x.type \in B THEN Append(OfTypes(uA, B), x) ELSE OfTypes(uA, B)
    <3>1. OfTypes(Append(uA, x), B) = Longer(OfTypes(uA, B), x, B)
      BY <2>8, OfTypesNext, Zenon
    <3>2. QED
      BY <3>1 DEF Longer
  <2>4. OfTypes(OfTypes(Append(u, x), A), B) = OfTypes(Append(u, x), A \cap B)
    <3>1. x.type \in AB <=> x.type \in A /\ x.type \in B
      BY DEF AB
    <3>2. OfTypes(OfTypes(Append(u, x), A), B) = OfTypes(Append(u, x), AB)
      BY <3>1, <2>1, <2>2, <2>5, <2>6
    <3>3. QED
      BY <3>2 DEF AB
  <2>7. QED
    BY <2>4, <2>0, AppendProperties DEF P
<1> HIDE DEF P
<1>3. Seq(PolicyObligation) \subseteq P
  BY <1>1, <1>2, ListInduction
<1>4. QED
  BY <1>3 DEF P

\* Only the types that occur matter.
LEMMA OfTypesSame ==
    ASSUME NEW s \in Seq(PolicyObligation), NEW A, NEW B, A \cap Types(s) = B \cap Types(s)
    PROVE  OfTypes(s, A) = OfTypes(s, B)
<1> DEFINE P == {u \in Seq(PolicyObligation) :
                    A \cap Types(u) = B \cap Types(u) => OfTypes(u, A) = OfTypes(u, B)}
<1>1. << >> \in P
  BY EmptyFact
<1>2. ASSUME NEW u \in P \cap Seq(PolicyObligation), NEW x \in PolicyObligation
      PROVE  Append(u, x) \in P
  <2>0. u \in Seq(PolicyObligation) /\ (A \cap Types(u) = B \cap Types(u) => OfTypes(u, A) = OfTypes(u, B))
    OBVIOUS
  <2> HIDE DEF P
  <2>1. OfTypes(Append(u, x), A) =
           IF x.type \in A THEN Append(OfTypes(u, A), x) ELSE OfTypes(u, A)
    <3>1. OfTypes(Append(u, x), A) = Longer(OfTypes(u, A), x, A)
      BY <2>0, OfTypesNext, Zenon
    <3>2. QED
      BY <3>1 DEF Longer
  <2>5. OfTypes(Append(u, x), B) =
           IF x.type \in B THEN Append(OfTypes(u, B), x) ELSE OfTypes(u, B)
    <3>1. OfTypes(Append(u, x), B) = Longer(OfTypes(u, B), x, B)
      BY <2>0, OfTypesNext, Zenon
    <3>2. QED
      BY <3>1 DEF Longer
  <2>2. Types(Append(u, x)) = Types(u) \cup {x.type}
    BY <2>0, TypesAppend
  <2>3. ASSUME A \cap Types(Append(u, x)) = B \cap Types(Append(u, x))
        PROVE  OfTypes(Append(u, x), A) = OfTypes(Append(u, x), B)
    <3>1. A \cap Types(u) = B \cap Types(u) /\ (x.type \in A <=> x.type \in B)
      BY <2>2, <2>3
    <3>2. OfTypes(u, A) = OfTypes(u, B)
      BY <2>0, <3>1
    <3>3. QED
      BY <2>1, <2>5, <3>1, <3>2
  <2>4. QED
    BY <2>3, <2>0, AppendProperties DEF P
<1> HIDE DEF P
<1>3. Seq(PolicyObligation) \subseteq P
  BY <1>1, <1>2, ListInduction
<1>4. QED
  BY <1>3 DEF P

\* To pick every type that occurs is to keep the list.
LEMMA OfTypesAll ==
    ASSUME NEW s \in Seq(PolicyObligation), NEW A, Types(s) \subseteq A
    PROVE  OfTypes(s, A) = s
<1> DEFINE P == {u \in Seq(PolicyObligation) : Types(u) \subseteq A => OfTypes(u, A) = u}
<1>1. << >> \in P
  BY EmptyFact
<1>2. ASSUME NEW u \in P \cap Seq(PolicyObligation), NEW x \in PolicyObligation
      PROVE  Append(u, x) \in P
  <2>1. OfTypes(Append(u, x), A) =
           IF x.type \in A THEN Append(OfTypes(u, A), x) ELSE OfTypes(u, A)
    <3>1. OfTypes(Append(u, x), A) = Longer(OfTypes(u, A), x, A)
      BY OfTypesNext, Zenon
    <3>2. QED
      BY <3>1 DEF Longer
  <2>2. Types(Append(u, x)) = Types(u) \cup {x.type}
    BY TypesAppend
  <2>3. Types(Append(u, x)) \subseteq A => OfTypes(Append(u, x), A) = Append(u, x)
    BY <2>1, <2>2
  <2>4. QED
    BY <2>3, AppendProperties
<1> HIDE DEF P
<1>3. Seq(PolicyObligation) \subseteq P
  BY <1>1, <1>2, ListInduction
<1>4. QED
  BY <1>3 DEF P

\* Of types a list has none of, there are no entries, and of others there are.
LEMMA OfTypesNone ==
    ASSUME NEW s \in Seq(PolicyObligation), NEW A
    PROVE  /\ OfTypes(s, A) \in Seq(PolicyObligation)
           /\ A \cap Types(s) = {} <=> OfTypes(s, A) = << >>
<1> DEFINE z == OfTypes(s, A)
<1>1. z \in Seq(PolicyObligation)
  <2>1. PICK w : OfTypesBy(s, A, w)
    BY OfTypesFact
  <2>2. Len(s) \in 0..Len(s)
    BY LenProperties
  <2>3. QED
    BY <2>1, <2>2 DEF OfTypesBy
<1>2. Types(z) = Types(s) \cap A
  BY OfTypesTypes
<1> HIDE DEF z
<1>3. Types(z) = {} <=> z = << >>
  <2>1. Len(z) \in Nat /\ DOMAIN z = 1..Len(z)
    BY <1>1, LenProperties
  <2>2. z # << >> => 1 \in DOMAIN z
    BY <1>1, <2>1, EmptySeq
  <2>3. QED
    BY <2>2, EmptyFact DEF Types
<1>4. QED
  BY <1>1, <1>2, <1>3 DEF z

\* To pick from two lists in a row.
LEMMA OfTypesConcat ==
    ASSUME NEW s \in Seq(PolicyObligation), NEW u \in Seq(PolicyObligation), NEW A
    PROVE  /\ s \o u \in Seq(PolicyObligation)
           /\ OfTypes(s \o u, A) = OfTypes(s, A) \o OfTypes(u, A)
           /\ Types(s \o u) = Types(s) \cup Types(u)
<1> DEFINE P == {v \in Seq(PolicyObligation) :
                    /\ OfTypes(s \o v, A) = OfTypes(s, A) \o OfTypes(v, A)
                    /\ Types(s \o v) = Types(s) \cup Types(v)}
<1>1. << >> \in P
  <2>1. OfTypes(s, A) \in Seq(PolicyObligation)
    BY OfTypesNone
  <2>2. s \o << >> = s /\ OfTypes(s, A) \o << >> = OfTypes(s, A)
    BY <2>1, ConcatEmptySeq
  <2>3. QED
    BY <2>2, EmptyFact
<1>2. ASSUME NEW v \in P \cap Seq(PolicyObligation), NEW x \in PolicyObligation
      PROVE  Append(v, x) \in P
  <2>1. s \o v \in Seq(PolicyObligation)
    BY ConcatProperties
  <2>2. s \o Append(v, x) = Append(s \o v, x)
    <3>1. <<x>> \in Seq(PolicyObligation)
      OBVIOUS
    <3>2. Append(v, x) = v \o <<x>> /\ Append(s \o v, x) = (s \o v) \o <<x>>
      BY <2>1, AppendIsConcat
    <3>3. QED
      BY <3>1, <3>2, ConcatAssociative, SMTT(60)
  <2>3. OfTypes(v, A) \in Seq(PolicyObligation) /\ OfTypes(s, A) \in Seq(PolicyObligation)
    BY OfTypesNone
  <2>4. OfTypes(s, A) \o Append(OfTypes(v, A), x) = Append(OfTypes(s, A) \o OfTypes(v, A), x)
    <3> DEFINE a == OfTypes(s, A)
               b == OfTypes(v, A)
    <3> HIDE DEF a, b
    <3>1. a \in Seq(PolicyObligation) /\ b \in Seq(PolicyObligation)
          /\ <<x>> \in Seq(PolicyObligation)
      BY <2>3 DEF a, b
    <3>2. Append(b, x) = b \o <<x>> /\ Append(a \o b, x) = (a \o b) \o <<x>>
      BY <3>1, AppendIsConcat, ConcatProperties
    <3>3. a \o Append(b, x) = Append(a \o b, x)
      BY <3>1, <3>2, ConcatAssociative, SMTT(60)
    <3>4. QED
      BY <3>3 DEF a, b
  <2>5. OfTypes(Append(v, x), A) =
           IF x.type \in A THEN Append(OfTypes(v, A), x) ELSE OfTypes(v, A)
    <3>1. OfTypes(Append(v, x), A) = Longer(OfTypes(v, A), x, A)
      BY OfTypesNext, Zenon
    <3>2. QED
      BY <3>1 DEF Longer
  <2>6. OfTypes(Append(s \o v, x), A) =
           IF x.type \in A THEN Append(OfTypes(s \o v, A), x) ELSE OfTypes(s \o v, A)
    <3>1. OfTypes(Append(s \o v, x), A) = Longer(OfTypes(s \o v, A), x, A)
      BY <2>1, OfTypesNext, Zenon
    <3>2. QED
      BY <3>1 DEF Longer
  <2>7. OfTypes(s \o v, A) = OfTypes(s, A) \o OfTypes(v, A)
    OBVIOUS
  <2>8. OfTypes(s \o Append(v, x), A) = OfTypes(s, A) \o OfTypes(Append(v, x), A)
    <3>1. CASE x.type \in A
      BY <3>1, <2>2, <2>4, <2>5, <2>6, <2>7
    <3>2. CASE x.type \notin A
      BY <3>2, <2>2, <2>5, <2>6, <2>7
    <3>3. QED
      BY <3>1, <3>2
  <2>9. Types(Append(v, x)) = Types(v) \cup {x.type}
        /\ Types(Append(s \o v, x)) = Types(s \o v) \cup {x.type}
    BY <2>1, TypesAppend
  <2>10. Types(s \o Append(v, x)) = Types(s) \cup Types(Append(v, x))
    BY <2>2, <2>9
  <2>11. QED
    BY <2>8, <2>10, AppendProperties
<1> HIDE DEF P
<1>3. Seq(PolicyObligation) \subseteq P
  BY <1>1, <1>2, ListInduction
<1>4. u \in P
  BY <1>3
<1>5. QED
  BY <1>4, ConcatProperties DEF P

\* The types of two lists in a row.
LEMMA TypesConcat ==
    ASSUME NEW s \in Seq(PolicyObligation), NEW u \in Seq(PolicyObligation)
    PROVE  s \o u \in Seq(PolicyObligation) /\ Types(s \o u) = Types(s) \cup Types(u)
<1>1. OfTypes(s \o u, {}) = OfTypes(s, {}) \o OfTypes(u, {}) /\ Types(s \o u) = Types(s) \cup Types(u)
  BY OfTypesConcat
<1>2. QED
  BY <1>1, ConcatProperties

\* The types whose parameters the form can read, and what it makes of an entry.
Reads(form) == {t \in DOMAIN form.params \cap form.checked : form.params[t] # Bad}
FirstOf(list, i) == \A j \in 1..(i - 1) : list[j].type # list[i].type
Patch(x, form) == [x EXCEPT !.params = form.params[x.type]]
PatchAt(list, form, i) ==
    IF FirstOf(list, i) /\ list[i].type \in Reads(form) THEN Patch(list[i], form) ELSE list[i]

\* What may be in the inputs for parameters.
FormReads(form) == \A t \in DOMAIN form.params : form.params[t] \in TypedParams

\* A patched entry is an entry, of its type.
LEMMA PatchFact ==
    ASSUME NEW x \in PolicyObligation, NEW form, FormReads(form), x.type \in Reads(form)
    PROVE  /\ Patch(x, form) \in PolicyObligation /\ Patch(x, form).type = x.type
           /\ Patch(x, form) = [type |-> x.type, params |-> form.params[x.type]]
BY DEF Patch, Reads, FormReads, PolicyObligation

\* Patched, entry by entry.
LEMMA PatchedMeans ==
    ASSUME NEW list, NEW form
    PROVE  Patched(list, form) = [i \in DOMAIN list |-> PatchAt(list, form, i)]
BY Zenon DEF Patched, PatchAt, FirstOf, Reads, Patch

\* Patched is read off from the front: a later entry changes none before it.
LEMMA PatchedAppend ==
    ASSUME NEW s \in Seq(PolicyObligation), NEW x \in PolicyObligation, NEW form,
           FormReads(form), Patched(s, form) \in Seq(PolicyObligation)
    PROVE  LET y == IF x.type \notin Types(s) /\ x.type \in Reads(form)
                    THEN Patch(x, form) ELSE x IN
           /\ y \in PolicyObligation /\ y.type = x.type
           /\ Patched(Append(s, x), form) = Append(Patched(s, form), y)
<1> DEFINE y == IF x.type \notin Types(s) /\ x.type \in Reads(form) THEN Patch(x, form) ELSE x
           N == Len(s)
           r == Append(s, x)
           p == Patched(s, form)
           q == Patched(r, form)
           z == Append(p, y)
<1>1. y \in PolicyObligation /\ y.type = x.type
  BY PatchFact
<1>2. /\ r \in Seq(PolicyObligation) /\ Len(r) = N + 1 /\ N \in Nat /\ DOMAIN s = 1..N
      /\ \A i \in 1..N : r[i] = s[i]
      /\ r[N + 1] = x
  BY AppendProperties, LenProperties
<1>3. DOMAIN r = 1..(N + 1)
  BY <1>2, LenProperties
<1>4. q = [i \in DOMAIN r |-> PatchAt(r, form, i)] /\ p = [i \in DOMAIN s |-> PatchAt(s, form, i)]
  BY PatchedMeans
<1> HIDE DEF p, q, r, N
<1>5. p \in Seq(PolicyObligation) /\ DOMAIN p = 1..N
  BY <1>2, <1>4 DEF p
<1>6. Len(p) = N
  BY <1>2, <1>5, LenProperties
<1> HIDE DEF y
<1>7. /\ z \in Seq(PolicyObligation) /\ Len(z) = N + 1
      /\ \A i \in 1..N : z[i] = p[i]
      /\ z[N + 1] = y
  BY <1>1, <1>5, <1>6, AppendProperties
<1> HIDE DEF z
<1>8. DOMAIN z = 1..(N + 1) /\ z = [i \in 1..(N + 1) |-> z[i]]
  BY <1>7, LenProperties
<1>9. ASSUME NEW i \in 1..N PROVE q[i] = z[i]
  <2>1. i \in DOMAIN r /\ i \in DOMAIN s /\ r[i] = s[i] /\ i \in Nat /\ \A j \in 1..(i - 1) : r[j] = s[j]
    BY <1>2, <1>3
  <2>2. FirstOf(r, i) <=> FirstOf(s, i)
    BY <2>1 DEF FirstOf
  <2>3. PatchAt(r, form, i) = PatchAt(s, form, i)
    BY <2>1, <2>2 DEF PatchAt
  <2>4. QED
    BY <1>4, <1>7, <2>1, <2>3
<1>10. q[N + 1] = z[N + 1]
  <2>1. N + 1 \in DOMAIN r /\ (N + 1) - 1 = N
    BY <1>2, <1>3
  <2>2. FirstOf(r, N + 1) <=> x.type \notin Types(s)
    BY <1>2, <2>1 DEF FirstOf, Types
  <2>3. PatchAt(r, form, N + 1) = y
    BY <1>2, <2>2 DEF PatchAt, y
  <2>4. QED
    BY <1>4, <1>7, <2>1, <2>3
<1>11. 1..(N + 1) = (1..N) \cup {N + 1}
  BY <1>2
<1>12. q = z
  BY <1>3, <1>4, <1>8, <1>9, <1>10, <1>11
<1>13. QED
  BY <1>1, <1>12 DEF p, q, r, y, z

\* The entries of a type, the first of them perhaps patched.
SamePatched(list, due, t, form) ==
    /\ Len(list) = Len(due)
    /\ \A k \in DOMAIN due :
          list[k] = IF k = 1 /\ t \in Reads(form) THEN Patch(due[1], form) ELSE due[k]

\* Patching changes no type, and of each type at most the first entry.
LEMMA PatchedFact ==
    ASSUME NEW s \in Seq(PolicyObligation), NEW form, FormReads(form)
    PROVE  /\ Patched(s, form) \in Seq(PolicyObligation)
           /\ Types(Patched(s, form)) = Types(s)
           /\ \A A : A \cap Reads(form) = {} => OfTypes(Patched(s, form), A) = OfTypes(s, A)
           /\ \A t : SamePatched(OfType(Patched(s, form), t), OfType(s, t), t, form)
<1> DEFINE pat(u) == Patched(u, form)
           good(u) ==
              /\ pat(u) \in Seq(PolicyObligation)
              /\ Types(pat(u)) = Types(u)
              /\ \A A : A \cap Reads(form) = {} => OfTypes(pat(u), A) = OfTypes(u, A)
              /\ \A t : SamePatched(OfType(pat(u), t), OfType(u, t), t, form)
           P == {u \in Seq(PolicyObligation) : good(u)}
<1>1. << >> \in P
  <2>1. pat(<< >>) = << >>
    BY PatchedMeans
  <2>2. << >> \in Seq(PolicyObligation) /\ DOMAIN << >> = {}
    BY EmptySeq
  <2>3. \A t : OfType(<< >>, t) = << >>
    BY EmptyFact DEF OfType
  <2>4. QED
    BY <2>1, <2>2, <2>3 DEF SamePatched
<1>2. ASSUME NEW u \in P \cap Seq(PolicyObligation), NEW x \in PolicyObligation
      PROVE  Append(u, x) \in P
  <2> DEFINE y == IF x.type \notin Types(u) /\ x.type \in Reads(form)
                  THEN Patch(x, form) ELSE x
             pu == pat(u)
             px == pat(Append(u, x))
  <2>1. u \in Seq(PolicyObligation) /\ good(u) /\ pu \in Seq(PolicyObligation)
    OBVIOUS
  <2>2. y \in PolicyObligation /\ y.type = x.type /\ px = Append(pu, y)
    BY <2>1, PatchedAppend
  <2>3. Types(Append(u, x)) = Types(u) \cup {x.type}
    BY <2>1, TypesAppend
  <2> HIDE DEF P, y, px
  <2>4. px \in Seq(PolicyObligation)
    BY <2>1, <2>2, AppendProperties
  <2>5. Types(px) = Types(Append(u, x))
    <3>1. Types(px) = Types(pu) \cup {y.type}
      BY <2>1, <2>2, TypesAppend
    <3>2. QED
      BY <3>1, <2>1, <2>2, <2>3
  <2>6. ASSUME NEW A PROVE /\ OfTypes(px, A) = IF x.type \in A THEN Append(OfTypes(pu, A), y)
                                               ELSE OfTypes(pu, A)
                           /\ OfTypes(Append(u, x), A) =
                                 IF x.type \in A THEN Append(OfTypes(u, A), x) ELSE OfTypes(u, A)
                           /\ OfTypes(pu, A) \in Seq(PolicyObligation)
                           /\ OfTypes(u, A) \in Seq(PolicyObligation)
                           /\ A \cap Types(u) = {} <=> OfTypes(u, A) = << >>
    <3>1. OfTypes(px, A) = IF x.type \in A THEN Append(OfTypes(pu, A), y) ELSE OfTypes(pu, A)
      <4>1. pu \in Seq(PolicyObligation)
        BY <2>1
      <4> HIDE DEF pu
      <4>2. OfTypes(Append(pu, y), A) =
               IF y.type \in A THEN Append(OfTypes(pu, A), y) ELSE OfTypes(pu, A)
        <5>1. OfTypes(Append(pu, y), A) = Longer(OfTypes(pu, A), y, A)
          BY <4>1, <2>2, OfTypesNext, Zenon
        <5>2. QED
          BY <5>1 DEF Longer
      <4>3. QED
        BY <4>2, <2>2
    <3>2. OfTypes(Append(u, x), A) =
             IF x.type \in A THEN Append(OfTypes(u, A), x) ELSE OfTypes(u, A)
      BY <2>1, OfTypesAppend
    <3>3. OfTypes(pu, A) \in Seq(PolicyObligation)
      BY <2>1, OfTypesNone
    <3>4. /\ OfTypes(u, A) \in Seq(PolicyObligation)
          /\ A \cap Types(u) = {} <=> OfTypes(u, A) = << >>
      BY <2>1, OfTypesNone
    <3>5. QED
      BY <3>1, <3>2, <3>3, <3>4
  <2>7. ASSUME NEW A, A \cap Reads(form) = {} PROVE OfTypes(px, A) = OfTypes(Append(u, x), A)
    <3>1. OfTypes(pu, A) = OfTypes(u, A)
      BY <2>1, <2>7
    <3>2. x.type \in A => y = x
      BY <2>7 DEF y
    <3>3. QED
      BY <3>1, <3>2, <2>6
  <2>8. ASSUME NEW t PROVE SamePatched(OfType(px, t), OfType(Append(u, x), t), t, form)
    <3> DEFINE a == OfTypes(pu, {t})
               b == OfTypes(u, {t})
               a1 == OfTypes(px, {t})
               b1 == OfTypes(Append(u, x), {t})
    <3>1. SamePatched(a, b, t, form)
      BY <2>1 DEF OfType
    <3>2. /\ a1 = (IF x.type = t THEN Append(a, y) ELSE a)
          /\ b1 = (IF x.type = t THEN Append(b, x) ELSE b)
          /\ a \in Seq(PolicyObligation) /\ b \in Seq(PolicyObligation)
          /\ t \notin Types(u) <=> b = << >>
      <4>1. {t} \cap Types(u) = {} <=> t \notin Types(u)
        OBVIOUS
      <4>2. x.type \in {t} <=> x.type = t
        OBVIOUS
      <4>3. QED
        BY <4>1, <4>2, <2>6
    <3> HIDE DEF a, b, a1, b1, pu
    <3>3. CASE x.type # t
      BY <3>1, <3>2, <3>3 DEF OfType, a1, b1
    <3>4. CASE x.type = t
      <4>1. /\ a1 = Append(a, y) /\ b1 = Append(b, x) /\ Len(a) = Len(b) /\ Len(b) \in Nat
            /\ DOMAIN b = 1..Len(b)
        BY <3>1, <3>2, <3>4, LenProperties DEF SamePatched
      <4>2. /\ Len(a1) = Len(a) + 1 /\ a1[Len(a) + 1] = y
            /\ \A k \in 1..Len(a) : a1[k] = a[k]
        BY <2>2, <3>2, <4>1, AppendProperties
      <4>3. /\ Len(b1) = Len(b) + 1 /\ b1[Len(b) + 1] = x /\ b1 \in Seq(PolicyObligation)
            /\ \A k \in 1..Len(b) : b1[k] = b[k]
        BY <3>2, <4>1, AppendProperties
      <4>4. DOMAIN b1 = 1..(Len(b) + 1)
        BY <4>3, LenProperties
      <4>5. ASSUME NEW k \in 1..Len(b)
            PROVE  a1[k] = IF k = 1 /\ t \in Reads(form) THEN Patch(b1[1], form) ELSE b1[k]
        <5>1. a[k] = IF k = 1 /\ t \in Reads(form) THEN Patch(b[1], form) ELSE b[k]
          BY <3>1, <4>1 DEF SamePatched
        <5>2. a1[k] = a[k] /\ b1[k] = b[k] /\ (k = 1 => b1[1] = b[1])
          BY <4>1, <4>2, <4>3
        <5>3. QED
          BY <5>1, <5>2
      <4>6. a1[Len(b) + 1] = IF Len(b) + 1 = 1 /\ t \in Reads(form) THEN Patch(b1[1], form)
                             ELSE b1[Len(b) + 1]
        <5>1. Len(b) = 0 <=> b = << >>
          BY <3>2, EmptySeq
        <5>2. Len(b) + 1 = 1 <=> t \notin Types(u)
          BY <5>1, <4>1, <3>2
        <5>3. y = IF Len(b) + 1 = 1 /\ t \in Reads(form) THEN Patch(x, form) ELSE x
          BY <5>2, <3>4 DEF y
        <5>4. Len(b) + 1 = 1 => b1[1] = x
          BY <4>3
        <5>5. QED
          BY <5>3, <5>4, <4>1, <4>2, <4>3
      <4>7. \A k \in DOMAIN b1 :
               a1[k] = IF k = 1 /\ t \in Reads(form) THEN Patch(b1[1], form) ELSE b1[k]
        BY <4>1, <4>4, <4>5, <4>6
      <4>8. QED
        BY <4>1, <4>2, <4>3, <4>7 DEF SamePatched, OfType, a1, b1
    <3>5. QED
      BY <3>3, <3>4
  <2>9. good(Append(u, x))
    BY <2>4, <2>5, <2>7, <2>8 DEF px
  <2>10. QED
    BY <2>1, <2>9, AppendProperties DEF P
<1> HIDE DEF P
<1>3. Seq(PolicyObligation) \subseteq P
  BY <1>1, <1>2, ListInduction
<1>4. s \in P
  BY <1>3
<1>5. QED
  BY <1>4 DEF P

\* What a checked type without an entry gets back.
Back(stash, t) == IF stash[t] = << >> THEN <<[type |-> t, params |-> Blank]>> ELSE stash[t]

\* A stash holds entries of the type it is for.
StashTyped(stash) ==
    \A t \in Known : stash[t] \in Seq(PolicyObligation) /\ Types(stash[t]) \subseteq {t}

\* A bare entry is one.
LEMMA BareFact ==
    ASSUME NEW t \in Known
    PROVE  /\ <<[type |-> t, params |-> Blank]>> \in Seq(PolicyObligation)
           /\ Types(<<[type |-> t, params |-> Blank]>>) = {t}
<1> DEFINE x == [type |-> t, params |-> Blank]
<1>1. x \in PolicyObligation
  BY TypesAssumption, InputsAssumption DEF PolicyObligation
<1>2. x.type = t
  OBVIOUS
<1> HIDE DEF x
<1>3. <<x>> \in Seq(PolicyObligation) /\ DOMAIN <<x>> = {1} /\ <<x>>[1] = x
  BY <1>1
<1>4. Types(<<x>>) = {t}
  BY <1>2, <1>3 DEF Types
<1>5. QED
  BY <1>3, <1>4 DEF x

\* What comes back is of the type it is for.
LEMMA BackFact ==
    ASSUME NEW stash, StashTyped(stash), NEW t \in Known
    PROVE  /\ Back(stash, t) \in Seq(PolicyObligation) /\ Types(Back(stash, t)) = {t}
           /\ \A A : OfTypes(Back(stash, t), A) = IF t \in A THEN Back(stash, t) ELSE << >>
<1> DEFINE b == Back(stash, t)
<1>1. b \in Seq(PolicyObligation) /\ Types(b) = {t}
  <2>1. CASE stash[t] = << >>
    BY <2>1, BareFact DEF Back
  <2>2. CASE stash[t] # << >>
    <3> DEFINE s == stash[t]
    <3>1. s \in Seq(PolicyObligation) /\ Types(s) \subseteq {t}
      BY DEF StashTyped
    <3>2. b = s
      BY <2>2 DEF Back
    <3>3. s # << >>
      BY <2>2
    <3> HIDE DEF s, b
    <3>4. 1 \in DOMAIN s
      BY <3>1, <3>3, EmptySeq, LenProperties
    <3>5. Types(s) # {}
      BY <3>4 DEF Types
    <3>6. QED
      BY <3>1, <3>2, <3>5
  <2>3. QED
    BY <2>1, <2>2
<1> HIDE DEF b
<1>2. ASSUME NEW A PROVE OfTypes(b, A) = IF t \in A THEN b ELSE << >>
  <2>1. t \in A => OfTypes(b, A) = b
    BY <1>1, OfTypesAll
  <2>2. t \notin A => OfTypes(b, A) = << >>
    BY <1>1, OfTypesNone
  <2>3. QED
    BY <2>1, <2>2
<1>3. QED
  BY <1>1, <1>2 DEF b

\* The function by which Rebuilt goes through the obligation types.
RebuiltBy(kept, checked, stash, w) ==
    /\ w \in [0..Len(ObligationTypes) -> Seq(PolicyObligation)] /\ w[0] = kept
    /\ \A n \in 1..Len(ObligationTypes) :
          w[n] = IF ObligationTypes[n] \in checked \ Types(w[n - 1])
                 THEN w[n - 1] \o Back(stash, ObligationTypes[n]) ELSE w[n - 1]
    /\ Rebuilt(kept, checked, stash) = w[Len(ObligationTypes)]

\* One type after the other: a type is there if it was, or if it was due.
LEMMA RebuiltSteps ==
    ASSUME NEW kept \in Seq(PolicyObligation), NEW checked, NEW stash, StashTyped(stash)
    PROVE  \E w : RebuiltBy(kept, checked, stash, w)
<1> DEFINE N == Len(ObligationTypes)
           X == Seq(PolicyObligation)
           next1(n, v) == IF ObligationTypes[n] \in checked \ Types(v)
                          THEN v \o Back(stash, ObligationTypes[n]) ELSE v
           F == [n \in 1..N |-> [v \in X |-> next1(n, v)]]
           body(f) == [n \in 0..N |-> IF n = 0 THEN kept ELSE next1(n, f[n - 1])]
<1>1. N \in Nat /\ kept \in X /\ \A n \in 1..N : ObligationTypes[n] \in Known
  BY TypesAssumption, LenProperties, ElementOfSeq
<1>2. \A v \in X, n \in 1..N : next1(n, v) \in X
  BY <1>1, BackFact, ConcatProperties
<1>3. Rebuilt(kept, checked, stash) = (CHOOSE h : h = body(h))[N]
  BY Zenon DEF Rebuilt, Back
<1> HIDE DEF X, next1
<1>4. F \in [1..N -> [X -> X]]
  BY <1>2
<1>5. \A n \in 1..N : \A v \in X : F[n][v] = next1(n, v)
  OBVIOUS
<1> HIDE DEF F, N
<1>6. PICK f \in [0..N -> X] : f[0] = kept /\ \A n \in 1..N : f[n] = F[n][f[n - 1]]
  <2>1. N \in Nat /\ kept \in X
    BY <1>1
  <2>2. PICK f : Iterated(X, kept, N, F, f)
    BY <2>1, <1>4, IteratesTo, Zenon
  <2>3. QED
    BY <2>2 DEF Iterated
<1>7. \A n \in 1..N : f[n - 1] \in X /\ f[n] = next1(n, f[n - 1])
  <2> SUFFICES ASSUME NEW n \in 1..N PROVE f[n - 1] \in X /\ f[n] = next1(n, f[n - 1])
    OBVIOUS
  <2>1. n - 1 \in 0..N
    BY <1>1
  <2>2. f[n - 1] \in X
    BY <1>6, <2>1
  <2>3. f[n] = F[n][f[n - 1]]
    BY <1>6
  <2>4. F[n][f[n - 1]] = next1(n, f[n - 1])
    BY <1>5, <2>2
  <2>5. QED
    BY <2>2, <2>3, <2>4
<1>8. f = body(f)
  <2>1. \A n \in 0..N : f[n] = body(f)[n]
    <3> SUFFICES ASSUME NEW n \in 0..N PROVE f[n] = body(f)[n]
      OBVIOUS
    <3>1. CASE n = 0
      BY <1>6, <3>1
    <3>2. CASE n # 0
      BY <3>2, <1>1, <1>7
    <3>3. QED
      BY <3>1, <3>2
  <2>2. QED
    BY <2>1, <1>6
<1> DEFINE w == CHOOSE h : h = body(h)
<1>9. w = body(w)
  BY <1>8
<1> HIDE DEF w
<1>10. w[0] = kept
  <2>1. body(w)[0] = kept
    BY <1>1
  <2>2. QED
    BY <1>9, <2>1
<1>11. \A n \in 1..N : w[n] = next1(n, w[n - 1])
  <2> SUFFICES ASSUME NEW n \in 1..N PROVE w[n] = next1(n, w[n - 1])
    OBVIOUS
  <2>1. n # 0 /\ n \in 0..N
    BY <1>1
  <2>2. body(w)[n] = next1(n, w[n - 1])
    BY <2>1
  <2>3. QED
    BY <1>9, <2>2
<1>12. DOMAIN w = 0..N /\ w = [n \in 0..N |-> w[n]]
  <2>1. DOMAIN body(w) = 0..N /\ body(w) = [n \in 0..N |-> body(w)[n]]
    OBVIOUS
  <2> HIDE DEF body
  <2>2. QED
    BY <1>9, <2>1
<1>3a. Rebuilt(kept, checked, stash) = w[N]
  BY <1>3 DEF w, N
<1> HIDE DEF body
<1>13. \A n \in 0..N : w[n] \in X
  <2> DEFINE bad == {n \in 0..N : w[n] \notin X}
  <2> SUFFICES ASSUME bad # {} PROVE FALSE
    OBVIOUS
  <2> bad \subseteq Nat
    OBVIOUS
  <2>1. PICK n \in bad : \A m \in bad : n <= m
    BY SmallestOf
  <2>2. n # 0 /\ n \in 1..N
    BY <1>1, <1>10, <2>1
  <2>3. n - 1 \in 0..N /\ n - 1 \notin bad
    BY <1>1, <2>1, <2>2
  <2>4. w[n] \in X
    BY <1>2, <1>11, <2>2, <2>3
  <2>5. QED
    BY <2>1, <2>4
<1>14. w \in [0..N -> X]
  BY <1>12, <1>13
<1>15. QED
  BY <1>3a, <1>10, <1>11, <1>14 DEF N, X, RebuiltBy, next1

\* Every checked type is there, with what it had or what comes back; others are not.
LEMMA RebuiltFact ==
    ASSUME NEW kept \in Seq(PolicyObligation), NEW checked \in SUBSET Known, NEW stash,
           StashTyped(stash)
    PROVE  LET list == Rebuilt(kept, checked, stash) IN
           /\ list \in Seq(PolicyObligation)
           /\ \A A : A \cap (checked \ Types(kept)) = {} => OfTypes(list, A) = OfTypes(kept, A)
           /\ \A t \in checked \ Types(kept) : OfType(list, t) = Back(stash, t)
<1> DEFINE N == Len(ObligationTypes)
           new == checked \ Types(kept)
           seen(n) == {ObligationTypes[m] : m \in 1..n}
<1>1. PICK w : RebuiltBy(kept, checked, stash, w)
  BY RebuiltSteps
<1>2. N \in Nat /\ \A n \in 1..N : ObligationTypes[n] \in Known
  BY TypesAssumption, LenProperties, ElementOfSeq
<1>3. /\ \A n \in 0..N : w[n] \in Seq(PolicyObligation)
      /\ w[0] = kept
      /\ \A n \in 1..N : w[n] = IF ObligationTypes[n] \in checked \ Types(w[n - 1])
                                THEN w[n - 1] \o Back(stash, ObligationTypes[n]) ELSE w[n - 1]
      /\ Rebuilt(kept, checked, stash) = w[N]
  BY <1>1 DEF RebuiltBy
<1> DEFINE good(n) ==
              /\ Types(kept) \subseteq Types(w[n])
              /\ \A A : A \cap new = {} => OfTypes(w[n], A) = OfTypes(kept, A)
              /\ \A t \in new : OfType(w[n], t) = IF t \in seen(n) THEN Back(stash, t) ELSE << >>
<1> HIDE DEF N
<1>4. good(0)
  <2>1. \A t \in new : OfType(kept, t) = << >>
    <3> SUFFICES ASSUME NEW t \in new PROVE OfType(kept, t) = << >>
      OBVIOUS
    <3>1. {t} \cap Types(kept) = {}
      OBVIOUS
    <3>2. QED
      BY <3>1, OfTypesNone DEF OfType
  <2>2. seen(0) = {}
    OBVIOUS
  <2>3. QED
    BY <2>1, <2>2, <1>3
<1>5. ASSUME NEW n \in 1..N, good(n - 1) PROVE good(n)
  <2> DEFINE u == w[n - 1]
             t == ObligationTypes[n]
             b == Back(stash, t)
  <2>1. n - 1 \in 0..N /\ n \in 0..N /\ t \in Known
    BY <1>2
  <2>2. u \in Seq(PolicyObligation)
    BY <1>3, <2>1
  <2>3. b \in Seq(PolicyObligation) /\ Types(b) = {t}
        /\ \A A : OfTypes(b, A) = IF t \in A THEN b ELSE << >>
    BY <2>1, BackFact
  <2>4. w[n] = IF t \in checked \ Types(u) THEN u \o b ELSE u
    BY <1>3
  <2>5. seen(n) = seen(n - 1) \cup {t}
    <3>1. 1..n = (1..(n - 1)) \cup {n}
      BY <1>2
    <3>2. QED
      BY <3>1
  <2>6. /\ Types(kept) \subseteq Types(u)
        /\ \A A : A \cap new = {} => OfTypes(u, A) = OfTypes(kept, A)
        /\ \A x \in new : OfType(u, x) = IF x \in seen(n - 1) THEN Back(stash, x) ELSE << >>
    BY <1>5
  <2> HIDE DEF u, b, t, seen
  <2>7. CASE t \in checked \ Types(u)
    <3>1. w[n] = u \o b
      BY <2>4, <2>7
    <3>2. ASSUME NEW A PROVE OfTypes(w[n], A) = OfTypes(u, A) \o OfTypes(b, A)
      BY <2>2, <2>3, <3>1, OfTypesConcat
    <3>3. Types(w[n]) = Types(u) \cup {t}
      BY <2>2, <2>3, <3>1, OfTypesConcat
    <3>4. t \in new
      BY <2>6, <2>7
    <3>5. ASSUME NEW A, t \notin A PROVE OfTypes(w[n], A) = OfTypes(u, A)
      <4>1. OfTypes(b, A) = << >> /\ OfTypes(u, A) \in Seq(PolicyObligation)
        BY <2>2, <2>3, <3>5, OfTypesNone
      <4>2. QED
        BY <4>1, <3>2, ConcatEmptySeq
    <3>6. OfType(w[n], t) = b
      <4>1. {t} \cap Types(u) = {}
        BY <2>7
      <4>2. OfTypes(u, {t}) = << >>
        BY <2>2, <4>1, OfTypesNone
      <4>3. OfTypes(b, {t}) = b
        BY <2>3
      <4>4. << >> \o b = b
        BY <2>3, ConcatEmptySeq
      <4>5. QED
        BY <4>2, <4>3, <4>4, <3>2 DEF OfType
    <3>7. ASSUME NEW x \in new
          PROVE  OfType(w[n], x) = IF x \in seen(n) THEN Back(stash, x) ELSE << >>
      <4>1. CASE x = t
        BY <4>1, <3>6, <2>5 DEF b
      <4>2. CASE x # t
        BY <4>2, <3>5, <2>5, <2>6 DEF OfType
      <4>3. QED
        BY <4>1, <4>2
    <3>8. ASSUME NEW A, A \cap new = {} PROVE OfTypes(w[n], A) = OfTypes(kept, A)
      BY <3>4, <3>5, <3>8, <2>6
    <3>9. QED
      BY <3>3, <3>7, <3>8, <2>6
  <2>8. CASE t \notin checked \ Types(u)
    <3>1. w[n] = u
      BY <2>4, <2>8
    <3>2. ASSUME NEW x \in new
          PROVE  OfType(w[n], x) = IF x \in seen(n) THEN Back(stash, x) ELSE << >>
      <4>1. CASE x = t
        <5>1. t \in Types(u)
          BY <4>1, <2>8
        <5>2. {t} \cap Types(u) # {}
          BY <5>1
        <5>3. OfType(u, t) # << >>
          BY <5>2, <2>2, OfTypesNone DEF OfType
        <5>4. t \in seen(n - 1)
          BY <5>3, <4>1, <2>6
        <5>5. QED
          BY <5>4, <4>1, <3>1, <2>5, <2>6
      <4>2. CASE x # t
        BY <4>2, <3>1, <2>5, <2>6
      <4>3. QED
        BY <4>1, <4>2
    <3>3. QED
      BY <3>1, <3>2, <2>6
  <2>9. QED
    BY <2>7, <2>8
<1>6. good(N)
  <2> DEFINE bad == {n \in 0..N : ~good(n)}
  <2>1. bad \in SUBSET Nat
    OBVIOUS
  <2> SUFFICES ASSUME bad # {} PROVE FALSE
    BY <1>2
  <2> HIDE DEF good
  <2>2. PICK n \in bad : \A m \in bad : n <= m
    BY <2>1, SmallestOf
  <2>3. n # 0 /\ n \in 1..N
    BY <1>2, <1>4, <2>2
  <2>4. n - 1 \in 0..N /\ n - 1 \notin bad
    BY <1>2, <2>2, <2>3
  <2>5. good(n)
    BY <1>5, <2>3, <2>4
  <2>6. QED
    BY <2>2, <2>5
<1>7. Known = seen(N)
  BY TypesAssumption, RangeEquality DEF Known, N
<1>8. QED
  <2>1. \A t \in new : t \in seen(N)
    BY <1>7
  <2>2. N \in 0..N
    BY <1>2
  <2>3. QED
    BY <1>3, <1>6, <2>1, <2>2

\* What rebuildObligations leaves in the list and in the stash, type by type.
LEMMA RebuildFact ==
    ASSUME NEW list \in Seq(PolicyObligation), NEW form, NEW stash, StashTyped(stash),
           FormReads(form), form.checked \subseteq Known
    PROVE  LET b == RebuildObligations(list, form, stash)
               own(t) == OfType(list, t)
           IN /\ b.list \in Seq(PolicyObligation)
              /\ DOMAIN b.stash = Known /\ StashTyped(b.stash)
              /\ OfTypes(b.list, Foreign) = OfTypes(list, Foreign)
              /\ \A t \in Known \ form.checked :
                    OfType(b.list, t) = << >> /\ b.stash[t] = stash[t] \o own(t)
              /\ \A t \in form.checked :
                    /\ SamePatched(OfType(b.list, t),
                                   IF own(t) = << >> THEN Back(stash, t) ELSE own(t), t, form)
                    /\ b.stash[t] = IF own(t) = << >> THEN << >> ELSE stash[t]
<1> DEFINE C == form.checked
           own(t) == OfType(list, t)
           keep == Types(list) \ (Known \ C)
           kept == OfTypes(list, keep)
           stashed == [t \in Known |-> IF t \in C THEN stash[t] ELSE stash[t] \o own(t)]
           R == Rebuilt(kept, C, stashed)
           S == [t \in Known |-> IF t \in C \ Types(kept) THEN << >> ELSE stashed[t]]
           L == Patched(R, form)
<1>1. /\ RebuildObligations(list, form, stash).list = L
      /\ RebuildObligations(list, form, stash).stash = S
  BY DEF RebuildObligations
<1>2. kept \in Seq(PolicyObligation) /\ Types(kept) = Types(list) \cap keep
  BY OfTypesNone, OfTypesTypes
<1>3. ASSUME NEW t \in Known
      PROVE  own(t) \in Seq(PolicyObligation) /\ Types(own(t)) \subseteq {t}
  BY OfTypesNone, OfTypesTypes DEF OfType
<1>4. StashTyped(stashed) /\ DOMAIN stashed = Known
  <2> SUFFICES ASSUME NEW t \in Known
               PROVE  stashed[t] \in Seq(PolicyObligation) /\ Types(stashed[t]) \subseteq {t}
    BY DEF StashTyped
  <2>1. stash[t] \in Seq(PolicyObligation) /\ Types(stash[t]) \subseteq {t}
    BY DEF StashTyped
  <2>2. CASE t \in C
    BY <2>1, <2>2
  <2>3. CASE t \notin C
    <3> DEFINE s == stash[t]
               o == own(t)
    <3>1. s \in Seq(PolicyObligation) /\ o \in Seq(PolicyObligation)
          /\ Types(s) \subseteq {t} /\ Types(o) \subseteq {t}
      BY <1>3, <2>1
    <3>2. stashed[t] = s \o o
      BY <2>3
    <3> HIDE DEF s, o, stashed
    <3>3. QED
      BY <3>1, <3>2, TypesConcat
  <2>4. QED
    BY <2>2, <2>3
<1> HIDE DEF stashed
<1>5. \A t \in Known : stashed[t] = IF t \in C THEN stash[t] ELSE stash[t] \o own(t)
  BY DEF stashed
<1>6. /\ R \in Seq(PolicyObligation)
      /\ \A A : A \cap (C \ Types(kept)) = {} => OfTypes(R, A) = OfTypes(kept, A)
      /\ \A t \in C \ Types(kept) : OfType(R, t) = Back(stashed, t)
  <2>1. C \in SUBSET Known
    OBVIOUS
  <2>2. kept \in Seq(PolicyObligation) /\ StashTyped(stashed)
    BY <1>2, <1>4
  <2> HIDE DEF kept, C
  <2>3. Rebuilt(kept, C, stashed) \in Seq(PolicyObligation)
    BY <2>1, <2>2, RebuiltFact
  <2>4. \A A : A \cap (C \ Types(kept)) = {} => OfTypes(Rebuilt(kept, C, stashed), A) = OfTypes(kept, A)
    BY <2>1, <2>2, RebuiltFact
  <2>5. \A t \in C \ Types(kept) : OfType(Rebuilt(kept, C, stashed), t) = Back(stashed, t)
    BY <2>1, <2>2, RebuiltFact
  <2>6. QED
    BY <2>3, <2>4, <2>5
<1> HIDE DEF R
<1>7. /\ L \in Seq(PolicyObligation)
      /\ \A A : A \cap Reads(form) = {} => OfTypes(L, A) = OfTypes(R, A)
      /\ \A t : SamePatched(OfType(L, t), OfType(R, t), t, form)
  BY <1>6, PatchedFact
<1> HIDE DEF L
<1>8. \A A : OfTypes(kept, A) = OfTypes(list, keep \cap A)
  BY OfTypesTwice
<1> HIDE DEF kept
<1>9. OfTypes(L, Foreign) = OfTypes(list, Foreign)
  <2>1. Foreign \cap Reads(form) = {} /\ Foreign \cap (C \ Types(kept)) = {}
    BY DEF Foreign, Reads
  <2>2. OfTypes(L, Foreign) = OfTypes(list, keep \cap Foreign)
    BY <2>1, <1>6, <1>7, <1>8
  <2>3. (keep \cap Foreign) \cap Types(list) = Foreign \cap Types(list)
    BY DEF Foreign
  <2>4. OfTypes(list, keep \cap Foreign) = OfTypes(list, Foreign)
    BY <2>3, OfTypesSame
  <2>5. QED
    BY <2>2, <2>4
<1>10. ASSUME NEW t \in Known \ C
       PROVE  OfType(L, t) = << >> /\ S[t] = stash[t] \o own(t)
  <2>1. {t} \cap Reads(form) = {} /\ {t} \cap (C \ Types(kept)) = {}
    BY DEF Reads
  <2>2. OfTypes(L, {t}) = OfTypes(list, keep \cap {t})
    BY <2>1, <1>6, <1>7, <1>8
  <2>3. (keep \cap {t}) \cap Types(list) = {}
    OBVIOUS
  <2>4. OfTypes(list, keep \cap {t}) = << >>
    BY <2>3, OfTypesNone
  <2>5. S[t] = stash[t] \o own(t)
    BY <1>5
  <2>6. QED
    BY <2>2, <2>4, <2>5 DEF OfType
<1>11. ASSUME NEW t \in C
       PROVE  /\ SamePatched(OfType(L, t),
                             IF own(t) = << >> THEN Back(stash, t) ELSE own(t), t, form)
              /\ S[t] = IF own(t) = << >> THEN << >> ELSE stash[t]
  <2>1. t \in Known
    OBVIOUS
  <2>2. own(t) = << >> <=> t \notin Types(kept)
    <3>1. {t} \cap Types(list) = {} <=> OfTypes(list, {t}) = << >>
      BY OfTypesNone
    <3>2. t \in Types(kept) <=> t \in Types(list)
      BY <1>2
    <3>3. QED
      BY <3>1, <3>2 DEF OfType
  <2>3. CASE own(t) = << >>
    <3>1. OfType(R, t) = Back(stashed, t)
      BY <1>6, <2>2, <2>3
    <3>2. stashed[t] = stash[t]
      BY <1>5, <2>1
    <3>3. Back(stashed, t) = Back(stash, t)
      BY <3>2 DEF Back
    <3>4. SamePatched(OfType(L, t), Back(stash, t), t, form)
      BY <1>7, <3>1, <3>3
    <3>5. S[t] = << >>
      BY <2>1, <2>2, <2>3
    <3>6. QED
      BY <3>4, <3>5, <2>3
  <2>4. CASE own(t) # << >>
    <3>1. {t} \cap (C \ Types(kept)) = {}
      BY <2>2, <2>4
    <3>2. OfTypes(R, {t}) = OfTypes(list, keep \cap {t})
      BY <3>1, <1>6, <1>8
    <3>3. (keep \cap {t}) \cap Types(list) = {t} \cap Types(list)
      OBVIOUS
    <3>4. OfTypes(list, keep \cap {t}) = OfTypes(list, {t})
      BY <3>3, OfTypesSame
    <3>5. OfType(R, t) = own(t)
      BY <3>2, <3>4 DEF OfType
    <3>6. SamePatched(OfType(L, t), own(t), t, form)
      BY <1>7, <3>5
    <3>7. S[t] = stash[t]
      BY <1>5, <2>1, <2>2, <2>4
    <3>8. QED
      BY <3>6, <3>7, <2>4
  <2>5. QED
    BY <2>3, <2>4
<1>12. DOMAIN S = Known /\ StashTyped(S)
  <2> SUFFICES ASSUME NEW t \in Known
               PROVE  S[t] \in Seq(PolicyObligation) /\ Types(S[t]) \subseteq {t}
    BY DEF StashTyped
  <2>1. CASE t \in C \ Types(kept)
    BY <2>1, EmptyFact
  <2>2. CASE t \notin C \ Types(kept)
    <3>1. S[t] = stashed[t]
      BY <2>2
    <3>2. QED
      BY <3>1, <1>4 DEF StashTyped
  <2>3. QED
    BY <2>1, <2>2
<1> HIDE DEF S
<1>13. QED
  BY <1>1, <1>7, <1>9, <1>10, <1>11, <1>12

-----------------------------------------------------------------------------
(* PolicyBuilder: the fields of a rule, what an input shows of them, and what*)
(* a card is after its inputs are read.                                    *)

\* Where a field is in a rule.
SectionOf(f) == CHOOSE s \in DOMAIN Sections : f \in Sections[s]
PlaceOf(rule, f) == IF f \in Plain THEN rule ELSE Part(rule, SectionOf(f))

\* Every field that is not plain has its section.
LEMMA SectionFact ==
    /\ DOMAIN Sections = {"constraints", "requirements", "proof"}
    /\ \A s \in DOMAIN Sections : \A f \in Sections[s] : f \notin Plain /\ SectionOf(f) = s
    /\ \A f \in Fields \ Plain : SectionOf(f) \in DOMAIN Sections /\ f \in Sections[SectionOf(f)]
<1>1. DOMAIN Sections = {"constraints", "requirements", "proof"}
  BY DEF Sections
<1>2. /\ Sections["constraints"] = {"amount_min", "amount_max", "currency", "merchant_domain",
                                    "allowed_domains", "blocked_domains"}
      /\ Sections["requirements"] = {"min_assurance_level", "credential_scheme"}
      /\ Sections["proof"] = {"required", "ttl_seconds"}
  BY DEF Sections, Amounts, Lists
<1>3. \A s, u \in DOMAIN Sections : \A f \in Sections[s] \cap Sections[u] : s = u
  BY <1>1, <1>2
<1>4. \A s \in DOMAIN Sections : \A f \in Sections[s] : f \notin Plain
  BY <1>1, <1>2 DEF Plain
<1>5. ASSUME NEW s \in DOMAIN Sections, NEW f \in Sections[s] PROVE SectionOf(f) = s
  <2>1. SectionOf(f) \in DOMAIN Sections /\ f \in Sections[SectionOf(f)]
    BY DEF SectionOf
  <2>2. QED
    BY <2>1, <1>3
<1>6. ASSUME NEW f \in Fields \ Plain
      PROVE  SectionOf(f) \in DOMAIN Sections /\ f \in Sections[SectionOf(f)]
  <2>1. \E s \in DOMAIN Sections : f \in Sections[s]
    BY DEF Fields
  <2>2. QED
    BY <2>1 DEF SectionOf
<1>7. QED
  BY <1>1, <1>4, <1>5, <1>6

\* A rule has one value for a field, or none.
LEMMA FieldOfFact ==
    ASSUME NEW rule, NEW f
    PROVE  /\ FieldOf(rule, f) = IF f \in DOMAIN PlaceOf(rule, f) THEN {PlaceOf(rule, f)[f]} ELSE {}
           /\ f \in DOMAIN PlaceOf(rule, f) <=> FieldOf(rule, f) # {}
<1>1. FieldOf(rule, f) = {PlaceOf(rule, f)[k] : k \in {f} \cap DOMAIN PlaceOf(rule, f)}
  BY DEF FieldOf, PlaceOf, SectionOf
<1>2. QED
  BY <1>1

\* What an input shows depends on the value of the field only.
ShownOf(value, f) ==
    CASE f \in Lists /\ value # Blank ->
               IF ThroughCsv(value) = << >> THEN Blank ELSE ThroughCsv(value)
      [] f = "required" -> IF value = TRUE THEN TRUE ELSE Blank
      [] f = "effect" -> IF value = "deny" THEN "deny" ELSE "allow"
      [] f = "min_assurance_level" -> IF value \in Levels THEN value ELSE Blank
      [] f \in TextInputs -> OneLine(value)
      [] OTHER -> value

\* An input shows what its field has.
LEMMA ShownFact ==
    ASSUME NEW rule, NEW f
    PROVE  /\ FieldOf(rule, f) = {} => Shown(rule, f) = ShownOf(Blank, f)
           /\ \A v : FieldOf(rule, f) = {v} => Shown(rule, f) = ShownOf(v, f)
<1> DEFINE in == PlaceOf(rule, f)
           value == IF f \in DOMAIN in THEN in[f] ELSE Blank
<1>1. Shown(rule, f) = ShownOf(value, f)
  BY Zenon DEF Shown, ShownOf, PlaceOf, SectionOf
<1> HIDE DEF in
<1>2. FieldOf(rule, f) = IF f \in DOMAIN in THEN {in[f]} ELSE {}
  BY FieldOfFact DEF in
<1>3. FieldOf(rule, f) = {} => value = Blank
  BY <1>2
<1>4. \A v : FieldOf(rule, f) = {v} => value = v
  BY <1>2
<1>5. QED
  BY <1>1, <1>3, <1>4

\* Rules with the same value for a field show it the same.
LEMMA ShownSame ==
    ASSUME NEW a, NEW b, NEW f, FieldOf(a, f) = FieldOf(b, f)
    PROVE  Shown(a, f) = Shown(b, f)
<1>1. FieldOf(a, f) = {} \/ \E v : FieldOf(a, f) = {v}
  BY FieldOfFact
<1>2. QED
  BY <1>1, ShownFact

\* What the two lists to choose from show.
LEMMA ShownEffect ==
    ASSUME NEW rule
    PROVE  /\ Shown(rule, "effect") \in {"allow", "deny"}
           /\ Shown(rule, "min_assurance_level") \in Levels \cup {Blank}
<1>1. /\ \A v : ShownOf(v, "effect") \in {"allow", "deny"}
      /\ \A v : ShownOf(v, "min_assurance_level") \in Levels \cup {Blank}
  BY DEF ShownOf, Lists, TextInputs
<1>2. \A f : FieldOf(rule, f) = {} \/ \E v : FieldOf(rule, f) = {v}
  BY FieldOfFact
<1>3. QED
  BY <1>1, <1>2, ShownFact

\* A field that passes the form is shown as it is.
LEMMA ShownPassing ==
    ASSUME NEW was, SchemaRule(was), NEW f \in Fields,
           \A value \in FieldOf(was, f) : PassesForm(f, value)
    PROVE  \/ /\ FieldOf(was, f) = {} /\ Shown(was, f) = Blank
              /\ f \notin {"id", "effect", "action"}
           \/ \E v : /\ FieldOf(was, f) = {v} /\ Shown(was, f) = v
                     /\ f \in {"id", "effect", "action"} \/ v # Blank
<1>1. {"id", "effect", "action"} \subseteq DOMAIN was /\ was.effect \in {"allow", "deny"}
  BY DEF SchemaRule
<1>2. f \in {"id", "effect", "action"} => FieldOf(was, f) = {was[f]}
  BY <1>1, FieldOfFact DEF PlaceOf, Plain
<1>3. CASE FieldOf(was, f) = {}
  <2>1. f \notin {"id", "effect", "action"}
    BY <1>2, <1>3
  <2>2. ShownOf(Blank, f) = Blank
    <3>1. Blank # TRUE /\ OneLine(Blank) = Blank
      BY InputsAssumption DEF OneLine
    <3>2. QED
      BY <2>1, <3>1 DEF ShownOf, Lists, TextInputs
  <2>3. QED
    BY <1>3, <2>1, <2>2, ShownFact
<1>4. CASE FieldOf(was, f) # {}
  <2>1. PICK v : FieldOf(was, f) = {v}
    BY <1>4, FieldOfFact
  <2>2. PassesForm(f, v) /\ Shown(was, f) = ShownOf(v, f)
    BY <2>1, ShownFact
  <2>3. CASE f \in Lists
    <3>0. f \notin {"required", "effect", "min_assurance_level"}
      BY <2>3 DEF Lists
    <3>1. v \notin {Blank, << >>} /\ ThroughCsv(v) = v
      BY <3>0, <2>2, <2>3 DEF PassesForm, Lists, TextInputs
    <3>2. ShownOf(v, f) = IF ThroughCsv(v) = << >> THEN Blank ELSE ThroughCsv(v)
      BY <3>0, <2>3, <3>1 DEF ShownOf, Lists, TextInputs
    <3>3. v # Blank /\ ShownOf(v, f) = v
      <4> DEFINE w == ThroughCsv(v)
                 none == << >>
      <4>1. v \notin {Blank, none} /\ w = v /\ ShownOf(v, f) = IF w = none THEN Blank ELSE w
        BY <3>1, <3>2
      <4> HIDE DEF w, none
      <4>2. QED
        BY <4>1
    <3>4. QED
      BY <2>1, <2>2, <3>3
  <2>4. CASE f = "required"
    <3>0. f \notin Lists \cup TextInputs
      BY <2>4 DEF Lists, TextInputs
    <3>1. v = TRUE
      BY <2>2, <2>4, <3>0 DEF PassesForm
    <3>2. Blank # TRUE
      BY InputsAssumption
    <3>3. ShownOf(v, f) = TRUE
      BY <2>4, <3>1 DEF ShownOf, Lists, TextInputs
    <3>4. QED
      BY <2>1, <2>2, <3>1, <3>2, <3>3
  <2>5. CASE f = "effect"
    <3>1. v = was.effect
      BY <1>2, <2>1, <2>5
    <3>2. ShownOf(v, f) = v
      BY <1>1, <3>1, <2>5 DEF ShownOf, Lists, TextInputs
    <3>3. QED
      BY <2>1, <2>2, <2>5, <3>2
  <2>6. CASE f = "min_assurance_level"
    <3>1. v # Blank
      BY <2>2, <2>6 DEF PassesForm, Lists, TextInputs
    <3>2. f \notin Plain /\ SectionOf(f) = "requirements"
      BY <2>6, SectionFact DEF Sections
    <3>3. f \in DOMAIN PlaceOf(was, f) /\ v = PlaceOf(was, f)[f]
      BY <2>1, FieldOfFact
    <3>4. PlaceOf(was, f) = Part(was, "requirements")
      BY <3>2 DEF PlaceOf
    <3>5. "requirements" \in DOMAIN was
      <4>1. DOMAIN << >> = {}
        OBVIOUS
      <4>2. QED
        BY <4>1, <3>3, <3>4 DEF Part
    <3>6. v = was.requirements["min_assurance_level"]
          /\ "min_assurance_level" \in DOMAIN was.requirements
      BY <2>6, <3>3, <3>4, <3>5 DEF Part
    <3>7. v \in Levels
      BY <3>5, <3>6 DEF SchemaRule
    <3>8. ShownOf(v, f) = v
      BY <2>6, <3>7 DEF ShownOf, Lists, TextInputs
    <3>9. QED
      BY <2>1, <2>2, <3>1, <3>8
  <2>7. CASE f \notin Lists \cup {"required", "effect", "min_assurance_level"}
    <3>1. v # Blank /\ (f \in TextInputs => OneLine(v) = v)
      BY <2>2, <2>7 DEF PassesForm
    <3>2. ShownOf(v, f) = v
      BY <2>7, <3>1 DEF ShownOf
    <3>3. QED
      BY <2>1, <2>2, <3>1, <3>2
  <2>8. QED
    BY <2>3, <2>4, <2>5, <2>6, <2>7
<1>5. QED
  BY <1>3, <1>4

\* Synced, taken apart.
ListBuilt(c) == RebuildObligations(ListOf(c.rule), c.form, c.stash)
Read(c) == AsRead(c.form.fields)
SectionAfter(c, s) == SetOrDel(Part(c.rule, s), Read(c), Sections[s])
PartsAfter(c) ==
    [k \in DOMAIN Sections \cup {"obligations"} |->
        IF k = "obligations" THEN ListBuilt(c).list ELSE SectionAfter(c, k)]
LeftOut(c) ==
    {k \in DOMAIN PartsAfter(c) : DOMAIN PartsAfter(c)[k] = {}}
       \cup {k \in {"description"} : Read(c)[k] = Blank}
RuleAfter(c) ==
    [k \in (DOMAIN c.rule \cup DOMAIN PartsAfter(c) \cup Plain) \ LeftOut(c) |->
        CASE k \in DOMAIN PartsAfter(c) -> PartsAfter(c)[k]
          [] k \in Plain -> Read(c)[k]
          [] OTHER -> c.rule[k]]

\* Synced, put together.
LEMMA SyncedMeans ==
    ASSUME NEW c
    PROVE  Synced(c) = [c EXCEPT !.stash = ListBuilt(c).stash, !.rule = RuleAfter(c)]
BY Zenon DEF Synced, RuleAfter, LeftOut, PartsAfter, SectionAfter, Read, ListBuilt, ListOf

\* What is read of an input is what it has, but for the blanks around a text; one
\* that is empty or cannot be read is read as it is.
LEMMA ReadFact ==
    ASSUME NEW c, NEW f \in Fields
    PROVE  /\ Read(c)[f] = IF f \in TextInputs THEN Trimmed(c.form.fields[f])
                            ELSE c.form.fields[f]
           /\ c.form.fields[f] \in {Blank, Bad} => Read(c)[f] = c.form.fields[f]
<1> DEFINE typed == c.form.fields[f]
<1>1. Read(c)[f] = IF f \in TextInputs THEN Trimmed(typed) ELSE typed
  BY DEF Read, AsRead
<1> HIDE DEF typed
<1>2. typed \in {Blank, Bad} => Trimmed(typed) = typed
  BY InputsAssumption DEF Trimmed
<1>3. QED
  BY <1>1, <1>2 DEF typed

\* A card is a record of these.
CardKeys == {"rule", "form", "stash", "origin", "touched"}

\* A function on the keys of a card is the record of its values.
LEMMA CardRecord ==
    ASSUME NEW x, x = [k \in CardKeys |-> x[k]],
           NEW r, x.rule = r, NEW f, x.form = f, NEW s, x.stash = s,
           NEW o, x.origin = o, NEW t, x.touched = t
    PROVE  x = [rule |-> r, form |-> f, stash |-> s, origin |-> o, touched |-> t]
BY DEF CardKeys

\* A card after its inputs are read.
LEMMA SyncedIs ==
    ASSUME NEW c, CardTyped(c)
    PROVE  Synced(c) = [rule |-> RuleAfter(c), form |-> c.form, stash |-> ListBuilt(c).stash,
                        origin |-> c.origin, touched |-> c.touched]
<1>1. PICK a, b, d, o, p : c = [rule |-> a, form |-> b, stash |-> d, origin |-> o, touched |-> p]
  BY DEF CardTyped
<1> DEFINE r == RuleAfter(c)
           l == ListBuilt(c).stash
<1>2. Synced(c) = [c EXCEPT !.stash = l, !.rule = r]
  BY SyncedMeans
<1> HIDE DEF r, l
<1>3. [c EXCEPT !.stash = l, !.rule = r] =
         [rule |-> r, form |-> c.form, stash |-> l, origin |-> c.origin, touched |-> c.touched]
  <2> DEFINE x == [c EXCEPT !.stash = l, !.rule = r]
  <2>1. DOMAIN c = CardKeys
    BY <1>1 DEF CardKeys
  <2>2. /\ x.rule = r /\ x.form = c.form /\ x.stash = l
        /\ x.origin = c.origin /\ x.touched = c.touched
    BY <2>1 DEF CardKeys
  <2>3. x = [k \in CardKeys |-> x[k]]
    BY <2>1
  <2> HIDE DEF x
  <2>4. x = [rule |-> r, form |-> c.form, stash |-> l, origin |-> c.origin, touched |-> c.touched]
    BY <2>2, <2>3, CardRecord
  <2>5. QED
    BY <2>4 DEF x
<1>4. QED
  BY <1>2, <1>3 DEF r, l

\* The obligations of a rule are a list of obligations.
LEMMA ListTyped ==
    ASSUME NEW rule, RuleTyped(rule)
    PROVE  ListOf(rule) \in Seq(PolicyObligation)
BY EmptySeq DEF RuleTyped, ListOf, Part

\* The list and the stash of a card after its inputs are read.
LEMMA ListBuiltFact ==
    ASSUME NEW c, CardTyped(c)
    PROVE  /\ ListBuilt(c).list \in Seq(PolicyObligation)
           /\ DOMAIN ListBuilt(c).stash = Known /\ StashTyped(ListBuilt(c).stash)
           /\ OfTypes(ListBuilt(c).list, Foreign) = OfTypes(ListOf(c.rule), Foreign)
           /\ \A t \in Known \ c.form.checked :
                 /\ OfType(ListBuilt(c).list, t) = << >>
                 /\ ListBuilt(c).stash[t] = c.stash[t] \o OfType(ListOf(c.rule), t)
           /\ \A t \in c.form.checked :
                 /\ SamePatched(OfType(ListBuilt(c).list, t),
                                IF OfType(ListOf(c.rule), t) = << >> THEN Back(c.stash, t)
                                ELSE OfType(ListOf(c.rule), t), t, c.form)
                 /\ ListBuilt(c).stash[t] = IF OfType(ListOf(c.rule), t) = << >> THEN << >>
                                            ELSE c.stash[t]
<1> DEFINE list == ListOf(c.rule)
           form == c.form
           stash == c.stash
<1>1. list \in Seq(PolicyObligation)
  BY ListTyped DEF CardTyped
<1>2. StashTyped(stash) /\ FormReads(form) /\ form.checked \subseteq Known
  BY DEF CardTyped, StashTyped, FormReads
<1> HIDE DEF list, form, stash
<1> DEFINE b == RebuildObligations(list, form, stash)
<1>3. /\ b.list \in Seq(PolicyObligation)
      /\ DOMAIN b.stash = Known /\ StashTyped(b.stash)
      /\ OfTypes(b.list, Foreign) = OfTypes(list, Foreign)
  BY <1>1, <1>2, RebuildFact
<1>4. \A t \in Known \ form.checked :
         OfType(b.list, t) = << >> /\ b.stash[t] = stash[t] \o OfType(list, t)
  BY <1>1, <1>2, RebuildFact
<1>5. \A t \in form.checked :
         /\ SamePatched(OfType(b.list, t),
                        IF OfType(list, t) = << >> THEN Back(stash, t) ELSE OfType(list, t), t, form)
         /\ b.stash[t] = IF OfType(list, t) = << >> THEN << >> ELSE stash[t]
  BY <1>1, <1>2, RebuildFact
<1>6. b = ListBuilt(c)
  BY DEF ListBuilt, list, form, stash
<1> HIDE DEF b
<1>7. QED
  BY <1>3, <1>4, <1>5, <1>6 DEF list, form, stash

\* The rule of a card after its inputs are read.
LEMMA RuleAfterFact ==
    ASSUME NEW c, CardTyped(c)
    PROVE  /\ DOMAIN RuleAfter(c) \subseteq DOMAIN c.rule \cup DOMAIN Sections \cup {"obligations"} \cup Plain
           /\ \A s \in DOMAIN Sections :
                 /\ s \in DOMAIN RuleAfter(c) => RuleAfter(c)[s] = SectionAfter(c, s)
                 /\ s \notin DOMAIN RuleAfter(c) => DOMAIN SectionAfter(c, s) = {}
           /\ ListOf(RuleAfter(c)) = ListBuilt(c).list
           /\ "obligations" \in DOMAIN RuleAfter(c) => RuleAfter(c).obligations = ListBuilt(c).list
           /\ "when" \in DOMAIN RuleAfter(c) <=> "when" \in DOMAIN c.rule
           /\ "when" \in DOMAIN c.rule => RuleAfter(c).when = c.rule.when
           /\ \A f \in {"id", "effect", "action"} :
                 f \in DOMAIN RuleAfter(c) /\ RuleAfter(c)[f] = Read(c)[f]
           /\ "description" \in DOMAIN RuleAfter(c) <=> Read(c)["description"] # Blank
           /\ "description" \in DOMAIN RuleAfter(c) =>
                 RuleAfter(c)["description"] = Read(c)["description"]
<1> DEFINE P == PartsAfter(c)
           r == RuleAfter(c)
           list == ListBuilt(c).list
<1>1. DOMAIN P = {"constraints", "requirements", "proof", "obligations"}
      /\ P["obligations"] = list /\ \A s \in DOMAIN Sections : P[s] = SectionAfter(c, s)
  BY SectionFact DEF PartsAfter
<1>2. list \in Seq(PolicyObligation)
  BY ListBuiltFact
<1>3. DOMAIN r = (DOMAIN c.rule \cup DOMAIN P \cup Plain) \ LeftOut(c)
      /\ \A k \in DOMAIN r : r[k] = CASE k \in DOMAIN P -> P[k]
                                      [] k \in Plain -> Read(c)[k]
                                      [] OTHER -> c.rule[k]
  BY DEF RuleAfter
<1>4. LeftOut(c) = {k \in DOMAIN P : DOMAIN P[k] = {}}
                      \cup {k \in {"description"} : Read(c)[k] = Blank}
  BY DEF LeftOut
<1> HIDE DEF P, r, list
<1>5. \A k \in DOMAIN r : /\ k \in DOMAIN P => r[k] = P[k]
                          /\ k \in Plain => r[k] = Read(c)[k]
                          /\ k \notin DOMAIN P /\ k \notin Plain => r[k] = c.rule[k]
  BY <1>1, <1>3 DEF Plain
<1>6. Plain = {"id", "effect", "action", "description"}
  BY DEF Plain
<1>7. /\ "when" \in DOMAIN r <=> "when" \in DOMAIN c.rule
      /\ "when" \in DOMAIN c.rule => r.when = c.rule.when
  BY <1>1, <1>3, <1>4, <1>5, <1>6
<1>8. \A f \in {"id", "effect", "action"} : f \in DOMAIN r /\ r[f] = Read(c)[f]
  BY <1>1, <1>3, <1>4, <1>5, <1>6
<1>9. /\ "description" \in DOMAIN r <=> Read(c)["description"] # Blank
      /\ "description" \in DOMAIN r => r["description"] = Read(c)["description"]
  BY <1>1, <1>3, <1>4, <1>5, <1>6
<1>10. \A s \in DOMAIN Sections :
          /\ s \in DOMAIN r => r[s] = SectionAfter(c, s)
          /\ s \notin DOMAIN r => DOMAIN SectionAfter(c, s) = {}
  <2> SUFFICES ASSUME NEW s \in DOMAIN Sections
               PROVE  /\ s \in DOMAIN r => r[s] = SectionAfter(c, s)
                      /\ s \notin DOMAIN r => DOMAIN SectionAfter(c, s) = {}
    OBVIOUS
  <2>1. s \in DOMAIN P /\ P[s] = SectionAfter(c, s) /\ s # "description"
    BY <1>1, SectionFact
  <2>2. s \in DOMAIN r => r[s] = SectionAfter(c, s)
    BY <1>5, <2>1
  <2>3. s \notin DOMAIN r => s \in LeftOut(c)
    BY <1>3, <2>1
  <2>4. s \in LeftOut(c) => DOMAIN P[s] = {}
    BY <1>4, <2>1
  <2>5. QED
    BY <2>1, <2>2, <2>3, <2>4
<1>11. "obligations" \in DOMAIN r => r.obligations = list
  BY <1>1, <1>5
<1>12. "obligations" \notin DOMAIN r => list = << >>
  <2>1. "obligations" \notin DOMAIN r => DOMAIN list = {}
    BY <1>1, <1>3, <1>4
  <2>2. DOMAIN list = {} => list = << >>
    BY <1>2, EmptySeq, LenProperties
  <2>3. QED
    BY <2>1, <2>2
<1>13. ListOf(r) = list
  BY <1>11, <1>12 DEF ListOf, Part
<1>14. DOMAIN r \subseteq DOMAIN c.rule \cup DOMAIN Sections \cup {"obligations"} \cup Plain
  BY <1>1, <1>3, SectionFact
<1>15. QED
  BY <1>7, <1>8, <1>9, <1>10, <1>11, <1>13, <1>14 DEF r, list

\* A field of it: what is read of its input, the old value if that is nothing.
LEMMA FieldAfter ==
    ASSUME NEW c, CardTyped(c), NEW f \in Fields
    PROVE  LET typed == Read(c)[f] IN
           FieldOf(RuleAfter(c), f) =
              IF f \in {"id", "effect", "action"} THEN {typed}
              ELSE IF f = "description" THEN IF typed = Blank THEN {} ELSE {typed}
              ELSE IF typed = Bad THEN FieldOf(c.rule, f)
              ELSE IF typed = Blank THEN {} ELSE {typed}
<1> DEFINE typed == Read(c)[f]
           r == RuleAfter(c)
<1>1. CASE f \in Plain
  <2>1. PlaceOf(r, f) = r
    BY <1>1 DEF PlaceOf
  <2>2. FieldOf(r, f) = IF f \in DOMAIN r THEN {r[f]} ELSE {}
    BY <2>1, FieldOfFact
  <2>3. QED
    BY <2>2, <1>1, RuleAfterFact, ZenonT(40) DEF Plain
<1>2. CASE f \notin Plain
  <2> DEFINE s == SectionOf(f)
             old == Part(c.rule, s)
             new == SectionAfter(c, s)
  <2>1. s \in DOMAIN Sections /\ f \in Sections[s]
    BY <1>2, SectionFact
  <2>2. PlaceOf(r, f) = Part(r, s) /\ PlaceOf(c.rule, f) = old
    BY <1>2 DEF PlaceOf
  <2>3. new = SetOrDel(old, Read(c), Sections[s])
    BY DEF SectionAfter
  <2> HIDE DEF s, old, new
  <2>4. f \in DOMAIN Part(r, s) <=> f \in DOMAIN new
    <3>1. s \in DOMAIN r => Part(r, s) = new
      BY <2>1, RuleAfterFact DEF Part, new
    <3>2. s \notin DOMAIN r => DOMAIN new = {} /\ DOMAIN Part(r, s) = {}
      <4>1. s \notin DOMAIN r => Part(r, s) = << >>
        BY DEF Part
      <4>2. s \notin DOMAIN r => DOMAIN new = {}
        BY <2>1, RuleAfterFact DEF new
      <4>3. DOMAIN << >> = {}
        OBVIOUS
      <4>4. QED
        BY <4>1, <4>2, <4>3
    <3>3. QED
      BY <3>1, <3>2
  <2>5. f \in DOMAIN Part(r, s) => Part(r, s)[f] = new[f]
    <3>1. s \in DOMAIN r => Part(r, s) = new
      BY <2>1, RuleAfterFact DEF Part, new
    <3>2. s \notin DOMAIN r => DOMAIN Part(r, s) = {}
      <4>1. s \notin DOMAIN r => Part(r, s) = << >>
        BY DEF Part
      <4>2. DOMAIN << >> = {}
        OBVIOUS
      <4>3. QED
        BY <4>1, <4>2
    <3>3. QED
      BY <3>1, <3>2
  <2>6. FieldOf(r, f) = IF f \in DOMAIN new THEN {new[f]} ELSE {}
    BY <2>2, <2>4, <2>5, FieldOfFact
  <2>7. FieldOf(c.rule, f) = IF f \in DOMAIN old THEN {old[f]} ELSE {}
    BY <2>2, FieldOfFact
  <2>8. /\ f \in DOMAIN new <=> typed \notin {Blank, Bad} \/ (f \in DOMAIN old /\ typed = Bad)
        /\ typed \notin {Blank, Bad} => new[f] = typed
        /\ f \in DOMAIN old /\ typed = Bad => new[f] = old[f]
    <3>1. DOMAIN new = {k \in DOMAIN old : k \notin Sections[s] \/ Read(c)[k] = Bad}
                          \cup {k \in Sections[s] : Read(c)[k] \notin {Blank, Bad}}
          /\ \A k \in DOMAIN new : new[k] = IF k \in {x \in Sections[s] : Read(c)[x] \notin {Blank, Bad}}
                                            THEN Read(c)[k] ELSE old[k]
      BY <2>3 DEF SetOrDel
    <3>2. QED
      BY <3>1, <2>1
  <2>9. f \notin {"id", "effect", "action", "description"}
    BY <1>2 DEF Plain
  <2>10. Blank # Bad
    BY InputsAssumption
  <2>11. QED
    BY <2>6, <2>7, <2>8, <2>9, <2>10
<1>3. QED
  BY <1>1, <1>2

-----------------------------------------------------------------------------
(* PolicyBuilder: what holds of a card stays so when its inputs are read,  *)
(* when it is drawn and when it is typed into.                             *)

\* The entries of one type: the first of them is the first of its type.
LEMMA OwnFact ==
    ASSUME NEW rule, RuleTyped(rule), NEW t
    PROVE  /\ OfType(ListOf(rule), t) \in Seq(PolicyObligation)
           /\ t \in Types(ListOf(rule)) <=> OfType(ListOf(rule), t) # << >>
           /\ Types(OfType(ListOf(rule), t)) \subseteq {t}
<1> DEFINE list == ListOf(rule)
<1>1. list \in Seq(PolicyObligation)
  BY ListTyped
<1> HIDE DEF list
<1>2. OfTypes(list, {t}) \in Seq(PolicyObligation)
      /\ ({t} \cap Types(list) = {} <=> OfTypes(list, {t}) = << >>)
  BY <1>1, OfTypesNone
<1>3. Types(OfTypes(list, {t})) = Types(list) \cap {t}
  BY <1>1, OfTypesTypes
<1>4. QED
  BY <1>2, <1>3 DEF list, OfType

\* A list that begins with another has its first entry.
LEMMA FirstFact ==
    ASSUME NEW s \in Seq(PolicyObligation), s # << >>, NEW t, Types(s) \subseteq {t}
    PROVE  1 \in DOMAIN s /\ Len(s) \in Nat \ {0} /\ s[1] \in PolicyObligation /\ s[1].type = t
<1>1. Len(s) \in Nat \ {0} /\ DOMAIN s = 1..Len(s)
  BY EmptySeq, LenProperties
<1>2. 1 \in DOMAIN s /\ s[1] \in PolicyObligation
  BY <1>1, ElementOfSeq
<1>3. s[1].type \in Types(s)
  BY <1>2 DEF Types
<1>4. QED
  BY <1>1, <1>2, <1>3

\* What is due of a type is never empty.
LEMMA DueFact ==
    ASSUME NEW was, RuleTyped(was), NEW t \in Known
    PROVE  /\ Due(was, t) \in Seq(PolicyObligation) /\ DOMAIN Due(was, t) = 1..Len(Due(was, t))
           /\ 1 \in DOMAIN Due(was, t) /\ Len(Due(was, t)) \in Nat \ {0}
           /\ Due(was, t)[1] \in PolicyObligation /\ Due(was, t)[1].type = t
<1> DEFINE d == Due(was, t)
<1>1. d \in Seq(PolicyObligation) /\ Types(d) \subseteq {t} /\ d # << >>
  <2>1. CASE OfType(ListOf(was), t) = << >>
    BY <2>1, BareFact DEF Due
  <2>2. CASE OfType(ListOf(was), t) # << >>
    BY <2>2, OwnFact DEF Due
  <2>3. QED
    BY <2>1, <2>2
<1> HIDE DEF d
<1>2. QED
  BY <1>1, FirstFact, LenProperties DEF d

\* What is due of a type, patched by what was not touched, is still due.
LEMMA PatchedDue ==
    ASSUME NEW was, RuleTyped(was), NEW t \in Known, NEW form, FormReads(form), NEW touched,
           t \in DOMAIN form.params => form.params[t] \in {Bad, Due(was, t)[1].params} \/ touched,
           NEW b, SameBut(b, Due(was, t), touched),
           NEW list, SamePatched(list, b, t, form), DOMAIN b = 1..Len(b)
    PROVE  SameBut(list, Due(was, t), touched)
<1> DEFINE d == Due(was, t)
<1>1. /\ DOMAIN d = 1..Len(d) /\ 1 \in DOMAIN d
      /\ d[1] \in PolicyObligation /\ d[1].type = t
  BY DueFact
<1>2. t \in Reads(form) => form.params[t] = d[1].params \/ touched
  BY DEF Reads
<1> HIDE DEF d
<1>3. Len(b) = Len(d) /\ Len(list) = Len(d)
      /\ \A k \in DOMAIN d : b[k] = d[k] \/ (k = 1 /\ touched)
  BY DEF SameBut, SamePatched, d
<1>4. ASSUME NEW k \in DOMAIN d, ~(k = 1 /\ touched) PROVE list[k] = d[k]
  <2>1. b[k] = d[k] /\ list[k] = IF k = 1 /\ t \in Reads(form) THEN Patch(b[1], form) ELSE b[k]
    BY <1>1, <1>3, <1>4 DEF SamePatched
  <2>2. CASE k = 1 /\ t \in Reads(form)
    <3>1. form.params[t] = d[1].params
      BY <1>2, <1>4, <2>2
    <3>2. Patch(d[1], form) = [type |-> t, params |-> form.params[t]]
      BY <1>1, <2>2, PatchFact
    <3>3. d[1] = [type |-> t, params |-> d[1].params]
      BY <1>1 DEF PolicyObligation
    <3>4. QED
      BY <2>1, <2>2, <3>1, <3>2, <3>3
  <2>3. CASE ~(k = 1 /\ t \in Reads(form))
    BY <2>1, <2>3
  <2>4. QED
    BY <2>2, <2>3
<1>5. QED
  BY <1>3, <1>4 DEF SameBut, d

\* What is owed of an obligation type stays so when the inputs are read, and is paid.
LEMMA OwedSynced ==
    ASSUME NEW c, CardTyped(c), NEW was, RuleTyped(was), NEW t \in Known, OwedKept(c, was, t)
    PROVE  /\ OwedKept(Synced(c), was, t)
           /\ t \notin c.form.checked => OfType(ListOf(Synced(c).rule), t) = << >>
           /\ t \in c.form.checked =>
                 SameBut(OfType(ListOf(Synced(c).rule), t), Due(was, t), t \in c.touched)
<1> DEFINE d == Due(was, t)
           S == c.stash[t]
           L == OfType(ListOf(c.rule), t)
           L1 == OfType(ListBuilt(c).list, t)
           S1 == ListBuilt(c).stash[t]
           touched == t \in c.touched
           form == c.form
<1>1. /\ S \in Seq(PolicyObligation) /\ L \in Seq(PolicyObligation)
      /\ FormReads(form) /\ RuleTyped(c.rule)
  BY OwnFact DEF CardTyped, FormReads
<1>2. /\ S = << >> \/ L = << >>
      /\ \/ S = << >> /\ L = << >> /\ OfType(ListOf(was), t) = << >>
         \/ SameBut(S \o L, d, touched)
      /\ t \in DOMAIN form.params => form.params[t] \in {Bad, d[1].params} \/ touched
  BY DEF OwedKept
<1>3. /\ t \notin form.checked => L1 = << >> /\ S1 = S \o L
      /\ t \in form.checked =>
            /\ SamePatched(L1, IF L = << >> THEN Back(c.stash, t) ELSE L, t, form)
            /\ S1 = IF L = << >> THEN << >> ELSE S
      /\ form.checked \subseteq Known
  BY ListBuiltFact DEF CardTyped
<1>4. Synced(c) = [rule |-> RuleAfter(c), form |-> c.form, stash |-> ListBuilt(c).stash,
                   origin |-> c.origin, touched |-> c.touched]
  BY SyncedIs
<1>5. ListOf(Synced(c).rule) = ListBuilt(c).list
  BY <1>4, RuleAfterFact
<1>6. OfType(ListOf(Synced(c).rule), t) = L1 /\ Synced(c).stash[t] = S1
      /\ Synced(c).form = form /\ Synced(c).touched = c.touched
  BY <1>4, <1>5
<1>7. /\ d \in Seq(PolicyObligation) /\ Len(d) \in Nat \ {0}
  BY DueFact
<1>8. OfType(ListOf(was), t) = << >> => d = <<[type |-> t, params |-> Blank]>>
  BY DEF Due
<1>9. Back(c.stash, t) = IF S = << >> THEN <<[type |-> t, params |-> Blank]>> ELSE S
  BY DEF Back
<1> HIDE DEF S, L, S1, L1, d, form
<1>10. CASE t \notin form.checked
  <2>1. L1 = << >> /\ S1 = S \o L
    BY <1>3, <1>10
  <2>2. S \o L \in Seq(PolicyObligation)
    BY <1>1, ConcatProperties
  <2>3. S1 \o L1 = S \o L
    BY <2>1, <2>2, ConcatEmptySeq
  <2>4. S = << >> /\ L = << >> => S1 = << >>
    BY <2>1, <1>1, ConcatEmptySeq
  <2>5. \/ S1 = << >> /\ L1 = << >> /\ OfType(ListOf(was), t) = << >>
        \/ SameBut(S1 \o L1, d, touched)
    BY <1>2, <2>1, <2>3, <2>4
  <2>6. OwedKept(Synced(c), was, t)
    BY <1>2, <1>6, <2>1, <2>5 DEF OwedKept, d
  <2>7. QED
    BY <1>6, <1>10, <2>1, <2>6 DEF form
<1>11. CASE t \in form.checked
  <2> DEFINE b == IF L = << >> THEN Back(c.stash, t) ELSE L
  <2>1. SameBut(b, d, touched) /\ DOMAIN b = 1..Len(b)
    <3>1. CASE L # << >>
      <4>1. S = << >> /\ SameBut(S \o L, d, touched) /\ S \o L = L
        BY <1>1, <1>2, <3>1, ConcatEmptySeq
      <4>2. QED
        BY <4>1, <3>1, <1>1, LenProperties
    <3>2. CASE L = << >> /\ S # << >>
      <4>1. SameBut(S \o L, d, touched) /\ S \o L = S /\ b = S
        BY <1>1, <1>2, <1>9, <3>2, ConcatEmptySeq
      <4>2. QED
        BY <4>1, <1>1, LenProperties
    <3>3. CASE L = << >> /\ S = << >>
      <4>1. S \o L = << >> /\ Len(<< >>) = 0
        BY <1>1, <3>3, ConcatEmptySeq
      <4>2. ~SameBut(S \o L, d, touched)
        BY <4>1, <1>7 DEF SameBut
      <4>3. b = d
        BY <4>2, <3>3, <1>2, <1>8, <1>9
      <4>4. SameBut(d, d, touched)
        BY DEF SameBut
      <4>5. QED
        BY <4>3, <4>4, <1>7, LenProperties
    <3>4. QED
      BY <3>1, <3>2, <3>3
  <2>2. SamePatched(L1, b, t, form) /\ S1 = << >>
    BY <1>2, <1>3, <1>11
  <2> HIDE DEF b
  <2>3. SameBut(L1, d, touched)
    BY <1>1, <1>2, <2>1, <2>2, PatchedDue DEF d
  <2>4. L1 \in Seq(PolicyObligation)
    BY ListBuiltFact, OfTypesNone DEF L1, OfType
  <2>5. S1 \o L1 = L1
    BY <2>2, <2>4, ConcatEmptySeq
  <2>6. OwedKept(Synced(c), was, t)
    BY <1>2, <1>6, <2>2, <2>3, <2>5 DEF OwedKept, d
  <2>7. QED
    BY <1>6, <1>11, <2>3, <2>6 DEF form, d
<1>12. QED
  BY <1>10, <1>11

\* A field that was kept is kept when the inputs are read.
LEMMA FieldSynced ==
    ASSUME NEW c, CardTyped(c), NEW was, SchemaRule(was), NEW f \in Fields, FieldKept(c, was, f)
    PROVE  FieldKept(Synced(c), was, f)
<1> SUFFICES ASSUME \A value \in FieldOf(was, f) : PassesForm(f, value)
             PROVE  /\ FieldOf(Synced(c).rule, f) = FieldOf(was, f)
                    /\ \/ Synced(c).form.fields[f] = Shown(was, f)
                       \/ f \notin Plain /\ Synced(c).form.fields[f] = Bad
  BY DEF FieldKept
<1> DEFINE typed == Read(c)[f]
           entry == c.form.fields[f]
<1>1. Synced(c).rule = RuleAfter(c) /\ Synced(c).form = c.form
  BY SyncedIs
<1>2. /\ FieldOf(c.rule, f) = FieldOf(was, f)
      /\ entry = Shown(was, f) \/ (f \notin Plain /\ entry = Bad)
  BY DEF FieldKept
<1>3. \/ /\ FieldOf(was, f) = {} /\ Shown(was, f) = Blank
         /\ f \notin {"id", "effect", "action"}
      \/ \E v : /\ FieldOf(was, f) = {v} /\ Shown(was, f) = v
                /\ f \in {"id", "effect", "action"} \/ v # Blank
  BY ShownPassing
<1>4. FieldOf(RuleAfter(c), f) =
         IF f \in {"id", "effect", "action"} THEN {typed}
         ELSE IF f = "description" THEN IF typed = Blank THEN {} ELSE {typed}
         ELSE IF typed = Bad THEN FieldOf(c.rule, f)
         ELSE IF typed = Blank THEN {} ELSE {typed}
  BY FieldAfter
<1>5. f \in Plain <=> f \in {"id", "effect", "action"} \/ f = "description"
  BY DEF Plain
<1>6. typed = entry
  <2>1. /\ typed = IF f \in TextInputs THEN Trimmed(entry) ELSE entry
        /\ entry \in {Blank, Bad} => typed = entry
    BY ReadFact
  <2>2. f \in TextInputs => f \notin Lists \cup {"required"}
    BY DEF TextInputs, Lists
  <2>3. f \in TextInputs => \A v \in FieldOf(was, f) : Trimmed(v) = v
    BY <2>2 DEF PassesForm
  <2> HIDE DEF typed, entry
  <2>4. QED
    BY <1>2, <1>3, <2>1, <2>3
<1> HIDE DEF typed, entry
<1>7. Blank # Bad
  BY InputsAssumption
<1>8. FieldOf(RuleAfter(c), f) = FieldOf(was, f)
  BY <1>2, <1>3, <1>4, <1>5, <1>6, <1>7
<1>9. QED
  BY <1>1, <1>2, <1>8 DEF entry

\* Reading the inputs leaves a card a card.
LEMMA SyncedTyped ==
    ASSUME NEW c, CardTyped(c)
    PROVE  CardTyped(Synced(c))
<1> DEFINE d == Synced(c)
<1>1. d = [rule |-> RuleAfter(c), form |-> c.form, stash |-> ListBuilt(c).stash,
           origin |-> c.origin, touched |-> c.touched]
  BY SyncedIs
<1>2. d = [rule |-> d.rule, form |-> d.form, stash |-> d.stash,
           origin |-> d.origin, touched |-> d.touched]
  BY <1>1
<1>3. d.rule = RuleAfter(c) /\ d.form = c.form /\ d.stash = ListBuilt(c).stash
  BY <1>1
<1>4. RuleTyped(RuleAfter(c))
  <2>1. RuleTyped(c.rule)
    BY DEF CardTyped
  <2>2. "when" \in DOMAIN RuleAfter(c) =>
           /\ IsTree(RuleAfter(c).when)
           /\ \A at \in DOMAIN RuleAfter(c).when :
                 DOMAIN RuleAfter(c).when[at] = {"keys", "match"}
    BY <2>1, RuleAfterFact DEF RuleTyped
  <2>3. "obligations" \in DOMAIN RuleAfter(c) =>
           RuleAfter(c).obligations \in Seq(PolicyObligation)
    BY RuleAfterFact, ListBuiltFact
  <2>4. QED
    BY <2>2, <2>3 DEF RuleTyped
<1>5. DOMAIN d.stash = Known
      /\ \A t \in Known : d.stash[t] \in Seq(PolicyObligation) /\ Types(d.stash[t]) \subseteq {t}
  BY <1>3, ListBuiltFact DEF StashTyped
<1> HIDE DEF d
<1>6. CardTyped(d)
  BY <1>2, <1>3, <1>4, <1>5 DEF CardTyped
<1>7. QED
  BY <1>6 DEF d

\* Reading the inputs keeps what holds of a card.
LEMMA SyncedInv ==
    ASSUME NEW c, CardInv(c)
    PROVE  CardInv(Synced(c)) /\ Synced(c).origin = c.origin /\ Synced(c).touched = c.touched
<1>1. CardTyped(c)
  BY DEF CardInv
<1>2. /\ Synced(c).rule = RuleAfter(c) /\ Synced(c).form = c.form
      /\ Synced(c).origin = c.origin /\ Synced(c).touched = c.touched
  BY <1>1, SyncedIs
<1>3. ASSUME NEW was \in c.origin PROVE CardKept(Synced(c), was)
  <2>1. CardKept(c, was)
    BY DEF CardInv
  <2>2. SUFFICES ASSUME SchemaRule(was)
                 PROVE  /\ \A f \in Fields \ c.touched : FieldKept(Synced(c), was, f)
                        /\ "when" \notin c.touched => Part(RuleAfter(c), "when") = Part(was, "when")
                        /\ OfTypes(ListOf(RuleAfter(c)), Foreign) = OfTypes(ListOf(was), Foreign)
                        /\ \A t \in Known : OwedKept(Synced(c), was, t)
    BY <1>2, <2>1 DEF CardKept
  <2>3. \A f \in Fields \ c.touched : FieldKept(Synced(c), was, f)
    BY <1>1, <2>1, <2>2, FieldSynced DEF CardKept
  <2>4. "when" \notin c.touched => Part(RuleAfter(c), "when") = Part(was, "when")
    BY <1>1, <2>1, <2>2, RuleAfterFact DEF CardKept, Part
  <2>5. OfTypes(ListOf(RuleAfter(c)), Foreign) = OfTypes(ListOf(was), Foreign)
    BY <1>1, <2>1, <2>2, RuleAfterFact, ListBuiltFact DEF CardKept
  <2>6. \A t \in Known : OwedKept(Synced(c), was, t)
    BY <1>1, <2>1, <2>2, OwedSynced DEF CardKept
  <2>7. QED
    BY <2>3, <2>4, <2>5, <2>6
<1>4. QED
  BY <1>1, <1>2, <1>3, SyncedTyped DEF CardInv

\* Reading the inputs adds no key that the server does not know.
LEMMA SyncedStrict ==
    ASSUME NEW c, CardTyped(c), CardStrict(c)
    PROVE  CardStrict(Synced(c))
<1> DEFINE r == RuleAfter(c)
           keys == {"id", "effect", "action", "description", "when", "obligations"} \cup DOMAIN Sections
<1>1. Synced(c).rule = r
  BY SyncedIs
<1>2. DOMAIN r \subseteq keys
  BY RuleAfterFact DEF CardStrict, Plain
<1>3. ASSUME NEW s \in DOMAIN Sections \cap DOMAIN r PROVE DOMAIN r[s] \subseteq Sections[s]
  <2>1. r[s] = SetOrDel(Part(c.rule, s), Read(c), Sections[s])
    BY RuleAfterFact DEF SectionAfter
  <2>2. DOMAIN Part(c.rule, s) \subseteq Sections[s]
    <3>1. CASE s \in DOMAIN c.rule
      BY <3>1 DEF CardStrict, Part
    <3>2. CASE s \notin DOMAIN c.rule
      BY <3>2 DEF Part
    <3>3. QED
      BY <3>1, <3>2
  <2>3. QED
    BY <2>1, <2>2 DEF SetOrDel
<1>4. "when" \in DOMAIN r =>
         \A at \in DOMAIN r.when : r.when[at].keys \in {{"all"}, {"any"}, {"not"}, {"match"}}
  BY RuleAfterFact DEF CardStrict
<1> HIDE DEF r
<1>5. QED
  BY <1>1, <1>2, <1>3, <1>4 DEF CardStrict

\* The inputs of a card as they are drawn.
LEMMA FormFact ==
    ASSUME NEW rule, RuleTyped(rule)
    PROVE  LET form == FormOf(rule) IN
           /\ form = [fields |-> form.fields, checked |-> form.checked, params |-> form.params]
           /\ DOMAIN form.fields = Fields /\ \A f \in Fields : form.fields[f] = Shown(rule, f)
           /\ form.fields["effect"] \in {"allow", "deny"}
           /\ form.fields["min_assurance_level"] \in Levels \cup {Blank}
           /\ form.checked \subseteq Known
           /\ DOMAIN form.params = Known \cap Types(ListOf(rule))
           /\ \A t \in DOMAIN form.params :
                 /\ form.params[t] = OfType(ListOf(rule), t)[1].params
                 /\ form.params[t] \in TypedParams
<1> DEFINE form == FormOf(rule)
           checked == Known \cap Types(ListOf(rule))
<1>1. form = [fields |-> [f \in Fields |-> Shown(rule, f)], checked |-> checked,
              params |-> [t \in checked |-> OfType(ListOf(rule), t)[1].params]]
  BY DEF FormOf, ListOf
<1>2. "effect" \in Fields /\ "min_assurance_level" \in Fields
  BY DEF Fields, Plain, Sections
<1>3. ASSUME NEW t \in checked PROVE OfType(ListOf(rule), t)[1].params \in TypedParams
  <2> DEFINE s == OfType(ListOf(rule), t)
  <2>1. s \in Seq(PolicyObligation) /\ s # << >> /\ Types(s) \subseteq {t}
    BY OwnFact
  <2> HIDE DEF s
  <2>2. s[1] \in PolicyObligation
    BY <2>1, FirstFact
  <2>3. s[1].params \in TypedParams
    BY <2>2 DEF PolicyObligation
  <2>4. QED
    BY <2>3 DEF s
<1> HIDE DEF form, checked
<1>4. /\ form = [fields |-> form.fields, checked |-> form.checked, params |-> form.params]
      /\ form.fields = [f \in Fields |-> Shown(rule, f)] /\ form.checked = checked
      /\ form.params = [t \in checked |-> OfType(ListOf(rule), t)[1].params]
  BY <1>1
<1>5. /\ DOMAIN form.fields = Fields /\ \A f \in Fields : form.fields[f] = Shown(rule, f)
      /\ DOMAIN form.params = checked
      /\ \A t \in checked : form.params[t] = OfType(ListOf(rule), t)[1].params
  BY <1>4
<1>6. /\ form.fields["effect"] \in {"allow", "deny"}
      /\ form.fields["min_assurance_level"] \in Levels \cup {Blank}
  BY <1>2, <1>5, ShownEffect
<1>7. form.checked \subseteq Known
  BY <1>4 DEF checked
<1>8. QED
  BY <1>3, <1>4, <1>5, <1>6, <1>7 DEF form, checked

\* A card with another form, shape and all.
LEMMA DrawnIs ==
    ASSUME NEW c, CardTyped(c)
    PROVE  Drawn(c) = [rule |-> c.rule, form |-> FormOf(c.rule), stash |-> c.stash,
                       origin |-> c.origin, touched |-> c.touched]
<1> DEFINE x == [c EXCEPT !.form = FormOf(c.rule)]
           g == FormOf(c.rule)
<1>1. DOMAIN c = CardKeys
  BY DEF CardTyped, CardKeys
<1> HIDE DEF g
<1>2. x = [c EXCEPT !.form = g]
  BY DEF g
<1>3. /\ x.rule = c.rule /\ x.form = g /\ x.stash = c.stash
      /\ x.origin = c.origin /\ x.touched = c.touched
  BY <1>1, <1>2 DEF CardKeys
<1>4. x = [k \in CardKeys |-> x[k]]
  BY <1>1, <1>2
<1>5. Drawn(c) = x
  BY DEF Drawn
<1> HIDE DEF x
<1>6. x = [rule |-> c.rule, form |-> g, stash |-> c.stash, origin |-> c.origin,
           touched |-> c.touched]
  BY <1>3, <1>4, CardRecord
<1>7. QED
  BY <1>5, <1>6 DEF g

\* Drawing a card anew keeps what holds of it.
LEMMA DrawnInv ==
    ASSUME NEW c, CardInv(c)
    PROVE  /\ CardInv(Drawn(c)) /\ Drawn(c).rule = c.rule
           /\ Drawn(c).origin = c.origin /\ Drawn(c).touched = c.touched
<1> DEFINE d == Drawn(c)
           form == FormOf(c.rule)
<1>1. CardTyped(c) /\ RuleTyped(c.rule)
  BY DEF CardInv, CardTyped
<1>2. d = [rule |-> c.rule, form |-> form, stash |-> c.stash,
           origin |-> c.origin, touched |-> c.touched]
  BY <1>1, DrawnIs
<1>3. /\ form = [fields |-> form.fields, checked |-> form.checked, params |-> form.params]
      /\ DOMAIN form.fields = Fields /\ \A f \in Fields : form.fields[f] = Shown(c.rule, f)
      /\ form.fields["effect"] \in {"allow", "deny"}
      /\ form.fields["min_assurance_level"] \in Levels \cup {Blank}
      /\ form.checked \subseteq Known
      /\ DOMAIN form.params = Known \cap Types(ListOf(c.rule))
      /\ \A t \in DOMAIN form.params :
            /\ form.params[t] = OfType(ListOf(c.rule), t)[1].params
            /\ form.params[t] \in TypedParams
  BY <1>1, FormFact
<1> HIDE DEF form, d
<1>4. /\ d = [rule |-> d.rule, form |-> d.form, stash |-> d.stash,
              origin |-> d.origin, touched |-> d.touched]
      /\ d.rule = c.rule /\ d.form = form /\ d.stash = c.stash
      /\ d.origin = c.origin /\ d.touched = c.touched
  BY <1>2
<1>5. CardTyped(d)
  BY <1>1, <1>3, <1>4 DEF CardTyped
<1>6. ASSUME NEW was \in c.origin PROVE CardKept(d, was)
  <2>1. CardKept(c, was)
    BY DEF CardInv
  <2>2. SUFFICES ASSUME SchemaRule(was)
                 PROVE  /\ \A f \in Fields \ c.touched : FieldKept(d, was, f)
                        /\ \A t \in Known : OwedKept(d, was, t)
    BY <1>4, <2>1 DEF CardKept
  <2>3. ASSUME NEW f \in Fields \ c.touched PROVE FieldKept(d, was, f)
    <3>1. FieldKept(c, was, f)
      BY <2>1, <2>2 DEF CardKept
    <3>2. FieldOf(c.rule, f) = FieldOf(was, f) => form.fields[f] = Shown(was, f)
      BY <1>3, ShownSame
    <3>3. QED
      BY <1>4, <3>1, <3>2 DEF FieldKept
  <2>4. ASSUME NEW t \in Known PROVE OwedKept(d, was, t)
    <3> DEFINE L == OfType(ListOf(c.rule), t)
               S == c.stash[t]
               due == Due(was, t)
    <3>1. OwedKept(c, was, t)
      BY <2>1, <2>2 DEF CardKept
    <3>2. /\ S = << >> \/ L = << >>
          /\ \/ S = << >> /\ L = << >> /\ OfType(ListOf(was), t) = << >>
             \/ SameBut(S \o L, due, t \in c.touched)
      BY <3>1 DEF OwedKept
    <3>3. L \in Seq(PolicyObligation) /\ (t \in Types(ListOf(c.rule)) <=> L # << >>)
      BY <1>1, OwnFact
    <3>4. 1 \in DOMAIN due
      BY <2>1, DueFact DEF CardKept
    <3> HIDE DEF L, S, due
    <3>5. ASSUME t \in DOMAIN form.params
          PROVE  form.params[t] \in {Bad, due[1].params} \/ t \in c.touched
      <4>1. L # << >> /\ S = << >> /\ S \o L = L
        BY <1>3, <3>2, <3>3, <3>5, ConcatEmptySeq
      <4>2. SameBut(L, due, t \in c.touched)
        BY <3>2, <4>1
      <4>3. L[1] = due[1] \/ t \in c.touched
        BY <3>4, <4>2 DEF SameBut
      <4>4. form.params[t] = L[1].params
        BY <1>3, <3>5 DEF L
      <4>5. QED
        BY <4>3, <4>4
    <3>6. QED
      BY <1>4, <3>2, <3>5 DEF OwedKept, L, S, due
  <2>5. QED
    BY <2>3, <2>4
<1>7. QED
  BY <1>4, <1>5, <1>6 DEF CardInv, d

\* A card for a rule just parsed or added.
LEMMA NewCardInv ==
    ASSUME NEW rule, RuleTyped(rule), NEW origin, origin \subseteq {rule}
    PROVE  CardInv(NewCard(rule, origin))
<1> DEFINE d == NewCard(rule, origin)
           form == FormOf(rule)
<1>1. d = [rule |-> rule, form |-> form, stash |-> EmptyStash, origin |-> origin, touched |-> {}]
  BY DEF NewCard
<1>2. /\ form = [fields |-> form.fields, checked |-> form.checked, params |-> form.params]
      /\ DOMAIN form.fields = Fields /\ \A f \in Fields : form.fields[f] = Shown(rule, f)
      /\ form.fields["effect"] \in {"allow", "deny"}
      /\ form.fields["min_assurance_level"] \in Levels \cup {Blank}
      /\ form.checked \subseteq Known
      /\ DOMAIN form.params = Known \cap Types(ListOf(rule))
      /\ \A t \in DOMAIN form.params :
            /\ form.params[t] = OfType(ListOf(rule), t)[1].params
            /\ form.params[t] \in TypedParams
  BY FormFact
<1> HIDE DEF form, d
<1>3. /\ d = [rule |-> d.rule, form |-> d.form, stash |-> d.stash,
              origin |-> d.origin, touched |-> d.touched]
      /\ d.rule = rule /\ d.form = form /\ d.stash = EmptyStash
      /\ d.origin = origin /\ d.touched = {}
  BY <1>1
<1>4. DOMAIN EmptyStash = Known /\ \A t \in Known : EmptyStash[t] = << >>
  BY DEF EmptyStash
<1>5. << >> \in Seq(PolicyObligation) /\ Types(<< >>) = {}
  BY EmptyFact
<1>6. CardTyped(d)
  BY <1>2, <1>3, <1>4, <1>5 DEF CardTyped
<1>7. CardKept(d, rule)
  <2>1. ASSUME NEW f \in Fields PROVE FieldKept(d, rule, f)
    BY <1>2, <1>3 DEF FieldKept
  <2>2. ASSUME NEW t \in Known PROVE OwedKept(d, rule, t)
    <3> DEFINE L == OfType(ListOf(rule), t)
               due == Due(rule, t)
    <3>1. L \in Seq(PolicyObligation) /\ (t \in Types(ListOf(rule)) <=> L # << >>)
      BY OwnFact
    <3>2. L # << >> => due = L
      BY DEF Due
    <3>3. t \in DOMAIN form.params => form.params[t] = L[1].params /\ L # << >>
      BY <1>2, <3>1
    <3> HIDE DEF L, due
    <3>4. << >> \o L = L
      BY <3>1, ConcatEmptySeq
    <3>5. L # << >> => SameBut(<< >> \o L, due, t \in d.touched)
      BY <3>2, <3>4 DEF SameBut
    <3>6. QED
      BY <1>3, <1>4, <3>2, <3>3, <3>5 DEF OwedKept, L, due
  <2>3. QED
    BY <1>3, <2>1, <2>2 DEF CardKept
<1>8. QED
  BY <1>3, <1>6, <1>7 DEF CardInv, d

\* What the inputs of a card may hold.
FormTyped(form) ==
    /\ form = [fields |-> form.fields, checked |-> form.checked, params |-> form.params]
    /\ DOMAIN form.fields = Fields
    /\ form.fields["effect"] \in {"allow", "deny"}
    /\ form.fields["min_assurance_level"] \in Levels \cup {Blank}
    /\ form.checked \subseteq Known
    /\ DOMAIN form.params \subseteq Known
    /\ \A t \in DOMAIN form.params : form.params[t] \in TypedParams

\* A card whose inputs have changed, but for what is not touched.
LEMMA FormInv ==
    ASSUME NEW c, CardInv(c), NEW form, FormTyped(form), NEW touched, c.touched \subseteq touched,
           \A f \in Fields \ touched : \/ form.fields[f] = c.form.fields[f]
                                       \/ f \notin Plain /\ form.fields[f] = Bad,
           \A t \in DOMAIN form.params \ touched :
              \/ t \in DOMAIN c.form.params /\ form.params[t] = c.form.params[t]
              \/ form.params[t] = Bad,
           NEW d, d = [rule |-> c.rule, form |-> form, stash |-> c.stash,
                       origin |-> c.origin, touched |-> touched]
    PROVE  CardInv(d)
<1>1. /\ d = [rule |-> d.rule, form |-> d.form, stash |-> d.stash,
              origin |-> d.origin, touched |-> d.touched]
      /\ d.rule = c.rule /\ d.form = form /\ d.stash = c.stash
      /\ d.origin = c.origin /\ d.touched = touched
  OBVIOUS
<1>2. CardTyped(d)
  BY <1>1 DEF CardInv, CardTyped, FormTyped
<1>3. ASSUME NEW was \in c.origin PROVE CardKept(d, was)
  <2>1. CardKept(c, was)
    BY DEF CardInv
  <2>2. ASSUME SchemaRule(was), NEW f \in Fields \ touched PROVE FieldKept(d, was, f)
    <3>1. FieldKept(c, was, f)
      BY <2>1, <2>2 DEF CardKept
    <3>2. form.fields[f] = c.form.fields[f] \/ (f \notin Plain /\ form.fields[f] = Bad)
      BY <2>2
    <3>3. QED
      BY <1>1, <3>1, <3>2 DEF FieldKept
  <2>3. ASSUME SchemaRule(was), NEW t \in Known PROVE OwedKept(d, was, t)
    <3> DEFINE list == OfType(ListOf(c.rule), t)
               due == Due(was, t)
    <3>1. /\ c.stash[t] = << >> \/ list = << >>
          /\ \/ c.stash[t] = << >> /\ list = << >> /\ OfType(ListOf(was), t) = << >>
             \/ SameBut(c.stash[t] \o list, due, t \in c.touched)
          /\ t \in DOMAIN c.form.params =>
                c.form.params[t] \in {Bad, due[1].params} \/ t \in c.touched
      BY <2>1, <2>3 DEF CardKept, OwedKept
    <3> HIDE DEF list, due
    <3>2. SameBut(c.stash[t] \o list, due, t \in c.touched)
             => SameBut(c.stash[t] \o list, due, t \in touched)
      BY DEF SameBut
    <3>3. t \in DOMAIN form.params => form.params[t] \in {Bad, due[1].params} \/ t \in touched
      BY <3>1
    <3>4. QED
      BY <1>1, <3>1, <3>2, <3>3 DEF OwedKept, list, due
  <2>4. QED
    BY <1>1, <2>1, <2>2, <2>3 DEF CardKept
<1>4. QED
  BY <1>1, <1>2, <1>3 DEF CardInv

\* The inputs of a card hold that.
LEMMA CardForm ==
    ASSUME NEW c, CardTyped(c)
    PROVE  FormTyped(c.form) /\ DOMAIN c = CardKeys
           /\ DOMAIN c.form = {"fields", "checked", "params"}
BY DEF CardTyped, FormTyped, CardKeys

\* A card with one thing more that the owner changed.
LEMMA TouchIs ==
    ASSUME NEW c, DOMAIN c = CardKeys, NEW what
    PROVE  Touch(c, what) = [rule |-> c.rule, form |-> c.form, stash |-> c.stash,
                             origin |-> c.origin, touched |-> c.touched \cup {what}]
<1> DEFINE u == c.touched \cup {what}
           x == [c EXCEPT !.touched = u]
<1>1. Touch(c, what) = x
  BY DEF Touch
<1> HIDE DEF u
<1>2. /\ x.rule = c.rule /\ x.form = c.form /\ x.stash = c.stash
      /\ x.origin = c.origin /\ x.touched = u
  BY DEF CardKeys
<1>3. x = [k \in CardKeys |-> x[k]]
  OBVIOUS
<1> HIDE DEF x
<1>4. x = [rule |-> c.rule, form |-> c.form, stash |-> c.stash, origin |-> c.origin, touched |-> u]
  BY <1>2, <1>3, CardRecord
<1>5. QED
  BY <1>1, <1>4 DEF u

\* It may be touched by then: less is claimed of it.
LEMMA TouchInv ==
    ASSUME NEW c, CardInv(c), NEW what
    PROVE  CardInv(Touch(c, what))
<1>1. FormTyped(c.form) /\ DOMAIN c = CardKeys
  BY CardForm DEF CardInv
<1>2. Touch(c, what) = [rule |-> c.rule, form |-> c.form, stash |-> c.stash,
                        origin |-> c.origin, touched |-> c.touched \cup {what}]
  BY <1>1, TouchIs
<1>3. c.touched \subseteq c.touched \cup {what}
  OBVIOUS
<1> DEFINE u == c.touched \cup {what}
<1> HIDE DEF u
<1>4. QED
  BY <1>1, <1>2, <1>3, FormInv DEF u

\* The record of a form with one of its inputs changed.
LEMMA FormRecord ==
    ASSUME NEW x, x = [k \in {"fields", "checked", "params"} |-> x[k]],
           NEW f, x.fields = f, NEW c, x.checked = c, NEW p, x.params = p
    PROVE  x = [fields |-> f, checked |-> c, params |-> p]
OBVIOUS

\* A card with other inputs.
LEMMA WithForm ==
    ASSUME NEW c, DOMAIN c = CardKeys, NEW g
    PROVE  [c EXCEPT !.form = g] = [rule |-> c.rule, form |-> g, stash |-> c.stash,
                                    origin |-> c.origin, touched |-> c.touched]
<1> DEFINE x == [c EXCEPT !.form = g]
<1>1. /\ x.rule = c.rule /\ x.form = g /\ x.stash = c.stash
      /\ x.origin = c.origin /\ x.touched = c.touched
  BY DEF CardKeys
<1>2. x = [k \in CardKeys |-> x[k]]
  OBVIOUS
<1> HIDE DEF x
<1>3. x = [rule |-> c.rule, form |-> g, stash |-> c.stash, origin |-> c.origin, touched |-> c.touched]
  BY <1>1, <1>2, CardRecord
<1>4. QED
  BY <1>3 DEF x

\* Typing into a field keeps what holds of a card.
LEMMA TypedFieldInv ==
    ASSUME NEW c, CardInv(c), NEW f \in Fields, NEW entry \in Entries[f]
    PROVE  CardInv(TouchBy([c EXCEPT !.form.fields[f] = entry], f, entry))
<1> DEFINE fields == [c.form.fields EXCEPT ![f] = entry]
           form == [c.form EXCEPT !.fields = fields]
           x == [c EXCEPT !.form = form]
           touched == IF entry = Bad THEN c.touched ELSE c.touched \cup {f}
           d == TouchBy(x, f, entry)
<1>1. [c EXCEPT !.form.fields[f] = entry] = x
  OBVIOUS
<1>2. FormTyped(c.form) /\ DOMAIN c = CardKeys /\ DOMAIN c.form = {"fields", "checked", "params"}
  BY CardForm DEF CardInv
<1>3. /\ DOMAIN fields = Fields /\ fields[f] = entry
      /\ \A g \in Fields \ {f} : fields[g] = c.form.fields[g]
  BY <1>2 DEF FormTyped
<1> HIDE DEF fields
<1>4. /\ form.fields = fields /\ form.checked = c.form.checked /\ form.params = c.form.params
      /\ form = [k \in {"fields", "checked", "params"} |-> form[k]]
  BY <1>2
<1> HIDE DEF form
<1>5. form = [fields |-> form.fields, checked |-> form.checked, params |-> form.params]
  BY <1>4, FormRecord
<1>6. /\ fields["effect"] \in {"allow", "deny"}
      /\ fields["min_assurance_level"] \in Levels \cup {Blank}
  <2>1. "effect" \in Fields /\ "min_assurance_level" \in Fields
    BY DEF Fields, Plain, Sections
  <2>2. Entries["effect"] \subseteq {"allow", "deny"}
        /\ Entries["min_assurance_level"] \subseteq Levels \cup {Blank}
    BY InputsAssumption
  <2>3. QED
    BY <1>2, <1>3, <2>1, <2>2 DEF FormTyped
<1>7. FormTyped(form)
  BY <1>2, <1>3, <1>4, <1>5, <1>6 DEF FormTyped
<1>8. x = [rule |-> c.rule, form |-> form, stash |-> c.stash, origin |-> c.origin,
           touched |-> c.touched]
  BY <1>2, WithForm
<1> HIDE DEF x
<1>9. d = [rule |-> c.rule, form |-> form, stash |-> c.stash, origin |-> c.origin,
           touched |-> touched]
  <2>1. CASE entry = Bad
    BY <1>8, <2>1 DEF TouchBy
  <2>2. CASE entry # Bad
    <3>1. DOMAIN x = CardKeys
      BY <1>8 DEF CardKeys
    <3>2. d = Touch(x, f)
      BY <2>2 DEF TouchBy
    <3>3. d = [rule |-> x.rule, form |-> x.form, stash |-> x.stash, origin |-> x.origin,
               touched |-> x.touched \cup {f}]
      BY <3>1, <3>2, TouchIs
    <3>4. QED
      BY <1>8, <2>2, <3>3
  <2>3. QED
    BY <2>1, <2>2
<1>10. c.touched \subseteq touched
  OBVIOUS
<1>11. \A g \in Fields \ touched : \/ form.fields[g] = c.form.fields[g]
                                   \/ g \notin Plain /\ form.fields[g] = Bad
  <2>1. entry = Bad => f \notin Plain
    <3>1. entry = Bad => f \in Amounts \cup {"ttl_seconds"}
      BY InputsAssumption
    <3>2. QED
      BY <3>1 DEF Amounts, Plain
  <2>2. QED
    BY <1>3, <1>4, <2>1
<1>12. \A t \in DOMAIN form.params \ touched :
          \/ t \in DOMAIN c.form.params /\ form.params[t] = c.form.params[t]
          \/ form.params[t] = Bad
  BY <1>4
<1> HIDE DEF touched, d
<1>13. CardInv(d)
  BY <1>7, <1>9, <1>10, <1>11, <1>12, FormInv
<1>14. QED
  BY <1>1, <1>13 DEF d

\* Typing parameters keeps what holds of a card.
LEMMA TypedParamsInv ==
    ASSUME NEW c, CardInv(c), NEW t \in DOMAIN c.form.params, NEW entry \in TypedParams
    PROVE  CardInv(TouchBy([c EXCEPT !.form.params[t] = entry], t, entry))
<1> DEFINE params == [c.form.params EXCEPT ![t] = entry]
           form == [c.form EXCEPT !.params = params]
           x == [c EXCEPT !.form = form]
           touched == IF entry = Bad THEN c.touched ELSE c.touched \cup {t}
           d == TouchBy(x, t, entry)
<1>1. [c EXCEPT !.form.params[t] = entry] = x
  OBVIOUS
<1>2. FormTyped(c.form) /\ DOMAIN c = CardKeys /\ DOMAIN c.form = {"fields", "checked", "params"}
  BY CardForm DEF CardInv
<1>3. /\ DOMAIN params = DOMAIN c.form.params /\ params[t] = entry
      /\ \A g \in DOMAIN params \ {t} : params[g] = c.form.params[g]
  OBVIOUS
<1> HIDE DEF params
<1>4. /\ form.fields = c.form.fields /\ form.checked = c.form.checked /\ form.params = params
      /\ form = [k \in {"fields", "checked", "params"} |-> form[k]]
  BY <1>2
<1> HIDE DEF form
<1>5. form = [fields |-> form.fields, checked |-> form.checked, params |-> form.params]
  BY <1>4, FormRecord
<1>7. FormTyped(form)
  BY <1>2, <1>3, <1>4, <1>5 DEF FormTyped
<1>8. x = [rule |-> c.rule, form |-> form, stash |-> c.stash, origin |-> c.origin,
           touched |-> c.touched]
  BY <1>2, WithForm
<1> HIDE DEF x
<1>9. d = [rule |-> c.rule, form |-> form, stash |-> c.stash, origin |-> c.origin,
           touched |-> touched]
  <2>1. CASE entry = Bad
    BY <1>8, <2>1 DEF TouchBy
  <2>2. CASE entry # Bad
    <3>1. DOMAIN x = CardKeys
      BY <1>8 DEF CardKeys
    <3>2. d = Touch(x, t)
      BY <2>2 DEF TouchBy
    <3>3. d = [rule |-> x.rule, form |-> x.form, stash |-> x.stash, origin |-> x.origin,
               touched |-> x.touched \cup {t}]
      BY <3>1, <3>2, TouchIs
    <3>4. QED
      BY <1>8, <2>2, <3>3
  <2>3. QED
    BY <2>1, <2>2
<1>10. c.touched \subseteq touched
  OBVIOUS
<1>11. \A g \in Fields \ touched : \/ form.fields[g] = c.form.fields[g]
                                   \/ g \notin Plain /\ form.fields[g] = Bad
  BY <1>4
<1>12. \A g \in DOMAIN form.params \ touched :
          \/ g \in DOMAIN c.form.params /\ form.params[g] = c.form.params[g]
          \/ form.params[g] = Bad
  BY <1>3, <1>4
<1> HIDE DEF touched, d
<1>13. CardInv(d)
  BY <1>7, <1>9, <1>10, <1>11, <1>12, FormInv
<1>14. QED
  BY <1>1, <1>13 DEF d

\* Ticking boxes keeps what holds of a card, until the inputs are read.
LEMMA TickedInv ==
    ASSUME NEW c, CardInv(c), NEW ticked \in SUBSET Known
    PROVE  CardInv([c EXCEPT !.form.checked = ticked])
           /\ [c EXCEPT !.form.checked = ticked].rule = c.rule
<1> DEFINE form == [c.form EXCEPT !.checked = ticked]
           x == [c EXCEPT !.form = form]
<1>1. [c EXCEPT !.form.checked = ticked] = x
  OBVIOUS
<1>2. FormTyped(c.form) /\ DOMAIN c = CardKeys /\ DOMAIN c.form = {"fields", "checked", "params"}
  BY CardForm DEF CardInv
<1>3. /\ form.fields = c.form.fields /\ form.checked = ticked /\ form.params = c.form.params
      /\ form = [k \in {"fields", "checked", "params"} |-> form[k]]
  BY <1>2
<1> HIDE DEF form
<1>4. form = [fields |-> form.fields, checked |-> form.checked, params |-> form.params]
  BY <1>3, FormRecord
<1>5. FormTyped(form)
  BY <1>2, <1>3, <1>4 DEF FormTyped
<1>6. x = [rule |-> c.rule, form |-> form, stash |-> c.stash, origin |-> c.origin,
           touched |-> c.touched]
  BY <1>2, WithForm
<1> HIDE DEF x
<1>7. CardInv(x)
  BY <1>3, <1>5, <1>6, FormInv
<1>8. QED
  BY <1>1, <1>6, <1>7

-----------------------------------------------------------------------------
(* PolicyBuilder: the handlers of conditions leave trees, as good as those *)
(* they find.                                                              *)

\* Trees whose nodes are nodes, and those whose nodes have one key, that the server knows.
Kinds == {{"all"}, {"any"}, {"not"}, {"match"}}
GoodTree(e) == IsTree(e) /\ \A at \in DOMAIN e : DOMAIN e[at] = {"keys", "match"}
StrictTree(e) == \A at \in DOMAIN e : e[at].keys \in Kinds

\* One address after another.
LEMMA BeforeFact ==
    ASSUME NEW s \in Address, NEW c \in Address
    PROVE  /\ s \o c \in Address /\ Len(s \o c) = Len(s) + Len(c)
           /\ Len(s) \in Nat /\ Len(c) \in Nat
           /\ \A i \in 1..Len(s) : (s \o c)[i] = s[i]
           /\ \A i \in 1..Len(c) : (s \o c)[Len(s) + i] = c[i]
           /\ s \o << >> = s
<1>1. Len(s) \in Nat /\ Len(c) \in Nat /\ s \in Seq(Nat \ {0}) /\ c \in Seq(Nat \ {0})
  BY LenProperties DEF Address
<1>2. /\ s \o c \in Seq(Nat \ {0})
      /\ Len(s \o c) = Len(s) + Len(c)
      /\ \A i \in 1 .. Len(s) + Len(c) : (s \o c)[i] = IF i <= Len(s) THEN s[i] ELSE c[i - Len(s)]
  BY <1>1, ConcatProperties
<1>3. \A i \in 1..Len(s) : (s \o c)[i] = s[i]
  BY <1>1, <1>2
<1>4. ASSUME NEW i \in 1..Len(c) PROVE (s \o c)[Len(s) + i] = c[i]
  <2>1. Len(s) + i \in 1..(Len(s) + Len(c)) /\ ~(Len(s) + i <= Len(s)) /\ (Len(s) + i) - Len(s) = i
    BY <1>1
  <2>2. QED
    BY <1>2, <2>1
<1>5. s \o << >> = s
  BY <1>1, ConcatEmptySeq
<1>6. QED
  BY <1>1, <1>2, <1>3, <1>4, <1>5 DEF Address

\* The parent of what is below an address.
LEMMA BeforeFront ==
    ASSUME NEW s \in Address, NEW c \in Address, c # << >>
    PROVE  s \o c # << >> /\ Front(s \o c) = s \o Front(c)
<1> DEFINE a == s \o c
           f == Front(c)
           n == Len(s)
<1>1. /\ a \in Address /\ Len(a) = n + Len(c) /\ n \in Nat /\ Len(c) \in Nat
      /\ \A i \in 1..n : a[i] = s[i]
      /\ \A i \in 1..Len(c) : a[n + i] = c[i]
  BY BeforeFact
<1>2. /\ f \in Address /\ Len(c) \in Nat \ {0} /\ Len(f) = Len(c) - 1
      /\ \A i \in 1..(Len(c) - 1) : f[i] = c[i]
  BY FrontFact
<1>3. /\ s \o f \in Address /\ Len(s \o f) = n + Len(f)
      /\ \A i \in 1..n : (s \o f)[i] = s[i]
      /\ \A i \in 1..Len(f) : (s \o f)[n + i] = f[i]
  BY <1>2, BeforeFact
<1> HIDE DEF a, f, n
<1>4. a # << >>
  BY <1>1, <1>2
<1>5. /\ Front(a) \in Address /\ Len(Front(a)) = Len(a) - 1
      /\ \A i \in 1..(Len(a) - 1) : Front(a)[i] = a[i]
  BY <1>1, <1>4, FrontFact
<1>6. Len(Front(a)) = Len(s \o f)
  BY <1>1, <1>2, <1>3, <1>5
<1>7. ASSUME NEW i \in 1..Len(Front(a)) PROVE Front(a)[i] = (s \o f)[i]
  <2>1. CASE i <= n
    BY <2>1, <1>1, <1>2, <1>3, <1>5, <1>7
  <2>2. CASE ~(i <= n)
    <3> DEFINE j == i - n
    <3>1. j \in 1..Len(f) /\ j \in 1..(Len(c) - 1) /\ j \in 1..Len(c) /\ i = n + j
          /\ i \in 1..(Len(a) - 1)
      BY <2>2, <1>1, <1>2, <1>3, <1>5, <1>6, <1>7
    <3> HIDE DEF j
    <3>2. Front(a)[i] = a[n + j] /\ a[n + j] = c[j] /\ f[j] = c[j] /\ (s \o f)[n + j] = f[j]
      BY <3>1, <1>1, <1>2, <1>3, <1>5
    <3>3. QED
      BY <3>1, <3>2
  <2>3. QED
    BY <2>1, <2>2
<1>8. Front(a) = s \o f
  BY <1>3, <1>5, <1>6, <1>7, SameAddress
<1>9. QED
  BY <1>4, <1>8 DEF a, f

\* The address of a child of the root.
LEMMA OneFact ==
    ASSUME NEW k \in Nat \ {0}
    PROVE  <<k>> \in Address /\ Len(<<k>>) = 1 /\ <<k>> # << >> /\ Front(<<k>>) = << >>
<1>1. <<k>> \in Address /\ Len(<<k>>) = 1 /\ <<k>> # << >> /\ << >> \in Address
  BY EmptySeq DEF Address
<1>2. Front(<<k>>) \in Address /\ Len(Front(<<k>>)) = 0
  <2> DEFINE a == <<k>>
  <2>1. a \in Address /\ Len(a) = 1 /\ a # << >>
    BY <1>1
  <2> HIDE DEF a
  <2>2. Front(a) \in Address /\ Len(Front(a)) = Len(a) - 1
    BY <2>1, FrontFact
  <2>3. Front(a) \in Address /\ Len(Front(a)) = 0
    BY <2>1, <2>2
  <2>4. QED
    BY <2>3 DEF a
<1>3. Front(<<k>>) = << >>
  BY <1>1, <1>2, EmptySeq DEF Address
<1>4. QED
  BY <1>1, <1>3

\* A single match is such a tree.
LEMMA LeafGood ==
    ASSUME NEW m
    PROVE  GoodTree(Leaf(m)) /\ StrictTree(Leaf(m))
<1> DEFINE e == Leaf(m)
<1>1. DOMAIN e = {<< >>} /\ e[<< >>] = [keys |-> {"match"}, match |-> m]
  BY DEF Leaf
<1> HIDE DEF e
<1>2. IsFiniteSet({<< >>}) /\ << >> \in Seq(Nat \ {0})
  BY FS_Singleton, EmptySeq
<1>3. IsTree(e)
  BY <1>1, <1>2 DEF IsTree
<1>4. QED
  BY <1>1, <1>3 DEF GoodTree, StrictTree, Kinds, e

\* A group of such trees is one.
LEMMA BranchGood ==
    ASSUME NEW kind, NEW kids, IsFiniteSet(DOMAIN kids), DOMAIN kids \subseteq Nat \ {0},
           \A k \in DOMAIN kids : GoodTree(kids[k])
    PROVE  /\ GoodTree(Branch(kind, kids))
           /\ /\ {kind} \in Kinds
              /\ \A k \in DOMAIN kids : StrictTree(kids[k])
              => StrictTree(Branch(kind, kids))
<1> DEFINE e == Branch(kind, kids)
           below(k) == {<<k>> \o b : b \in DOMAIN kids[k]}
           D == UNION {below(k) : k \in DOMAIN kids}
<1>1. /\ DOMAIN e = {<< >>} \cup D
      /\ \A at \in DOMAIN e : e[at] = IF at = << >> THEN [keys |-> {kind}, match |-> NoMatch]
                                      ELSE kids[Head(at)][Tail(at)]
  BY DEF Branch
<1>2. ASSUME NEW a \in D
      PROVE  \E k \in DOMAIN kids : \E b \in DOMAIN kids[k] :
                /\ a = <<k>> \o b /\ b \in Address /\ k \in Nat \ {0}
                /\ a \in Address /\ a # << >> /\ e[a] = kids[k][b]
                /\ b # << >> => Front(a) = <<k>> \o Front(b) /\ Front(b) \in DOMAIN kids[k]
                /\ b = << >> => Front(a) = << >>
  <2>1. PICK k \in DOMAIN kids : a \in below(k)
    BY <1>2
  <2>2. PICK b \in DOMAIN kids[k] : a = <<k>> \o b
    BY <2>1
  <2>3. b \in Address /\ IsTree(kids[k])
    BY TreeAddress DEF GoodTree
  <2>4. k \in Nat \ {0}
    OBVIOUS
  <2>5. <<k>> \in Address /\ Len(<<k>>) = 1 /\ Front(<<k>>) = << >> /\ <<k>> # << >> /\ <<k>>[1] = k
    BY <2>4, OneFact
  <2> HIDE DEF below, D, e
  <2>6. /\ a \in Address /\ Len(a) = 1 + Len(b) /\ Len(b) \in Nat
        /\ a[1] = k /\ \A i \in 1..Len(b) : a[1 + i] = b[i]
    <3>1. /\ <<k>> \o b \in Address /\ Len(<<k>> \o b) = Len(<<k>>) + Len(b) /\ Len(b) \in Nat
          /\ \A i \in 1..Len(<<k>>) : (<<k>> \o b)[i] = <<k>>[i]
          /\ \A i \in 1..Len(b) : (<<k>> \o b)[Len(<<k>>) + i] = b[i]
      BY <2>3, <2>5, BeforeFact
    <3>2. QED
      BY <2>2, <2>5, <3>1
  <2>7. a # << >>
    BY <2>6
  <2>8. /\ Tail(a) \in Address /\ Len(Tail(a)) = Len(a) - 1
        /\ \A i \in 1..Len(Tail(a)) : Tail(a)[i] = a[i + 1]
    BY <2>6, <2>7, HeadTailProperties DEF Address
  <2>9. Tail(a) = b
    <3>1. Len(Tail(a)) = Len(b) /\ \A i \in 1..Len(Tail(a)) : Tail(a)[i] = b[i]
      BY <2>6, <2>8
    <3>2. QED
      BY <2>3, <2>8, <3>1, SameAddress
  <2>10. Head(a) = k
    BY <2>6, <2>7 DEF Address
  <2>11. e[a] = kids[k][b]
    BY <1>1, <1>2, <2>7, <2>9, <2>10
  <2>12. b # << >> => Front(a) = <<k>> \o Front(b) /\ Front(b) \in DOMAIN kids[k]
    <3>1. b # << >> => Front(a) = <<k>> \o Front(b)
      BY <2>2, <2>3, <2>5, BeforeFront
    <3>2. b # << >> => Front(b) \in DOMAIN kids[k]
      BY <2>2, <2>3 DEF IsTree
    <3>3. QED
      BY <3>1, <3>2
  <2>13. b = << >> => Front(a) = << >>
    <3>1. <<k>> \o << >> = <<k>>
      BY <2>5, BeforeFact
    <3>2. QED
      BY <2>2, <2>5, <3>1
  <2>14. QED
    BY <2>2, <2>3, <2>4, <2>6, <2>7, <2>11, <2>12, <2>13
<1>3. \A k \in DOMAIN kids : \A b \in DOMAIN kids[k] : <<k>> \o b \in D
  OBVIOUS
<1>4. IsFiniteSet(D)
  <2>1. \A k \in DOMAIN kids : IsFiniteSet(below(k))
    <3> SUFFICES ASSUME NEW k \in DOMAIN kids PROVE IsFiniteSet(below(k))
      OBVIOUS
    <3>1. IsFiniteSet(DOMAIN kids[k])
      BY DEF GoodTree, IsTree
    <3> DEFINE S == DOMAIN kids[k]
               h == [b \in S |-> <<k>> \o b]
    <3>2. IsFiniteSet({h[b] : b \in S})
      <4> HIDE DEF h, S
      <4>1. IsFiniteSet(S)
        BY <3>1 DEF S
      <4>2. h \in [S -> {h[b] : b \in S}]
        BY DEF h
      <4>3. \A y \in {h[b] : b \in S} : \E b \in S : h[b] = y
        OBVIOUS
      <4>4. h \in Surjection(S, {h[b] : b \in S})
        BY <4>2, <4>3 DEF Surjection
      <4>5. QED
        BY <4>1, <4>4, FS_Surjection
    <3>3. {h[b] : b \in S} = below(k)
      OBVIOUS
    <3>4. QED
      BY <3>2, <3>3
  <2> DEFINE K == DOMAIN kids
             h == [k \in K |-> below(k)]
             U == {h[k] : k \in K}
  <2>2. IsFiniteSet(U)
    <3> HIDE DEF h, K
    <3>1. IsFiniteSet(K)
      BY DEF K
    <3>2. h \in [K -> U]
      BY DEF h
    <3>3. h \in Surjection(K, U)
      BY <3>2 DEF Surjection
    <3>4. QED
      BY <3>1, <3>3, FS_Surjection
  <2>3. \A T \in U : IsFiniteSet(T)
    BY <2>1
  <2>4. D = UNION U
    OBVIOUS
  <2> HIDE DEF U, D
  <2>5. QED
    BY <2>2, <2>3, <2>4, FS_UNION
<1> HIDE DEF D, e
<1>5. IsTree(e)
  <2>1. IsFiniteSet(DOMAIN e)
    <3>1. IsFiniteSet({<< >>})
      BY FS_Singleton
    <3>2. QED
      BY <1>1, <1>4, <3>1, FS_Union, ZenonT(40)
  <2>2. \A at \in DOMAIN e : at \in Seq(Nat \ {0})
    BY <1>1, <1>2, EmptySeq DEF Address
  <2>3. ASSUME NEW at \in DOMAIN e \ {<< >>} PROVE Front(at) \in DOMAIN e
    <3>1. at \in D
      BY <1>1
    <3>2. PICK k \in DOMAIN kids : \E b \in DOMAIN kids[k] :
             /\ b # << >> => Front(at) = <<k>> \o Front(b) /\ Front(b) \in DOMAIN kids[k]
             /\ b = << >> => Front(at) = << >>
      BY <1>2, <3>1
    <3>3. PICK b \in DOMAIN kids[k] :
             /\ b # << >> => Front(at) = <<k>> \o Front(b) /\ Front(b) \in DOMAIN kids[k]
             /\ b = << >> => Front(at) = << >>
      BY <3>2
    <3>4. QED
      BY <1>1, <1>3, <3>3
  <2>4. QED
    BY <1>1, <2>1, <2>2, <2>3 DEF IsTree
<1>6. ASSUME NEW at \in DOMAIN e
      PROVE  \/ e[at] = [keys |-> {kind}, match |-> NoMatch]
             \/ \E k \in DOMAIN kids : \E b \in DOMAIN kids[k] : e[at] = kids[k][b]
  <2>1. CASE at = << >>
    BY <2>1, <1>1
  <2>2. CASE at # << >>
    <3>1. at \in D
      BY <2>2, <1>1
    <3>2. PICK k \in DOMAIN kids : \E b \in DOMAIN kids[k] : e[at] = kids[k][b]
      BY <3>1, <1>2, ZenonT(40)
    <3>3. QED
      BY <3>2
  <2>3. QED
    BY <2>1, <2>2
<1>7. \A at \in DOMAIN e : DOMAIN e[at] = {"keys", "match"}
  <2> SUFFICES ASSUME NEW at \in DOMAIN e PROVE DOMAIN e[at] = {"keys", "match"}
    OBVIOUS
  <2>1. CASE e[at] = [keys |-> {kind}, match |-> NoMatch]
    BY <2>1
  <2>2. CASE \E k \in DOMAIN kids : \E b \in DOMAIN kids[k] : e[at] = kids[k][b]
    BY <2>2 DEF GoodTree
  <2>3. QED
    BY <1>6, <2>1, <2>2
<1>8. ASSUME {kind} \in Kinds, \A k \in DOMAIN kids : StrictTree(kids[k]) PROVE StrictTree(e)
  <2> SUFFICES ASSUME NEW at \in DOMAIN e PROVE e[at].keys \in Kinds
    BY DEF StrictTree
  <2>1. CASE e[at] = [keys |-> {kind}, match |-> NoMatch]
    BY <1>8, <2>1
  <2>2. CASE \E k \in DOMAIN kids : \E b \in DOMAIN kids[k] : e[at] = kids[k][b]
    BY <1>8, <2>2 DEF StrictTree
  <2>3. QED
    BY <1>6, <2>1, <2>2
<1>9. QED
  BY <1>5, <1>7, <1>8 DEF GoodTree, e

\* Without a part, a tree has nodes of the tree it was.
LEMMA RemoveGood ==
    ASSUME NEW e, GoodTree(e), NEW at \in DOMAIN e, NEW tree \in RemoveExprAt(e, at)
    PROVE  GoodTree(tree) /\ (StrictTree(e) => StrictTree(tree))
<1> DEFINE g == Goes(e, at)
           gone == Above(at, g)
           S == Stay(e, gone)
<1>1. IsTree(e) /\ \A a \in DOMAIN e : DOMAIN e[a] = {"keys", "match"}
  BY DEF GoodTree
<1>2. at \in Address /\ g \in 0..Len(at)
  BY <1>1, TreeAddress, GoesFact
<1>3. gone # << >> /\ tree = WithoutTree(e, gone)
  BY DEF RemoveExprAt, WithoutTree, Stay
<1> HIDE DEF g
<1>4. gone \in DOMAIN e
  BY <1>1, <1>2, AboveInTree
<1> HIDE DEF gone, S
<1>5. /\ IsTree(tree)
      /\ \A a \in S : tree[Closed(a, gone)] = e[a]
  BY <1>1, <1>3, <1>4, LeftFact DEF S
<1>6. DOMAIN tree = {Closed(a, gone) : a \in S} /\ S \subseteq DOMAIN e
  BY <1>3 DEF WithoutTree, S, Stay
<1>7. \A b \in DOMAIN tree : \E a \in DOMAIN e : tree[b] = e[a]
  <2> SUFFICES ASSUME NEW b \in DOMAIN tree PROVE \E a \in DOMAIN e : tree[b] = e[a]
    OBVIOUS
  <2>1. PICK a \in S : b = Closed(a, gone)
    BY <1>6
  <2>2. QED
    BY <2>1, <1>5, <1>6
<1>8. \A b \in DOMAIN tree : DOMAIN tree[b] = {"keys", "match"}
  BY <1>1, <1>7
<1>9. StrictTree(e) => StrictTree(tree)
  BY <1>7 DEF StrictTree
<1>10. QED
  BY <1>5, <1>8, <1>9 DEF GoodTree

\* Another node in the same place.
LEMMA ReplaceGood ==
    ASSUME NEW e, GoodTree(e), NEW at \in DOMAIN e, NEW node,
           DOMAIN node = {"keys", "match"}
    PROVE  /\ GoodTree([e EXCEPT ![at] = node])
           /\ StrictTree(e) /\ node.keys \in Kinds => StrictTree([e EXCEPT ![at] = node])
<1> DEFINE tree == [e EXCEPT ![at] = node]
<1>1. /\ DOMAIN tree = DOMAIN e
      /\ \A a \in DOMAIN e : tree[a] = IF a = at THEN node ELSE e[a]
  OBVIOUS
<1> HIDE DEF tree
<1>2. IsTree(tree)
  BY <1>1 DEF GoodTree, IsTree
<1>3. \A a \in DOMAIN tree : DOMAIN tree[a] = {"keys", "match"}
  BY <1>1 DEF GoodTree
<1>4. StrictTree(e) /\ node.keys \in Kinds => StrictTree(tree)
  BY <1>1 DEF StrictTree
<1>5. QED
  BY <1>2, <1>3, <1>4 DEF GoodTree, tree

\* A tree with another below one of its nodes.
LEMMA AddGood ==
    ASSUME NEW e, GoodTree(e), NEW at \in DOMAIN e, NEW child, GoodTree(child)
    PROVE  /\ GoodTree(AddExprChild(e, at, child))
           /\ StrictTree(e) /\ StrictTree(child) => StrictTree(AddExprChild(e, at, child))
<1> DEFINE n == Cardinality(Under(e, at)) + 1
           new == Append(at, n)
           tree == AddExprChild(e, at, child)
           below == {new \o c : c \in DOMAIN child}
<1>1. /\ IsTree(e) /\ \A a \in DOMAIN e : DOMAIN e[a] = {"keys", "match"}
      /\ IsTree(child) /\ \A a \in DOMAIN child : DOMAIN child[a] = {"keys", "match"}
  BY DEF GoodTree
<1>2. /\ at \in Address /\ DOMAIN child \subseteq Address /\ DOMAIN e \subseteq Address
      /\ << >> \in DOMAIN child /\ << >> \in DOMAIN e
      /\ IsFiniteSet(DOMAIN e) /\ IsFiniteSet(DOMAIN child)
  BY <1>1, TreeAddress DEF IsTree
<1>3. n \in Nat \ {0}
  <2>1. IsFiniteSet(Under(e, at))
    BY <1>2, FS_Subset DEF Under
  <2>2. Cardinality(Under(e, at)) \in Nat
    BY <2>1, FS_CardinalityType
  <2>3. QED
    BY <2>2
<1>4. /\ DOMAIN tree = DOMAIN e \cup below
      /\ \A b \in DOMAIN tree :
            tree[b] = IF b \in DOMAIN e THEN e[b] ELSE child[SubSeq(b, Len(new) + 1, Len(b))]
  BY DEF AddExprChild
<1> HIDE DEF n, tree
<1>5. new \in Address /\ new # << >> /\ Front(new) = at
  <2>1. /\ new \in Seq(Nat \ {0}) /\ Len(new) = Len(at) + 1 /\ Len(at) \in Nat
        /\ \A i \in 1..Len(at) : new[i] = at[i]
    BY <1>2, <1>3 DEF Address
  <2> HIDE DEF new
  <2>2. new \in Address /\ new # << >>
    BY <2>1 DEF Address
  <2>3. /\ Front(new) \in Address /\ Len(Front(new)) = Len(new) - 1
        /\ \A i \in 1..(Len(new) - 1) : Front(new)[i] = new[i]
    BY <2>2, FrontFact
  <2>4. Len(Front(new)) = Len(at) /\ \A i \in 1..Len(Front(new)) : Front(new)[i] = at[i]
    BY <2>1, <2>3
  <2>5. QED
    BY <1>2, <2>2, <2>3, <2>4, SameAddress
<1> HIDE DEF new
<1>6. ASSUME NEW c \in DOMAIN child
      PROVE  /\ new \o c \in Address /\ new \o c # << >>
             /\ SubSeq(new \o c, Len(new) + 1, Len(new \o c)) = c
             /\ c = << >> => Front(new \o c) = at
             /\ c # << >> => Front(c) \in DOMAIN child /\ Front(new \o c) = new \o Front(c)
  <2> DEFINE b == new \o c
  <2>1. /\ c \in Address /\ Len(new) \in Nat \ {0}
    BY <1>2, <1>5, FrontFact
  <2>2. /\ b \in Address /\ Len(b) = Len(new) + Len(c) /\ Len(c) \in Nat
        /\ \A i \in 1..Len(c) : b[Len(new) + i] = c[i]
        /\ new \o << >> = new
    BY <2>1, <1>5, BeforeFact
  <2>3. c # << >> => Front(c) \in DOMAIN child /\ Front(b) = new \o Front(c)
    BY <2>1, <1>1, <1>5, BeforeFront DEF IsTree
  <2>4. c = << >> => Front(b) = at
    BY <2>2, <1>5
  <2> HIDE DEF b
  <2>5. b # << >>
    BY <2>1, <2>2
  <2>6. SubSeq(b, Len(new) + 1, Len(b)) = c
    <3> DEFINE s == SubSeq(b, Len(new) + 1, Len(b))
    <3>1. b \in Seq(Nat \ {0}) /\ Len(new) + 1 \in Nat \ {0} /\ Len(new) + 1 \in 1..(Len(b) + 1)
          /\ Len(b) \in Nat
      BY <2>1, <2>2 DEF Address
    <3>2. /\ s \in Seq(Nat \ {0}) /\ Len(s) = Len(c)
          /\ \A i \in 1..Len(c) : s[i] = b[Len(new) + i]
      BY <3>1, <2>1, <2>2, SMTT(60)
    <3> HIDE DEF s
    <3>3. \A i \in 1..Len(s) : s[i] = c[i]
      BY <3>2, <2>2
    <3>4. s = c
      BY <3>2, <3>3, <2>1, SameAddress DEF Address
    <3>5. QED
      BY <3>4 DEF s
  <2>7. QED
    BY <2>2, <2>3, <2>4, <2>5, <2>6 DEF b
<1>7. ASSUME NEW b \in DOMAIN tree
      PROVE  \/ \E a \in DOMAIN e : tree[b] = e[a]
             \/ \E c \in DOMAIN child : tree[b] = child[c]
  <2>1. CASE b \in DOMAIN e
    BY <2>1, <1>4
  <2>2. CASE b \notin DOMAIN e
    <3>1. PICK c \in DOMAIN child : b = new \o c
      BY <2>2, <1>4
    <3>2. tree[b] = child[c]
      BY <2>2, <3>1, <1>4, <1>6
    <3>3. QED
      BY <3>2
  <2>3. QED
    BY <2>1, <2>2
<1>8. IsTree(tree)
  <2>1. IsFiniteSet(DOMAIN tree)
    <3> DEFINE C == DOMAIN child
               h == [c \in C |-> new \o c]
    <3>1. IsFiniteSet(below)
      <4>1. below = {h[c] : c \in C}
        OBVIOUS
      <4> HIDE DEF h, C, below
      <4>2. IsFiniteSet(C)
        BY <1>2 DEF C
      <4>3. h \in Surjection(C, {h[c] : c \in C})
        BY DEF h, Surjection
      <4>4. QED
        BY <4>1, <4>2, <4>3, FS_Surjection
    <3>2. QED
      BY <1>2, <1>4, <3>1, FS_Union, ZenonT(40)
  <2>2. \A b \in DOMAIN tree : b \in Seq(Nat \ {0})
    <3> SUFFICES ASSUME NEW b \in DOMAIN tree PROVE b \in Address
      BY DEF Address
    <3>1. CASE b \in DOMAIN e
      BY <3>1, <1>2
    <3>2. CASE b \notin DOMAIN e
      <4>1. PICK c \in DOMAIN child : b = new \o c
        BY <3>2, <1>4
      <4>2. QED
        BY <4>1, <1>6
    <3>3. QED
      BY <3>1, <3>2
  <2>3. ASSUME NEW b \in DOMAIN tree \ {<< >>} PROVE Front(b) \in DOMAIN tree
    <3>1. CASE b \in DOMAIN e
      BY <3>1, <1>1, <1>4 DEF IsTree
    <3>2. CASE b \notin DOMAIN e
      <4>1. PICK c \in DOMAIN child : b = new \o c
        BY <3>2, <1>4
      <4>2. CASE c = << >>
        BY <4>1, <4>2, <1>4, <1>6
      <4>3. CASE c # << >>
        <5>1. Front(c) \in DOMAIN child /\ Front(b) = new \o Front(c)
          BY <4>1, <4>3, <1>6
        <5>2. Front(b) \in below
          BY <5>1
        <5>3. QED
          BY <5>2, <1>4
      <4>4. QED
        BY <4>2, <4>3
    <3>3. QED
      BY <3>1, <3>2
  <2>4. QED
    BY <1>2, <1>4, <2>1, <2>2, <2>3 DEF IsTree
<1>9. \A b \in DOMAIN tree : DOMAIN tree[b] = {"keys", "match"}
  BY <1>1, <1>7
<1>10. StrictTree(e) /\ StrictTree(child) => StrictTree(tree)
  <2> SUFFICES ASSUME StrictTree(e), StrictTree(child), NEW b \in DOMAIN tree
               PROVE  tree[b].keys \in Kinds
    BY DEF StrictTree
  <2>1. CASE \E a \in DOMAIN e : tree[b] = e[a]
    BY <2>1 DEF StrictTree
  <2>2. CASE \E c \in DOMAIN child : tree[b] = child[c]
    BY <2>2 DEF StrictTree
  <2>3. QED
    BY <1>7, <2>1, <2>2
<1>11. QED
  BY <1>8, <1>9, <1>10 DEF GoodTree, tree

\* The condition of a rule is such a tree.
LEMMA RuleTree ==
    ASSUME NEW rule, RuleTyped(rule), "when" \in DOMAIN rule
    PROVE  GoodTree(rule.when)
BY DEF RuleTyped, GoodTree

\* Two rules with the same keys and values, `when` aside.
ButWhen(r, R) ==
    \A k : k # "when" => /\ k \in DOMAIN r <=> k \in DOMAIN R
                         /\ k \in DOMAIN r => R[k] = r[k]

\* They say the same of every field and obligation.
LEMMA ButWhenFact ==
    ASSUME NEW r, NEW R, ButWhen(r, R)
    PROVE  /\ \A k : k # "when" => Part(R, k) = Part(r, k)
           /\ \A f \in Fields : FieldOf(R, f) = FieldOf(r, f)
           /\ ListOf(R) = ListOf(r)
<1>1. \A k : k # "when" => Part(R, k) = Part(r, k)
  BY DEF ButWhen, Part
<1>2. ASSUME NEW f \in Fields PROVE FieldOf(R, f) = FieldOf(r, f)
  <2>1. CASE f \in Plain
    <3>1. f # "when"
      BY <2>1 DEF Plain
    <3>2. (f \in DOMAIN r <=> f \in DOMAIN R) /\ (f \in DOMAIN r => R[f] = r[f])
      BY <3>1 DEF ButWhen
    <3>3. PlaceOf(R, f) = R /\ PlaceOf(r, f) = r
      BY <2>1 DEF PlaceOf
    <3>4. QED
      BY <3>2, <3>3, FieldOfFact
  <2>2. CASE f \notin Plain
    <3>1. SectionOf(f) # "when"
      BY <2>2, SectionFact
    <3>2. PlaceOf(R, f) = PlaceOf(r, f)
      BY <2>2, <3>1, <1>1 DEF PlaceOf
    <3>3. QED
      BY <3>2, FieldOfFact
  <2>3. QED
    BY <2>1, <2>2
<1>3. ListOf(R) = ListOf(r)
  BY <1>1 DEF ListOf
<1>4. QED
  BY <1>1, <1>2, <1>3

\* A card with another condition, touched by the owner.
LEMMA WhenInv ==
    ASSUME NEW c, CardInv(c), "when" \in c.touched, NEW R, ButWhen(c.rule, R), RuleTyped(R),
           NEW d, d = [rule |-> R, form |-> c.form, stash |-> c.stash,
                       origin |-> c.origin, touched |-> c.touched]
    PROVE  CardInv(d)
<1>1. /\ d = [rule |-> d.rule, form |-> d.form, stash |-> d.stash,
              origin |-> d.origin, touched |-> d.touched]
      /\ d.rule = R /\ d.form = c.form /\ d.stash = c.stash
      /\ d.origin = c.origin /\ d.touched = c.touched
  OBVIOUS
<1>2. CardTyped(c) /\ \A was \in c.origin : CardKept(c, was)
  BY DEF CardInv
<1>3. CardTyped(d)
  <2>1. /\ c.form = [fields |-> c.form.fields, checked |-> c.form.checked,
                     params |-> c.form.params]
        /\ DOMAIN c.form.fields = Fields
        /\ c.form.fields["effect"] \in {"allow", "deny"}
        /\ c.form.fields["min_assurance_level"] \in Levels \cup {Blank}
        /\ c.form.checked \subseteq Known
        /\ DOMAIN c.form.params \subseteq Known
        /\ \A t \in DOMAIN c.form.params : c.form.params[t] \in TypedParams
        /\ DOMAIN c.stash = Known
        /\ \A t \in Known : c.stash[t] \in Seq(PolicyObligation) /\ Types(c.stash[t]) \subseteq {t}
    BY <1>2 DEF CardTyped
  <2> HIDE DEF Known, PolicyObligation
  <2>2. QED
    BY <1>1, <2>1 DEF CardTyped
<1>4. /\ \A f \in Fields : FieldOf(d.rule, f) = FieldOf(c.rule, f)
      /\ ListOf(d.rule) = ListOf(c.rule)
  BY <1>1, ButWhenFact
<1>5. ASSUME NEW was \in d.origin PROVE CardKept(d, was)
  <2>1. CardKept(c, was)
    BY <1>1, <1>2
  <2>2. \A f \in Fields : FieldKept(c, was, f) => FieldKept(d, was, f)
    BY <1>1, <1>4 DEF FieldKept
  <2>3. \A t \in Known : OwedKept(c, was, t) => OwedKept(d, was, t)
    BY <1>1, <1>4 DEF OwedKept
  <2>4. QED
    BY <2>1, <2>2, <2>3, <1>1, <1>4 DEF CardKept
<1>6. QED
  BY <1>1, <1>3, <1>5 DEF CardInv

\* Another rule for a card.
LEMMA WithRule ==
    ASSUME NEW c, DOMAIN c = CardKeys, NEW R
    PROVE  [c EXCEPT !.rule = R] = [rule |-> R, form |-> c.form, stash |-> c.stash,
                                    origin |-> c.origin, touched |-> c.touched]
<1> DEFINE x == [c EXCEPT !.rule = R]
<1>1. /\ x.rule = R /\ x.form = c.form /\ x.stash = c.stash
      /\ x.origin = c.origin /\ x.touched = c.touched
  BY DEF CardKeys
<1>2. x = [k \in CardKeys |-> x[k]]
  OBVIOUS
<1> HIDE DEF x
<1>3. x = [rule |-> R, form |-> c.form, stash |-> c.stash, origin |-> c.origin, touched |-> c.touched]
  BY <1>1, <1>2, CardRecord
<1>4. QED
  BY <1>3 DEF x

\* A card whose condition is typed into.
LEMMA RuleTouched ==
    ASSUME NEW c, CardInv(c), NEW R, ButWhen(c.rule, R), RuleTyped(R)
    PROVE  LET d == Touch([c EXCEPT !.rule = R], "when") IN
           /\ CardInv(d) /\ d.rule = R /\ d.origin = c.origin
           /\ d.touched = c.touched \cup {"when"}
<1> DEFINE x == [c EXCEPT !.rule = R]
           y == Touch(c, "when")
           u == c.touched \cup {"when"}
           d == Touch(x, "when")
<1>1. DOMAIN c = CardKeys
  BY CardForm DEF CardInv
<1>2. x = [rule |-> R, form |-> c.form, stash |-> c.stash, origin |-> c.origin, touched |-> c.touched]
  BY <1>1, WithRule
<1> HIDE DEF x
<1>3. DOMAIN x = CardKeys /\ x.rule = R /\ x.form = c.form /\ x.stash = c.stash
      /\ x.origin = c.origin /\ x.touched = c.touched
  BY <1>2 DEF CardKeys
<1>4. d = [rule |-> R, form |-> c.form, stash |-> c.stash, origin |-> c.origin, touched |-> u]
  <2>1. d = [rule |-> x.rule, form |-> x.form, stash |-> x.stash,
             origin |-> x.origin, touched |-> x.touched \cup {"when"}]
    BY <1>3, TouchIs
  <2>2. QED
    BY <1>3, <2>1
<1>5. y = [rule |-> c.rule, form |-> c.form, stash |-> c.stash, origin |-> c.origin, touched |-> u]
  BY <1>1, TouchIs
<1>6. CardInv(y)
  BY TouchInv
<1>7. "when" \in u
  OBVIOUS
<1> HIDE DEF y, u, d
<1>8. /\ y.rule = c.rule /\ y.form = c.form /\ y.stash = c.stash
      /\ y.origin = c.origin /\ y.touched = u
  BY <1>5
<1>9. d = [rule |-> R, form |-> y.form, stash |-> y.stash, origin |-> y.origin, touched |-> y.touched]
  BY <1>4, <1>8
<1>10. "when" \in y.touched /\ ButWhen(y.rule, R)
  BY <1>7, <1>8
<1>11. CardInv(d)
  BY <1>6, <1>9, <1>10, WhenInv
<1>12. d.rule = R /\ d.origin = c.origin /\ d.touched = u
  BY <1>4
<1>13. QED
  BY <1>11, <1>12 DEF d, x, u

\* A card whose condition a handler changes: it is drawn anew.
LEMMA RuleHandled ==
    ASSUME NEW c, CardInv(c), NEW R, ButWhen(c.rule, R), RuleTyped(R)
    PROVE  LET d == Touch(Drawn([c EXCEPT !.rule = R]), "when") IN
           /\ CardInv(d) /\ d.rule = R /\ d.origin = c.origin
           /\ d.touched = c.touched \cup {"when"}
<1> DEFINE x == [c EXCEPT !.rule = R]
           u == c.touched \cup {"when"}
           e == Touch(x, "when")
           w == Drawn(x)
           d == Touch(w, "when")
           g == FormOf(R)
<1>1. DOMAIN c = CardKeys /\ CardTyped(c)
  BY CardForm DEF CardInv
<1>2. x = [rule |-> R, form |-> c.form, stash |-> c.stash, origin |-> c.origin, touched |-> c.touched]
  BY <1>1, WithRule
<1>3. CardInv(e) /\ e.rule = R /\ e.origin = c.origin /\ e.touched = u
  BY RuleTouched
<1> HIDE DEF x
<1>4. DOMAIN x = CardKeys /\ x.rule = R /\ x.form = c.form /\ x.stash = c.stash
      /\ x.origin = c.origin /\ x.touched = c.touched
  BY <1>2 DEF CardKeys
<1>5. w = [rule |-> R, form |-> g, stash |-> c.stash, origin |-> c.origin, touched |-> c.touched]
  <2>1. Drawn(x) = [x EXCEPT !.form = FormOf(x.rule)]
    BY DEF Drawn
  <2> HIDE DEF g
  <2>2. w = [x EXCEPT !.form = g]
    BY <2>1, <1>4 DEF g
  <2>3. [x EXCEPT !.form = g] = [rule |-> x.rule, form |-> g, stash |-> x.stash,
                                origin |-> x.origin, touched |-> x.touched]
    BY <1>4, WithForm
  <2>4. QED
    BY <2>2, <2>3, <1>4
<1>6. d = [rule |-> R, form |-> g, stash |-> c.stash, origin |-> c.origin, touched |-> u]
  <2> HIDE DEF w, g
  <2>1. DOMAIN w = CardKeys /\ w.rule = R /\ w.form = g /\ w.stash = c.stash
        /\ w.origin = c.origin /\ w.touched = c.touched
    BY <1>5 DEF CardKeys
  <2>2. d = [rule |-> w.rule, form |-> w.form, stash |-> w.stash,
             origin |-> w.origin, touched |-> w.touched \cup {"when"}]
    BY <2>1, TouchIs
  <2>3. QED
    BY <2>1, <2>2
<1>7. e = [rule |-> R, form |-> c.form, stash |-> c.stash, origin |-> c.origin, touched |-> u]
  <2>1. e = [rule |-> x.rule, form |-> x.form, stash |-> x.stash,
             origin |-> x.origin, touched |-> x.touched \cup {"when"}]
    BY <1>4, TouchIs
  <2>2. QED
    BY <1>4, <2>1
<1> HIDE DEF e, d, w, u
<1>8. CardTyped(e) /\ e.stash = c.stash
  BY <1>3, <1>7 DEF CardInv
<1>9. Drawn(e) = [rule |-> e.rule, form |-> FormOf(e.rule), stash |-> e.stash,
                  origin |-> e.origin, touched |-> e.touched]
  BY <1>8, DrawnIs
<1>10. Drawn(e) = d
  BY <1>3, <1>6, <1>8, <1>9
<1>11. CardInv(d)
  BY <1>3, <1>10, DrawnInv
<1>12. d.rule = R /\ d.origin = c.origin /\ d.touched = u
  BY <1>6
<1>13. QED
  BY <1>11, <1>12 DEF d, w, x, u

\* How strict a card is depends on its rule only.
LEMMA StrictRule ==
    ASSUME NEW c, NEW d, d.rule = c.rule, CardStrict(c)
    PROVE  CardStrict(d)
BY DEF CardStrict

\* A card for a rule that the server takes is strict.
LEMMA NewSafe ==
    ASSUME NEW rule, RuleTyped(rule), NEW origin, origin \subseteq {rule}, NEW strict,
           strict => SchemaRule(rule)
    PROVE  CardSafe(NewCard(rule, origin), strict)
<1>1. CardInv(NewCard(rule, origin))
  BY NewCardInv
<1>2. NewCard(rule, origin).rule = rule
  BY DEF NewCard
<1>3. ASSUME SchemaRule(rule) PROVE CardStrict(NewCard(rule, origin))
  <2> DEFINE d == NewCard(rule, origin)
  <2>1. /\ DOMAIN rule \subseteq {"id", "effect", "action", "description", "when", "obligations"}
                                    \cup DOMAIN Sections
        /\ "when" \in DOMAIN rule => SchemaExpr(rule.when)
        /\ \A s \in DOMAIN Sections \cap DOMAIN rule : DOMAIN rule[s] \subseteq Sections[s]
    BY <1>3 DEF SchemaRule
  <2>2. "when" \in DOMAIN rule =>
           \A at \in DOMAIN rule.when : rule.when[at].keys \in {{"all"}, {"any"}, {"not"}, {"match"}}
    BY <2>1 DEF SchemaExpr
  <2> HIDE DEF d
  <2>3. d.rule = rule
    BY <1>2 DEF d
  <2>4. CardStrict(d)
    BY <2>1, <2>2, <2>3 DEF CardStrict
  <2>5. QED
    BY <2>4 DEF d
<1>4. QED
  BY <1>1, <1>3 DEF CardSafe

\* Reading the inputs.
LEMMA SyncedSafe ==
    ASSUME NEW c, NEW strict, CardSafe(c, strict)
    PROVE  CardSafe(Synced(c), strict)
<1>1. CardInv(c) /\ CardTyped(c)
  BY DEF CardSafe, CardInv
<1>2. CardInv(Synced(c))
  BY <1>1, SyncedInv
<1>3. strict => CardStrict(Synced(c))
  BY <1>1, SyncedStrict DEF CardSafe
<1>4. QED
  BY <1>2, <1>3 DEF CardSafe

\* Drawing a card anew.
LEMMA DrawnSafe ==
    ASSUME NEW c, NEW strict, CardSafe(c, strict)
    PROVE  CardSafe(Drawn(c), strict)
<1>1. CardInv(c)
  BY DEF CardSafe
<1>2. CardInv(Drawn(c)) /\ Drawn(c).rule = c.rule
  BY <1>1, DrawnInv
<1>3. strict => CardStrict(Drawn(c))
  BY <1>2, StrictRule DEF CardSafe
<1>4. QED
  BY <1>2, <1>3 DEF CardSafe

\* Typing does not change the rule.
LEMMA TouchByRule ==
    ASSUME NEW c, DOMAIN c = CardKeys, NEW what, NEW entry
    PROVE  TouchBy(c, what, entry).rule = c.rule
BY TouchIs DEF TouchBy

\* Typing into a field.
LEMMA TypedFieldSafe ==
    ASSUME NEW c, NEW strict, CardSafe(c, strict), NEW f \in Fields, NEW entry \in Entries[f]
    PROVE  CardSafe(TouchBy([c EXCEPT !.form.fields[f] = entry], f, entry), strict)
<1> DEFINE x == [c EXCEPT !.form.fields[f] = entry]
           d == TouchBy(x, f, entry)
<1>1. CardInv(c)
  BY DEF CardSafe
<1>2. CardInv(d)
  BY <1>1, TypedFieldInv
<1>3. DOMAIN c = CardKeys
  BY <1>1, CardForm DEF CardInv
<1>4. DOMAIN x = CardKeys /\ x.rule = c.rule
  BY <1>3 DEF CardKeys
<1> HIDE DEF x
<1>5. d.rule = c.rule
  BY <1>4, TouchByRule
<1> HIDE DEF d
<1>6. strict => CardStrict(d)
  BY <1>5, StrictRule DEF CardSafe
<1>7. QED
  BY <1>2, <1>6 DEF CardSafe, d, x

\* Typing parameters.
LEMMA TypedParamsSafe ==
    ASSUME NEW c, NEW strict, CardSafe(c, strict), NEW t \in DOMAIN c.form.params,
           NEW entry \in TypedParams
    PROVE  CardSafe(TouchBy([c EXCEPT !.form.params[t] = entry], t, entry), strict)
<1> DEFINE x == [c EXCEPT !.form.params[t] = entry]
           d == TouchBy(x, t, entry)
<1>1. CardInv(c)
  BY DEF CardSafe
<1>2. CardInv(d)
  BY <1>1, TypedParamsInv
<1>3. DOMAIN c = CardKeys
  BY <1>1, CardForm DEF CardInv
<1>4. DOMAIN x = CardKeys /\ x.rule = c.rule
  BY <1>3 DEF CardKeys
<1> HIDE DEF x
<1>5. d.rule = c.rule
  BY <1>4, TouchByRule
<1> HIDE DEF d
<1>6. strict => CardStrict(d)
  BY <1>5, StrictRule DEF CardSafe
<1>7. QED
  BY <1>2, <1>6 DEF CardSafe, d, x

\* Ticking boxes.
LEMMA TickedSafe ==
    ASSUME NEW c, NEW strict, CardSafe(c, strict), NEW ticked \in SUBSET Known
    PROVE  CardSafe([c EXCEPT !.form.checked = ticked], strict)
<1> DEFINE x == [c EXCEPT !.form.checked = ticked]
<1>1. CardInv(c)
  BY DEF CardSafe
<1>2. CardInv(x) /\ x.rule = c.rule
  BY <1>1, TickedInv
<1> HIDE DEF x
<1>3. strict => CardStrict(x)
  BY <1>2, StrictRule DEF CardSafe
<1>4. QED
  BY <1>2, <1>3 DEF CardSafe, x

\* The rule with another tree, or with none.
LEMMA WithTreeFact ==
    ASSUME NEW r, RuleTyped(r), NEW trees, \A tree \in trees : GoodTree(tree)
    PROVE  /\ ButWhen(r, WithTree(r, trees)) /\ RuleTyped(WithTree(r, trees))
           /\ "when" \in DOMAIN WithTree(r, trees) <=> trees # {}
           /\ trees # {} => WithTree(r, trees).when \in trees
<1> DEFINE R == WithTree(r, trees)
<1>1. /\ DOMAIN R = (DOMAIN r \ {"when"}) \cup (IF trees = {} THEN {} ELSE {"when"})
      /\ \A k \in DOMAIN R : R[k] = IF k = "when" THEN CHOOSE tree \in trees : TRUE ELSE r[k]
  BY DEF WithTree
<1> HIDE DEF R
<1>2. ButWhen(r, R)
  BY <1>1 DEF ButWhen
<1>3. "when" \in DOMAIN R <=> trees # {}
  BY <1>1
<1>4. trees # {} => R.when \in trees
  BY <1>1, <1>3
<1>5. RuleTyped(R)
  <2>1. "when" \in DOMAIN R => GoodTree(R.when)
    BY <1>3, <1>4
  <2>2. "obligations" \in DOMAIN R => R.obligations \in Seq(PolicyObligation)
    BY <1>1 DEF RuleTyped
  <2>3. QED
    BY <2>1, <2>2 DEF RuleTyped, GoodTree
<1>6. QED
  BY <1>2, <1>3, <1>4, <1>5 DEF R

\* A rule that differs in its condition only is as strict as its tree.
LEMMA StrictButWhen ==
    ASSUME NEW c, NEW d, CardStrict(c), ButWhen(c.rule, d.rule),
           "when" \in DOMAIN d.rule => StrictTree(d.rule.when)
    PROVE  CardStrict(d)
<1>1. DOMAIN d.rule \subseteq DOMAIN c.rule \cup {"when"}
  BY DEF ButWhen
<1>2. ASSUME NEW s \in DOMAIN Sections \cap DOMAIN d.rule PROVE DOMAIN d.rule[s] \subseteq Sections[s]
  <2>1. s # "when"
    BY SectionFact
  <2>2. QED
    BY <2>1, <1>2 DEF CardStrict, ButWhen
<1>3. DOMAIN d.rule \subseteq {"id", "effect", "action", "description", "when", "obligations"}
                                \cup DOMAIN Sections
  BY <1>1 DEF CardStrict
<1>4. QED
  BY <1>2, <1>3 DEF CardStrict, StrictTree, Kinds

\* A handler that leaves trees as good as the one it finds.
LEMMA HandledSafe ==
    ASSUME NEW c, NEW strict, CardSafe(c, strict), NEW trees,
           \A tree \in trees : GoodTree(tree),
           strict => \A tree \in trees : StrictTree(tree)
    PROVE  CardSafe(Touch(Drawn([c EXCEPT !.rule = WithTree(c.rule, trees)]), "when"), strict)
<1> DEFINE R == WithTree(c.rule, trees)
           d == Touch(Drawn([c EXCEPT !.rule = R]), "when")
<1>1. CardInv(c) /\ RuleTyped(c.rule)
  BY DEF CardSafe, CardInv, CardTyped
<1>2. /\ ButWhen(c.rule, R) /\ RuleTyped(R)
      /\ "when" \in DOMAIN R <=> trees # {}
      /\ trees # {} => R.when \in trees
  BY <1>1, WithTreeFact
<1> HIDE DEF R
<1>3. CardInv(d) /\ d.rule = R
  BY <1>1, <1>2, RuleHandled
<1> HIDE DEF d
<1>4. ASSUME strict PROVE CardStrict(d)
  <2>1. CardStrict(c) /\ ButWhen(c.rule, d.rule)
    BY <1>2, <1>3, <1>4 DEF CardSafe
  <2>2. "when" \in DOMAIN d.rule => StrictTree(d.rule.when)
    BY <1>2, <1>3, <1>4
  <2>3. QED
    BY <2>1, <2>2, StrictButWhen
<1>5. QED
  BY <1>3, <1>4 DEF CardSafe, d, R

\* A match typed into.
LEMMA TypedMatchSafe ==
    ASSUME NEW c, NEW strict, CardSafe(c, strict), "when" \in DOMAIN c.rule,
           NEW at \in DOMAIN c.rule.when, NEW m
    PROVE  CardSafe(Touch([c EXCEPT !.rule.when[at].match = m], "when"), strict)
<1> DEFINE e == c.rule.when
           node == [e[at] EXCEPT !.match = m]
           tree == [e EXCEPT ![at] = node]
           R == [c.rule EXCEPT !.when = tree]
           d == Touch([c EXCEPT !.rule = R], "when")
<1>1. CardInv(c) /\ RuleTyped(c.rule)
  BY DEF CardSafe, CardInv, CardTyped
<1>2. GoodTree(e) /\ at \in DOMAIN e
  BY <1>1, RuleTree
<1>3. DOMAIN node = {"keys", "match"} /\ node.keys = e[at].keys
  BY <1>2 DEF GoodTree
<1> HIDE DEF node
<1>4. GoodTree(tree) /\ (StrictTree(e) => StrictTree(tree))
  BY <1>2, <1>3, ReplaceGood DEF StrictTree
<1>5. DOMAIN R = DOMAIN c.rule /\ R.when = tree /\ \A k \in DOMAIN R \ {"when"} : R[k] = c.rule[k]
  OBVIOUS
<1> HIDE DEF tree, R
<1>6. ButWhen(c.rule, R)
  BY <1>5 DEF ButWhen
<1>7. RuleTyped(R)
  BY <1>1, <1>4, <1>5 DEF RuleTyped, GoodTree
<1>8. CardInv(d) /\ d.rule = R
  BY <1>1, <1>6, <1>7, RuleTouched
<1>9. ASSUME strict PROVE CardStrict(d)
  <2> HIDE DEF d
  <2>1. CardStrict(c) /\ ButWhen(c.rule, d.rule)
    BY <1>6, <1>8, <1>9 DEF CardSafe
  <2>2. StrictTree(e)
    BY <2>1 DEF CardStrict, StrictTree, Kinds
  <2>3. StrictTree(d.rule.when)
    BY <2>2, <1>4, <1>5, <1>8
  <2>4. QED
    BY <2>1, <2>3, StrictButWhen
<1>10. CardSafe(d, strict)
  BY <1>8, <1>9 DEF CardSafe
<1>11. [c EXCEPT !.rule.when[at].match = m] = [c EXCEPT !.rule = R]
  BY DEF R, tree, node
<1>12. QED
  BY <1>10, <1>11

\* A group has the key that says what it is.
LEMMA GroupKind ==
    ASSUME NEW node, IsGroup(node)
    PROVE  ExprKind(node) \in {"all", "any"} /\ ExprKind(node) \in node.keys
<1>1. ExprKind(node) \in {"all", "any"}
  BY DEF IsGroup
<1>2. ExprKind(node) \in node.keys
  <2>1. CASE "all" \in node.keys
    <3>1. ExprKind(node) = "all"
      BY <2>1 DEF ExprKind
    <3>2. QED
      BY <2>1, <3>1
  <2>2. CASE "all" \notin node.keys /\ "any" \in node.keys
    <3>1. ExprKind(node) = "any"
      BY <2>2 DEF ExprKind
    <3>2. QED
      BY <2>2, <3>1
  <2>3. CASE "all" \notin node.keys /\ "any" \notin node.keys
    <3>1. CASE "not" \in node.keys
      <4>1. ExprKind(node) = "not"
        BY <2>3, <3>1 DEF ExprKind
      <4>2. QED
        BY <1>1, <4>1
    <3>2. CASE "not" \notin node.keys /\ "match" \in node.keys
      <4>1. ExprKind(node) = "match"
        BY <2>3, <3>2 DEF ExprKind
      <4>2. QED
        BY <1>1, <4>1
    <3>3. CASE "not" \notin node.keys /\ "match" \notin node.keys
      <4>1. ExprKind(node) = "unknown"
        BY <2>3, <3>3 DEF ExprKind
      <4>2. QED
        BY <1>1, <4>1
    <3>4. QED
      BY <3>1, <3>2, <3>3
  <2>4. QED
    BY <2>1, <2>2, <2>3
<1>3. QED
  BY <1>1, <1>2

\* A group as the other kind.
LEMMA SwapGood ==
    ASSUME NEW e, GoodTree(e), NEW at \in DOMAIN e, IsGroup(e[at]), NEW to \in {"all", "any"}
    PROVE  /\ GoodTree([e EXCEPT ![at] = SwapGroupKind(@, to)])
           /\ StrictTree(e) => StrictTree([e EXCEPT ![at] = SwapGroupKind(@, to)])
<1> DEFINE node == SwapGroupKind(e[at], to)
           kind == ExprKind(e[at])
<1>1. /\ DOMAIN node = {"keys", "match"}
      /\ node.keys = (e[at].keys \ {kind}) \cup {to}
  BY DEF SwapGroupKind, GoodTree
<1>2. kind \in {"all", "any"} /\ kind \in e[at].keys
  BY GroupKind
<1> HIDE DEF node, kind
<1>3. StrictTree(e) => node.keys \in Kinds
  <2> SUFFICES ASSUME StrictTree(e) PROVE node.keys \in Kinds
    OBVIOUS
  <2>1. e[at].keys \in Kinds
    BY DEF StrictTree
  <2>2. e[at].keys = {kind}
    BY <2>1, <1>2 DEF Kinds
  <2>3. node.keys = {to}
    BY <2>2, <1>1
  <2>4. QED
    BY <2>3 DEF Kinds
<1>4. [e EXCEPT ![at] = SwapGroupKind(@, to)] = [e EXCEPT ![at] = node]
  BY DEF node
<1>5. QED
  BY <1>1, <1>3, <1>4, ReplaceGood

\* A node with another match.
LEMMA MatchGood ==
    ASSUME NEW e, GoodTree(e), NEW at \in DOMAIN e, NEW m
    PROVE  /\ GoodTree([e EXCEPT ![at].match = m])
           /\ StrictTree(e) => StrictTree([e EXCEPT ![at].match = m])
<1> DEFINE node == [e[at] EXCEPT !.match = m]
<1>1. DOMAIN node = {"keys", "match"} /\ node.keys = e[at].keys
  BY DEF GoodTree
<1>2. [e EXCEPT ![at].match = m] = [e EXCEPT ![at] = node]
  OBVIOUS
<1> HIDE DEF node
<1>3. StrictTree(e) => node.keys \in Kinds
  BY <1>1 DEF StrictTree
<1>4. QED
  BY <1>1, <1>2, <1>3, ReplaceGood

\* What a condition is wrapped in, and what is put in a group.
LEMMA WrapGood ==
    ASSUME NEW e, GoodTree(e), NEW m
    PROVE  LET tree == Branch("all", <<e, Leaf(m)>>) IN
           GoodTree(tree) /\ (StrictTree(e) => StrictTree(tree))
<1> DEFINE kids == <<e, Leaf(m)>>
<1>1. GoodTree(Leaf(m)) /\ StrictTree(Leaf(m))
  BY LeafGood
<1>2. DOMAIN kids = 1..2 /\ kids[1] = e /\ kids[2] = Leaf(m)
  OBVIOUS
<1>3. IsFiniteSet(1..2)
  <2>1. IsFiniteSet({1}) /\ IsFiniteSet({2})
    BY FS_Singleton
  <2>2. IsFiniteSet({1} \cup {2})
    BY <2>1, FS_Union
  <2>3. {1} \cup {2} = 1..2
    OBVIOUS
  <2>4. QED
    BY <2>2, <2>3
<1>4. {"all"} \in Kinds
  BY DEF Kinds
<1> HIDE DEF kids
<1>5. \A k \in DOMAIN kids : k = 1 \/ k = 2
  BY <1>2
<1>6. \A k \in DOMAIN kids : GoodTree(kids[k])
  BY <1>1, <1>2, <1>5
<1>7. StrictTree(e) => \A k \in DOMAIN kids : StrictTree(kids[k])
  BY <1>1, <1>2, <1>5
<1>8. IsFiniteSet(DOMAIN kids) /\ DOMAIN kids \subseteq Nat \ {0}
  BY <1>2, <1>3
<1>9. GoodTree(Branch("all", kids)) /\ (StrictTree(e) => StrictTree(Branch("all", kids)))
  BY <1>4, <1>6, <1>7, <1>8, BranchGood
<1>10. QED
  BY <1>9 DEF kids

\* A new group or `not` around a match.
LEMMA ChildGood ==
    ASSUME NEW m, NEW kind \in {"all", "not"}
    PROVE  GoodTree(Branch(kind, <<Leaf(m)>>)) /\ StrictTree(Branch(kind, <<Leaf(m)>>))
<1> DEFINE kids == <<Leaf(m)>>
<1>1. GoodTree(Leaf(m)) /\ StrictTree(Leaf(m))
  BY LeafGood
<1>2. DOMAIN kids = 1..1 /\ kids[1] = Leaf(m)
  OBVIOUS
<1>3. IsFiniteSet(1..1)
  <2>1. IsFiniteSet({1}) /\ {1} = 1..1
    BY FS_Singleton
  <2>2. QED
    BY <2>1
<1>4. {kind} \in Kinds
  BY DEF Kinds
<1> HIDE DEF kids
<1>5. \A k \in DOMAIN kids : k = 1
  BY <1>2
<1>6. \A k \in DOMAIN kids : GoodTree(kids[k]) /\ StrictTree(kids[k])
  BY <1>1, <1>2, <1>5
<1>7. IsFiniteSet(DOMAIN kids) /\ DOMAIN kids \subseteq Nat \ {0}
  BY <1>2, <1>3
<1>8. GoodTree(Branch(kind, kids)) /\ StrictTree(Branch(kind, kids))
  BY <1>4, <1>6, <1>7, BranchGood
<1>9. QED
  BY <1>8 DEF kids

-----------------------------------------------------------------------------
(* PolicyBuilder: the cards, handler by handler.                           *)

\* The cards, one for one others.
LEMMA MapSafe ==
    ASSUME NEW list, NEW strict, AllSafe(list, strict), NEW f, f = [i \in DOMAIN list |-> f[i]],
           \A i \in DOMAIN list : CardSafe(f[i], strict)
    PROVE  AllSafe(f, strict) /\ DOMAIN f = DOMAIN list
<1>1. Len(list) \in Nat /\ DOMAIN list = 1..Len(list)
  BY DEF AllSafe
<1>2. DOMAIN f = DOMAIN list
  OBVIOUS
<1>3. f \in Seq(Range(f))
  <2>1. \A i \in 1..Len(list) : f[i] \in Range(f)
    BY <1>1, <1>2 DEF Range
  <2>2. f = [i \in 1..Len(list) |-> f[i]]
    BY <1>1
  <2>3. f \in [1..Len(list) -> Range(f)]
    BY <2>1, <2>2
  <2>4. QED
    BY <2>3, <1>1, SeqDef
<1>4. QED
  BY <1>2, <1>3 DEF AllSafe

\* One card changed.
LEMMA ExceptSafe ==
    ASSUME NEW list, NEW strict, AllSafe(list, strict), NEW i \in DOMAIN list,
           NEW d, CardSafe(d, strict)
    PROVE  AllSafe([list EXCEPT ![i] = d], strict)
<1> DEFINE f == [list EXCEPT ![i] = d]
<1>1. f = [j \in DOMAIN list |-> f[j]] /\ \A j \in DOMAIN list : f[j] = IF j = i THEN d ELSE list[j]
  BY DEF AllSafe
<1> HIDE DEF f
<1>2. \A j \in DOMAIN list : CardSafe(f[j], strict)
  BY <1>1 DEF AllSafe
<1>3. AllSafe(f, strict)
  BY <1>1, <1>2, MapSafe
<1>4. QED
  BY <1>3 DEF f

\* All inputs read.
LEMMA SyncedAllSafe ==
    ASSUME NEW strict, AllSafe(cards, strict)
    PROVE  /\ AllSafe(SyncedAll, strict) /\ DOMAIN SyncedAll = DOMAIN cards
           /\ \A i \in DOMAIN cards : SyncedAll[i] = Synced(cards[i])
<1> DEFINE f == SyncedAll
<1>1. f = [i \in DOMAIN cards |-> f[i]] /\ \A i \in DOMAIN cards : f[i] = Synced(cards[i])
  BY DEF SyncedAll
<1> HIDE DEF f
<1>2. \A i \in DOMAIN cards : CardSafe(f[i], strict)
  <2> SUFFICES ASSUME NEW i \in DOMAIN cards PROVE CardSafe(f[i], strict)
    OBVIOUS
  <2>1. CardSafe(cards[i], strict)
    BY DEF AllSafe
  <2>2. QED
    BY <2>1, <1>1, SyncedSafe
<1>3. AllSafe(f, strict) /\ DOMAIN f = DOMAIN cards
  BY <1>1, <1>2, MapSafe
<1>4. QED
  BY <1>1, <1>3 DEF f

\* All inputs read and all cards drawn.
LEMMA DrawnAllSafe ==
    ASSUME NEW strict, AllSafe(cards, strict)
    PROVE  /\ AllSafe([i \in DOMAIN cards |-> Drawn(SyncedAll[i])], strict)
<1> DEFINE f == [i \in DOMAIN cards |-> Drawn(SyncedAll[i])]
<1>1. f = [i \in DOMAIN cards |-> f[i]] /\ \A i \in DOMAIN cards : f[i] = Drawn(SyncedAll[i])
  OBVIOUS
<1> HIDE DEF f
<1>2. AllSafe(SyncedAll, strict) /\ DOMAIN SyncedAll = DOMAIN cards
  BY SyncedAllSafe
<1>3. \A i \in DOMAIN cards : CardSafe(f[i], strict)
  <2> SUFFICES ASSUME NEW i \in DOMAIN cards PROVE CardSafe(f[i], strict)
    OBVIOUS
  <2>1. CardSafe(SyncedAll[i], strict)
    BY <1>2 DEF AllSafe
  <2>2. QED
    BY <2>1, <1>1, DrawnSafe
<1>4. AllSafe(f, strict)
  BY <1>1, <1>3, MapSafe
<1>5. QED
  BY <1>4 DEF f

\* One card more.
LEMMA AppendSafe ==
    ASSUME NEW list, NEW strict, AllSafe(list, strict), NEW d, CardSafe(d, strict)
    PROVE  AllSafe(list \o <<d>>, strict)
<1> DEFINE S == Range(list) \cup {d}
           f == list \o <<d>>
<1>1. list \in Seq(S) /\ <<d>> \in Seq(S) /\ Len(<<d>>) = 1 /\ <<d>>[1] = d
  BY DEF AllSafe
<1> HIDE DEF S
<1>2. /\ f \in Seq(S) /\ Len(f) = Len(list) + 1 /\ Len(list) \in Nat
      /\ \A i \in 1..Len(list) + 1 : f[i] = IF i <= Len(list) THEN list[i] ELSE d
  BY <1>1
<1> HIDE DEF f
<1>3. DOMAIN f = 1..(Len(list) + 1) /\ DOMAIN list = 1..Len(list)
  BY <1>1, <1>2
<1>4. f \in Seq(Range(f))
  <2>1. f \in [1..Len(f) -> Range(f)]
    BY <1>2, <1>3 DEF Range
  <2>2. Len(f) \in Nat
    BY <1>2
  <2>3. QED
    BY <2>1, <2>2, SeqDef
<1>5. \A i \in DOMAIN f : CardSafe(f[i], strict)
  <2> SUFFICES ASSUME NEW i \in DOMAIN f PROVE CardSafe(f[i], strict)
    OBVIOUS
  <2>1. CASE i <= Len(list)
    BY <2>1, <1>2, <1>3 DEF AllSafe
  <2>2. CASE ~(i <= Len(list))
    BY <2>2, <1>2, <1>3
  <2>3. QED
    BY <2>1, <2>2
<1>6. QED
  BY <1>4, <1>5 DEF AllSafe, f

\* Whatever comes of a sequence by taking and joining parts of it has its elements.
LEMMA RemoveAtSafe ==
    ASSUME NEW list, NEW strict, AllSafe(list, strict), NEW i \in DOMAIN list
    PROVE  AllSafe(RemoveAt(list, i), strict)
<1> DEFINE S == Range(list)
           a == SubSeq(list, 1, i - 1)
           b == SubSeq(list, i + 1, Len(list))
           f == a \o b
<1>1. list \in Seq(S) /\ Len(list) \in Nat /\ DOMAIN list = 1..Len(list)
  BY DEF AllSafe
<1>2. a \in Seq(S) /\ b \in Seq(S)
  BY <1>1
<1>3. f \in Seq(S)
  <2> HIDE DEF a, b, S
  <2>1. QED
    BY <1>2
<1> HIDE DEF f
<1>4. Len(f) \in Nat /\ DOMAIN f = 1..Len(f) /\ \A j \in DOMAIN f : f[j] \in S
  BY <1>3
<1>5. f \in Seq(Range(f))
  <2>1. f \in [1..Len(f) -> Range(f)]
    BY <1>3, <1>4 DEF Range
  <2>2. QED
    BY <2>1, <1>4, SeqDef
<1>6. \A j \in DOMAIN f : CardSafe(f[j], strict)
  <2> SUFFICES ASSUME NEW j \in DOMAIN f PROVE CardSafe(f[j], strict)
    OBVIOUS
  <2>1. f[j] \in S
    BY <1>4
  <2>2. PICK k \in DOMAIN list : f[j] = list[k]
    BY <2>1 DEF Range
  <2>3. QED
    BY <2>2 DEF AllSafe
<1>7. RemoveAt(list, i) = f
  BY DEF RemoveAt, f
<1>8. QED
  BY <1>5, <1>6, <1>7 DEF AllSafe

\* A policy parsed from the YAML tab.
LEMMA LoadsInv ==
    ASSUME NEW doc, PolicyTyped(doc), Loads(doc)
    PROVE  /\ AllSafe(cards', SchemaPolicy(loaded'))
           /\ SchemaPolicy(loaded') => DOMAIN extra' = {"version"}
<1> DEFINE strict == SchemaPolicy(doc)
           list == Part(doc, "rules")
           f == [i \in DOMAIN list |-> NewCard(doc.rules[i], {doc.rules[i]})]
<1>1. cards' = f /\ loaded' = doc
  BY DEF Loads
<1>2. /\ list \in Seq(Range(list)) /\ Len(list) \in Nat /\ DOMAIN list = 1..Len(list)
      /\ \A i \in DOMAIN list : /\ "rules" \in DOMAIN doc /\ RuleTyped(doc.rules[i])
                                /\ strict => SchemaRule(doc.rules[i])
  <2>1. CASE "rules" \in DOMAIN doc
    <3>1. list = doc.rules /\ doc.rules \in Seq(Range(doc.rules))
          /\ \A rule \in Range(doc.rules) : RuleTyped(rule)
      BY <2>1 DEF Part, PolicyTyped
    <3>2. \A i \in DOMAIN list : strict => SchemaRule(doc.rules[i])
      BY <3>1 DEF SchemaPolicy
    <3>3. \A i \in DOMAIN list : RuleTyped(doc.rules[i])
      BY <3>1 DEF Range
    <3> HIDE DEF list, strict
    <3>4. QED
      BY <2>1, <3>1, <3>2, <3>3
  <2>2. CASE "rules" \notin DOMAIN doc
    <3>1. list = << >>
      BY <2>2 DEF Part
    <3>2. << >> \in Seq(Range(<< >>)) /\ Len(<< >>) = 0 /\ DOMAIN << >> = 1..0
      BY EmptySeq
    <3>3. \A i \in 1..0 : FALSE
      OBVIOUS
    <3> HIDE DEF list
    <3>4. QED
      BY <3>1, <3>2, <3>3
  <2>3. QED
    BY <2>1, <2>2
<1> HIDE DEF strict, list
<1>3. \A i \in DOMAIN list : CardSafe(f[i], strict)
  <2> SUFFICES ASSUME NEW i \in DOMAIN list PROVE CardSafe(f[i], strict)
    OBVIOUS
  <2> DEFINE rule == doc.rules[i]
  <2>1. RuleTyped(rule) /\ (strict => SchemaRule(rule)) /\ {rule} \subseteq {rule}
    BY <1>2
  <2> HIDE DEF rule
  <2>2. CardSafe(NewCard(rule, {rule}), strict)
    BY <2>1, NewSafe
  <2>3. QED
    BY <2>2 DEF rule
<1>4. DOMAIN f = DOMAIN list
  OBVIOUS
<1> HIDE DEF f
<1>5. f \in Seq(Range(f))
  <2>1. f \in [1..Len(list) -> Range(f)]
    BY <1>2, <1>4 DEF Range, f
  <2>2. QED
    BY <2>1, <1>2, SeqDef
<1>6. AllSafe(cards', SchemaPolicy(loaded'))
  BY <1>1, <1>3, <1>4, <1>5 DEF AllSafe, strict
<1>7. SchemaPolicy(loaded') => DOMAIN extra' = {"version"}
  <2>1. extra' = [k \in (DOMAIN doc \ {"default", "rules"}) \cup {"version"} |->
                    IF k \in DOMAIN doc THEN doc[k] ELSE 1]
    BY DEF Loads
  <2>2. DOMAIN extra' = (DOMAIN doc \ {"default", "rules"}) \cup {"version"}
    BY <2>1
  <2>3. SchemaPolicy(doc) => DOMAIN doc = {"version", "default", "rules"}
    BY DEF SchemaPolicy
  <2>4. QED
    BY <1>1, <2>2, <2>3
<1>8. QED
  BY <1>6, <1>7

\* What the form writes is a policy that the form can read.
LEMMA BuiltFact ==
    ASSUME NEW strict, AllSafe(cards, strict)
    PROVE  /\ DOMAIN Built = DOMAIN extra \cup {"default", "rules"}
           /\ DOMAIN Built.rules = DOMAIN cards
           /\ \A i \in DOMAIN cards : Built.rules[i] = Synced(cards[i]).rule
           /\ PolicyTyped(Built)
<1> DEFINE f == [i \in DOMAIN cards |-> SyncedAll[i].rule]
<1>1. /\ DOMAIN Built = DOMAIN extra \cup {"default", "rules"}
      /\ Built.rules = f
  BY DEF Built
<1>2. /\ AllSafe(SyncedAll, strict) /\ DOMAIN SyncedAll = DOMAIN cards
      /\ \A i \in DOMAIN cards : SyncedAll[i] = Synced(cards[i])
  BY SyncedAllSafe
<1>3. DOMAIN f = DOMAIN cards /\ \A i \in DOMAIN cards : f[i] = Synced(cards[i]).rule
  BY <1>2
<1>4. Len(cards) \in Nat /\ DOMAIN cards = 1..Len(cards)
  BY DEF AllSafe
<1>5. f \in Seq(Range(f))
  <2>1. f \in [1..Len(cards) -> Range(f)]
    BY <1>4 DEF Range
  <2> HIDE DEF f
  <2>2. QED
    BY <2>1, <1>4, SeqDef
<1> HIDE DEF f
<1>6. \A rule \in Range(f) : RuleTyped(rule)
  <2> SUFFICES ASSUME NEW rule \in Range(f) PROVE RuleTyped(rule)
    OBVIOUS
  <2>1. PICK i \in DOMAIN cards : rule = f[i]
    BY <1>3 DEF Range
  <2>2. CardTyped(SyncedAll[i])
    BY <1>2 DEF AllSafe, CardSafe, CardInv
  <2>3. RuleTyped(SyncedAll[i].rule)
    BY <2>2 DEF CardTyped
  <2>4. QED
    BY <2>1, <2>3, <1>2, <1>3
<1>7. PolicyTyped(Built)
  BY <1>1, <1>5, <1>6 DEF PolicyTyped
<1>8. QED
  BY <1>1, <1>3, <1>7

\* The rule that is added is one the server takes.
LEMMA AddedTyped ==
    LET rule == [id |-> Blank, effect |-> "allow", action |-> Blank] IN
    RuleTyped(rule) /\ SchemaRule(rule)
<1> DEFINE rule == [id |-> Blank, effect |-> "allow", action |-> Blank]
<1>1. DOMAIN rule = {"id", "effect", "action"} /\ rule.effect = "allow"
  OBVIOUS
<1> HIDE DEF rule
<1>2. DOMAIN Sections = {"constraints", "requirements", "proof"}
  BY SectionFact
<1>3. RuleTyped(rule)
  BY <1>1 DEF RuleTyped
<1>4. SchemaRule(rule)
  BY <1>1, <1>2 DEF SchemaRule
<1>5. QED
  BY <1>3, <1>4 DEF rule

\* A handler of a card's condition, over the cards.
LEMMA HandleWhenSafe ==
    ASSUME NEW strict, AllSafe(cards, strict), NEW i \in DOMAIN cards, NEW trees,
           HandleWhen(i, trees),
           \A tree \in trees : GoodTree(tree),
           strict => \A tree \in trees : StrictTree(tree)
    PROVE  /\ AllSafe(cards', strict)
           /\ "when" \in DOMAIN cards'[i].rule <=> trees # {}
           /\ trees # {} => cards'[i].rule.when \in trees
<1> DEFINE c == SyncedAll[i]
           R == WithTree(c.rule, trees)
           d == Touch(Drawn([c EXCEPT !.rule = R]), "when")
<1>1. AllSafe(SyncedAll, strict) /\ DOMAIN SyncedAll = DOMAIN cards
  BY SyncedAllSafe
<1>2. cards' = [SyncedAll EXCEPT ![i] = d]
  BY DEF HandleWhen, Handled
<1>3. CardSafe(c, strict)
  BY <1>1 DEF AllSafe
<1>4. CardInv(c) /\ RuleTyped(c.rule)
  BY <1>3 DEF CardSafe, CardInv, CardTyped
<1> HIDE DEF c
<1>5. CardSafe(d, strict)
  BY <1>3, HandledSafe
<1>6. /\ ButWhen(c.rule, R) /\ RuleTyped(R)
      /\ "when" \in DOMAIN R <=> trees # {}
      /\ trees # {} => R.when \in trees
  BY <1>4, WithTreeFact
<1> HIDE DEF R
<1>7. d.rule = R
  BY <1>4, <1>6, RuleHandled
<1> HIDE DEF d
<1>8. AllSafe(cards', strict)
  BY <1>1, <1>2, <1>5, ExceptSafe
<1>9. cards'[i] = d
  BY <1>1, <1>2
<1>10. QED
  BY <1>6, <1>7, <1>8, <1>9

\* A handler changes nothing but the cards and the default.
LEMMA VisualStep ==
    ASSUME BuilderInv, Visual, AllSafe(cards', SchemaPolicy(loaded))
    PROVE  BuilderInv'
<1>1. mode = "visual" /\ mode' = mode /\ text' = text /\ extra' = extra /\ loaded' = loaded
  BY DEF Visual
<1>2. QED
  BY <1>1 DEF BuilderInv

\* The cards, while the form is shown.
LEMMA CardsSafe ==
    ASSUME BuilderInv, mode = "visual"
    PROVE  AllSafe(cards, SchemaPolicy(loaded))
BY DEF BuilderInv

\* The condition of a card, while the form is shown.
LEMMA CardTree ==
    ASSUME NEW strict, AllSafe(cards, strict), NEW i \in DOMAIN cards, HasWhen(i)
    PROVE  /\ GoodTree(When(i)) /\ (strict => StrictTree(When(i)))
           /\ IsTree(When(i)) /\ NodesOf(i) = DOMAIN When(i)
<1>1. CardInv(cards[i]) /\ (strict => CardStrict(cards[i]))
  BY DEF AllSafe, CardSafe
<1>2. RuleTyped(cards[i].rule)
  BY <1>1 DEF CardInv, CardTyped
<1>3. "when" \in DOMAIN cards[i].rule /\ When(i) = cards[i].rule.when
  BY DEF HasWhen, When
<1>4. GoodTree(When(i))
  BY <1>2, <1>3, RuleTree
<1>5. strict => StrictTree(When(i))
  BY <1>1, <1>3 DEF CardStrict, StrictTree, Kinds
<1>6. QED
  BY <1>4, <1>5 DEF GoodTree, NodesOf

\* A card with a node has a condition.
LEMMA NodeHas ==
    ASSUME NEW i, NEW at \in NodesOf(i)
    PROVE  HasWhen(i) /\ at \in DOMAIN When(i)
BY DEF NodesOf

\* The steps, one by one.
LEMMA MountInv == ASSUME BuilderInv, Mount PROVE BuilderInv'
<1>1. text' \in Texts
  BY DEF Mount
<1>2. CASE Loads(text')
  <2>1. text' # Unparsable /\ PolicyTyped(text')
    BY <1>1, <1>2, TextsAssumption DEF Loads
  <2>2. /\ AllSafe(cards', SchemaPolicy(loaded'))
        /\ SchemaPolicy(loaded') => DOMAIN extra' = {"version"}
    BY <1>2, <2>1, LoadsInv
  <2>3. QED
    BY <2>1, <2>2 DEF BuilderInv
<1>3. CASE text' = Unparsable /\ UNCHANGED <<mode, default, extra, cards, loaded>>
  BY <1>3 DEF BuilderInv
<1>4. QED
  BY <1>2, <1>3 DEF Mount

LEMMA TypeYamlInv == ASSUME BuilderInv, TypeYaml PROVE BuilderInv'
<1>1. text' \in Texts /\ mode = "yaml" /\ mode' = mode
  BY DEF TypeYaml
<1>2. text' = Unparsable \/ PolicyTyped(text')
  BY <1>1, TextsAssumption
<1>3. QED
  BY <1>1, <1>2 DEF BuilderInv

LEMMA ToVisualInv == ASSUME BuilderInv, ToVisual PROVE BuilderInv'
<1>1. Loads(text) /\ text' = text
  BY DEF ToVisual
<1>2. PolicyTyped(text)
  BY <1>1 DEF Loads, BuilderInv
<1>3. /\ AllSafe(cards', SchemaPolicy(loaded'))
      /\ SchemaPolicy(loaded') => DOMAIN extra' = {"version"}
  BY <1>1, <1>2, LoadsInv
<1>4. QED
  BY <1>1, <1>2, <1>3 DEF BuilderInv

LEMMA ToYamlInv == ASSUME BuilderInv, ToYaml PROVE BuilderInv'
<1>1. mode = "visual" /\ mode' = "yaml" /\ text' = Built
  BY DEF ToYaml
<1>2. PolicyTyped(Built)
  BY <1>1, CardsSafe, BuiltFact
<1>3. QED
  BY <1>1, <1>2 DEF BuilderInv

LEMMA FormStepsInv ==
    ASSUME BuilderInv, PickDefault \/ AddRule \/ Save
    PROVE  BuilderInv'
<1> DEFINE strict == SchemaPolicy(loaded)
<1>1. Visual /\ AllSafe(cards, strict)
  BY CardsSafe DEF PickDefault, AddRule, Save, Visual
<1> HIDE DEF strict
<1>2. CASE PickDefault
  <2>1. cards' = cards
    BY <1>2 DEF PickDefault
  <2>2. QED
    BY <1>1, <2>1, VisualStep DEF strict
<1>3. CASE AddRule
  <2> DEFINE rule == [id |-> Blank, effect |-> "allow", action |-> Blank]
             list == [i \in DOMAIN cards |-> Drawn(SyncedAll[i])]
             d == NewCard(rule, {})
  <2>1. cards' = list \o <<d>>
    BY <1>3 DEF AddRule
  <2>2. RuleTyped(rule) /\ SchemaRule(rule)
    BY AddedTyped
  <2> HIDE DEF rule
  <2>3. CardSafe(d, strict)
    BY <2>2, NewSafe
  <2>4. AllSafe(list, strict)
    BY <1>1, DrawnAllSafe
  <2> HIDE DEF d, list
  <2>5. AllSafe(cards', strict)
    BY <2>1, <2>3, <2>4, AppendSafe
  <2>6. QED
    BY <1>1, <2>5, VisualStep DEF strict
<1>4. CASE Save
  <2>1. cards' = SyncedAll
    BY <1>4 DEF Save
  <2>2. AllSafe(SyncedAll, strict)
    BY <1>1, SyncedAllSafe
  <2>3. QED
    BY <1>1, <2>1, <2>2, VisualStep DEF strict
<1>5. QED
  BY <1>2, <1>3, <1>4

LEMMA TypeInv ==
    ASSUME BuilderInv, NEW i \in DOMAIN cards, NEW f \in Fields, Type(i, f)
    PROVE  BuilderInv'
<1> DEFINE strict == SchemaPolicy(loaded)
           c == cards[i]
<1>1. Visual /\ AllSafe(cards, strict)
  BY CardsSafe DEF Type, Visual
<1> HIDE DEF strict
<1>2. PICK entry \in Entries[f] :
         cards' = [cards EXCEPT ![i] = TouchBy([c EXCEPT !.form.fields[f] = entry], f, entry)]
  BY DEF Type
<1>3. CardSafe(c, strict)
  BY <1>1 DEF AllSafe
<1> HIDE DEF c
<1> DEFINE d == TouchBy([c EXCEPT !.form.fields[f] = entry], f, entry)
<1>4. CardSafe(d, strict)
  BY <1>3, TypedFieldSafe
<1>5. cards' = [cards EXCEPT ![i] = d]
  BY <1>2
<1> HIDE DEF d
<1>6. AllSafe(cards', strict)
  BY <1>1, <1>4, <1>5, ExceptSafe
<1>7. QED
  BY <1>1, <1>6, VisualStep DEF strict

LEMMA TypeParamsInv ==
    ASSUME BuilderInv, NEW i \in DOMAIN cards, NEW t \in Known, TypeParams(i, t)
    PROVE  BuilderInv'
<1> DEFINE strict == SchemaPolicy(loaded)
           c == cards[i]
<1>1. Visual /\ AllSafe(cards, strict) /\ t \in DOMAIN c.form.params
  BY CardsSafe DEF TypeParams, Visual
<1> HIDE DEF strict
<1>2. PICK entry \in TypedParams :
         cards' = [cards EXCEPT ![i] = TouchBy([c EXCEPT !.form.params[t] = entry], t, entry)]
  BY DEF TypeParams
<1>3. CardSafe(c, strict)
  BY <1>1 DEF AllSafe
<1> HIDE DEF c
<1> DEFINE d == TouchBy([c EXCEPT !.form.params[t] = entry], t, entry)
<1>4. CardSafe(d, strict)
  BY <1>1, <1>3, TypedParamsSafe
<1>5. cards' = [cards EXCEPT ![i] = d]
  BY <1>2
<1> HIDE DEF d
<1>6. AllSafe(cards', strict)
  BY <1>1, <1>4, <1>5, ExceptSafe
<1>7. QED
  BY <1>1, <1>6, VisualStep DEF strict

LEMMA ToggleInv ==
    ASSUME BuilderInv, NEW i \in DOMAIN cards, NEW t \in Known, Toggle(i, t)
    PROVE  BuilderInv'
<1> DEFINE strict == SchemaPolicy(loaded)
           c == cards[i]
           ticked == IF t \in c.form.checked THEN c.form.checked \ {t} ELSE c.form.checked \cup {t}
           x == [c EXCEPT !.form.checked = ticked]
           d == Drawn(Synced(x))
<1>1. Visual /\ AllSafe(cards, strict)
  BY CardsSafe DEF Toggle, Visual
<1>2. cards' = [SyncedAll EXCEPT ![i] = d]
  BY DEF Toggle
<1> HIDE DEF strict
<1>3. CardSafe(c, strict)
  BY <1>1 DEF AllSafe
<1> HIDE DEF c
<1>4. ticked \in SUBSET Known
  BY <1>3 DEF CardSafe, CardInv, CardTyped
<1> HIDE DEF ticked
<1>5. CardSafe(x, strict)
  BY <1>3, <1>4, TickedSafe
<1> HIDE DEF x
<1>6. CardSafe(Synced(x), strict)
  BY <1>5, SyncedSafe
<1>7. CardSafe(d, strict)
  BY <1>6, DrawnSafe
<1> HIDE DEF d
<1>8. AllSafe(SyncedAll, strict) /\ DOMAIN SyncedAll = DOMAIN cards
  BY <1>1, SyncedAllSafe
<1>9. AllSafe(cards', strict)
  BY <1>2, <1>7, <1>8, ExceptSafe
<1>10. QED
  BY <1>1, <1>9, VisualStep DEF strict

LEMMA RemoveRuleInv ==
    ASSUME BuilderInv, NEW i \in DOMAIN cards, RemoveRule(i)
    PROVE  BuilderInv'
<1> DEFINE strict == SchemaPolicy(loaded)
           list == [j \in DOMAIN cards |-> Drawn(SyncedAll[j])]
<1>1. Visual /\ AllSafe(cards, strict)
  BY CardsSafe DEF RemoveRule, Visual
<1> HIDE DEF strict
<1>2. cards' = RemoveAt(list, i)
  BY DEF RemoveRule
<1>3. AllSafe(list, strict)
  BY <1>1, DrawnAllSafe
<1>4. i \in DOMAIN list
  OBVIOUS
<1> HIDE DEF list
<1>5. AllSafe(cards', strict)
  BY <1>2, <1>3, <1>4, RemoveAtSafe
<1>6. QED
  BY <1>1, <1>5, VisualStep DEF strict

\* The handlers of a condition, over trees as good as the one there is.
LEMMA HandlersInv ==
    ASSUME BuilderInv, NEW i \in DOMAIN cards, NEW trees, HandleWhen(i, trees),
           \A tree \in trees : GoodTree(tree),
           (HasWhen(i) => StrictTree(When(i))) => \A tree \in trees : StrictTree(tree)
    PROVE  BuilderInv'
<1> DEFINE strict == SchemaPolicy(loaded)
<1>1. Visual /\ AllSafe(cards, strict)
  BY CardsSafe DEF HandleWhen, Visual
<1> HIDE DEF strict
<1>2. strict => \A tree \in trees : StrictTree(tree)
  BY <1>1, CardTree
<1>3. AllSafe(cards', strict)
  BY <1>1, <1>2, HandleWhenSafe
<1>4. QED
  BY <1>1, <1>3, VisualStep DEF strict

LEMMA RootInv ==
    ASSUME BuilderInv, NEW i \in DOMAIN cards, AddCondition(i) \/ WrapAnd(i)
    PROVE  BuilderInv'
<1>1. CASE AddCondition(i)
  <2> DEFINE trees == {Leaf(DefaultMatch)}
  <2>1. HandleWhen(i, trees)
    BY <1>1 DEF AddCondition
  <2>2. \A tree \in trees : GoodTree(tree) /\ StrictTree(tree)
    BY LeafGood
  <2> HIDE DEF trees
  <2>3. QED
    BY <2>1, <2>2, HandlersInv
<1>2. CASE WrapAnd(i)
  <2> DEFINE tree == Branch("all", <<When(i), Leaf(DefaultMatch)>>)
             trees == {tree}
  <2>1. HandleWhen(i, trees) /\ HasWhen(i)
    BY <1>2 DEF WrapAnd
  <2>2. mode = "visual"
    BY <2>1 DEF HandleWhen, Visual
  <2>3. GoodTree(When(i))
    BY <2>1, <2>2, CardsSafe, CardTree
  <2>4. GoodTree(tree) /\ (StrictTree(When(i)) => StrictTree(tree))
    BY <2>3, WrapGood
  <2> HIDE DEF tree
  <2>5. /\ \A t \in trees : GoodTree(t)
        /\ (HasWhen(i) => StrictTree(When(i))) => \A t \in trees : StrictTree(t)
    BY <2>1, <2>4
  <2> HIDE DEF trees
  <2>6. QED
    BY <2>1, <2>5, HandlersInv
<1>3. QED
  BY <1>1, <1>2

LEMMA NodeInv ==
    ASSUME BuilderInv, NEW i \in DOMAIN cards, NEW at \in NodesOf(i),
           RemoveCondition(i, at) \/ AddChild(i, at) \/ SwapKind(i, at) \/ ChangeOp(i, at)
    PROVE  BuilderInv'
<1> DEFINE e == When(i)
<1>1. HasWhen(i) /\ at \in DOMAIN e
  BY NodeHas
<1>2. mode = "visual"
  BY DEF RemoveCondition, AddChild, SwapKind, ChangeOp, HandleWhen, Visual
<1>3. GoodTree(e)
  BY <1>1, <1>2, CardsSafe, CardTree
<1>4. ASSUME NEW tree, HandleWhen(i, {tree}), GoodTree(tree), StrictTree(e) => StrictTree(tree)
      PROVE  BuilderInv'
  <2> DEFINE trees == {tree}
  <2>1. /\ \A t \in trees : GoodTree(t)
        /\ (HasWhen(i) => StrictTree(When(i))) => \A t \in trees : StrictTree(t)
    BY <1>1, <1>4
  <2>2. HandleWhen(i, trees)
    BY <1>4
  <2> HIDE DEF trees
  <2>3. QED
    BY <2>1, <2>2, HandlersInv
<1> HIDE DEF e
<1>5. CASE RemoveCondition(i, at)
  <2> DEFINE trees == RemoveExprAt(e, at)
  <2>1. HandleWhen(i, trees)
    BY <1>5 DEF RemoveCondition, e
  <2>2. \A t \in trees : GoodTree(t) /\ (StrictTree(e) => StrictTree(t))
    BY <1>1, <1>3, RemoveGood
  <2> HIDE DEF trees
  <2>3. (HasWhen(i) => StrictTree(When(i))) => \A t \in trees : StrictTree(t)
    BY <1>1, <2>2 DEF e
  <2>4. QED
    BY <2>1, <2>2, <2>3, HandlersInv
<1>6. CASE AddChild(i, at)
  <2> DEFINE match == Leaf(DefaultMatch)
  <2>1. PICK child \in {match, Branch("all", <<match>>), Branch("not", <<match>>)} :
           HandleWhen(i, {AddExprChild(e, at, child)})
    BY <1>6 DEF AddChild, e
  <2>2. GoodTree(child) /\ StrictTree(child)
    <3>1. GoodTree(match) /\ StrictTree(match)
      BY LeafGood
    <3>2. GoodTree(Branch("all", <<match>>)) /\ StrictTree(Branch("all", <<match>>))
      BY ChildGood
    <3>3. GoodTree(Branch("not", <<match>>)) /\ StrictTree(Branch("not", <<match>>))
      BY ChildGood
    <3> HIDE DEF match
    <3>4. QED
      BY <2>1, <3>1, <3>2, <3>3
  <2> HIDE DEF match
  <2> DEFINE tree == AddExprChild(e, at, child)
  <2>3. GoodTree(tree) /\ (StrictTree(e) => StrictTree(tree))
    BY <1>1, <1>3, <2>2, AddGood
  <2>4. HandleWhen(i, {tree})
    BY <2>1
  <2> HIDE DEF tree
  <2>5. QED
    BY <2>3, <2>4, <1>4
<1>7. CASE SwapKind(i, at)
  <2>1. PICK to \in {"all", "any"} :
           HandleWhen(i, {[e EXCEPT ![at] = SwapGroupKind(@, to)]})
    BY <1>7 DEF SwapKind, e
  <2>2. IsGroup(e[at])
    BY <1>7 DEF SwapKind, e
  <2> DEFINE tree == [e EXCEPT ![at] = SwapGroupKind(@, to)]
  <2>3. GoodTree(tree) /\ (StrictTree(e) => StrictTree(tree))
    BY <1>1, <1>3, <2>2, SwapGood
  <2>4. HandleWhen(i, {tree})
    BY <2>1
  <2> HIDE DEF tree
  <2>5. QED
    BY <2>3, <2>4, <1>4
<1>8. CASE ChangeOp(i, at)
  <2>1. PICK op \in TypedOps :
           HandleWhen(i, {[e EXCEPT ![at].match = ConvertValueForOp(@, op)]})
    BY <1>8 DEF ChangeOp, e
  <2> DEFINE m == ConvertValueForOp(e[at].match, op)
  <2>2. HandleWhen(i, {[e EXCEPT ![at].match = m]})
    BY <2>1
  <2> HIDE DEF m
  <2> DEFINE tree == [e EXCEPT ![at].match = m]
  <2>3. GoodTree(tree) /\ (StrictTree(e) => StrictTree(tree))
    BY <1>1, <1>3, MatchGood
  <2>4. HandleWhen(i, {tree})
    BY <2>2
  <2> HIDE DEF tree
  <2>5. QED
    BY <2>3, <2>4, <1>4
<1>9. QED
  BY <1>5, <1>6, <1>7, <1>8

LEMMA TypeMatchInv ==
    ASSUME BuilderInv, NEW i \in DOMAIN cards, NEW at \in NodesOf(i), TypeMatch(i, at)
    PROVE  BuilderInv'
<1> DEFINE strict == SchemaPolicy(loaded)
           c == cards[i]
<1>1. Visual /\ AllSafe(cards, strict)
  BY CardsSafe DEF TypeMatch, Visual
<1> HIDE DEF strict
<1>2. PICK m : cards' = [cards EXCEPT ![i] = Touch([c EXCEPT !.rule.when[at].match = m], "when")]
  BY DEF TypeMatch
<1>3. CardSafe(c, strict)
  BY <1>1 DEF AllSafe
<1>4. "when" \in DOMAIN c.rule /\ at \in DOMAIN c.rule.when
  BY NodeHas DEF HasWhen, When
<1> HIDE DEF c
<1> DEFINE d == Touch([c EXCEPT !.rule.when[at].match = m], "when")
<1>5. CardSafe(d, strict)
  BY <1>3, <1>4, TypedMatchSafe
<1>6. cards' = [cards EXCEPT ![i] = d]
  BY <1>2
<1> HIDE DEF d
<1>7. AllSafe(cards', strict)
  BY <1>1, <1>5, <1>6, ExceptSafe
<1>8. QED
  BY <1>1, <1>7, VisualStep DEF strict

\* While the form is shown, every card, its inputs and its stash together still
\* hold what the rule they came from said and the owner did not touch, as far as
\* an input can carry it (PassesForm: no line breaks, no blanks around a text),
\* whatever handlers ran, in whatever order (syncFormToModel before each).
THEOREM BuilderInvariance == BuilderSpec => []BuilderInv
<1>1. BuilderIdle => BuilderInv
  BY DEF BuilderIdle, BuilderInv
<1>2. BuilderInv /\ [BuilderNext]_builderVars => BuilderInv'
  <2> SUFFICES ASSUME BuilderInv, [BuilderNext]_builderVars PROVE BuilderInv'
    OBVIOUS
  <2>1. CASE UNCHANGED builderVars
    BY <2>1 DEF builderVars, BuilderInv
  <2>2. CASE Mount
    BY <2>2, MountInv
  <2>3. CASE TypeYaml
    BY <2>3, TypeYamlInv
  <2>4. CASE ToVisual
    BY <2>4, ToVisualInv
  <2>5. CASE ToYaml
    BY <2>5, ToYamlInv
  <2>6. CASE PickDefault \/ AddRule \/ Save
    BY <2>6, FormStepsInv
  <2>7. ASSUME NEW i \in DOMAIN cards, \E f \in Fields : Type(i, f) PROVE BuilderInv'
    BY <2>7, TypeInv
  <2>8. ASSUME NEW i \in DOMAIN cards, \E t \in Known : TypeParams(i, t) \/ Toggle(i, t)
        PROVE  BuilderInv'
    BY <2>8, TypeParamsInv, ToggleInv
  <2>9. ASSUME NEW i \in DOMAIN cards, RemoveRule(i) \/ AddCondition(i) \/ WrapAnd(i)
        PROVE  BuilderInv'
    BY <2>9, RemoveRuleInv, RootInv
  <2>10. ASSUME NEW i \in DOMAIN cards, NEW at \in NodesOf(i),
                \/ RemoveCondition(i, at) \/ AddChild(i, at) \/ SwapKind(i, at)
                \/ ChangeOp(i, at) \/ TypeMatch(i, at)
         PROVE  BuilderInv'
    BY <2>10, NodeInv, TypeMatchInv
  <2>11. QED
    BY <2>1, <2>2, <2>3, <2>4, <2>5, <2>6, <2>7, <2>8, <2>9, <2>10 DEF BuilderNext
<1>3. QED
  BY <1>1, <1>2, PTL DEF BuilderSpec

\* What is saved of a card whose rule was parsed.
LEMMA KeptFaithful ==
    ASSUME NEW c, CardInv(c), NEW was \in c.origin, SchemaRule(was)
    PROVE  LET is == Synced(c).rule IN
           /\ KeepsFields(was, is, c.touched)
           /\ "when" \notin c.touched => Part(is, "when") = Part(was, "when")
           /\ KeepsObligations(was, is, c)
<1> DEFINE d == Synced(c)
           is == d.rule
<1>1. CardTyped(c) /\ CardKept(c, was)
  BY DEF CardInv
<1>2. CardInv(d) /\ d.origin = c.origin /\ d.touched = c.touched
  BY SyncedInv
<1>3. CardTyped(d) /\ CardKept(d, was)
  BY <1>2 DEF CardInv
<1>4. RuleTyped(was) /\ RuleTyped(is)
  BY <1>3 DEF CardKept, CardTyped
<1>5. \A t \in Known :
         /\ t \notin c.form.checked => OfType(ListOf(is), t) = << >>
         /\ t \in c.form.checked =>
               SameBut(OfType(ListOf(is), t), Due(was, t), t \in c.touched)
  <2>1. \A t \in Known : OwedKept(c, was, t)
    BY <1>1 DEF CardKept
  <2>2. QED
    BY <2>1, <1>1, <1>4, OwedSynced
<1> HIDE DEF d
<1>6. KeepsFields(was, is, c.touched)
  BY <1>2, <1>3 DEF CardKept, FieldKept, KeepsFields
<1>7. "when" \notin c.touched => Part(is, "when") = Part(was, "when")
  BY <1>2, <1>3 DEF CardKept
<1>8. OfTypes(ListOf(is), Foreign) = OfTypes(ListOf(was), Foreign)
  BY <1>3 DEF CardKept
<1> HIDE DEF is
<1>9. ASSUME NEW rule, RuleTyped(rule)
      PROVE  OfTypes(ListOf(rule), Types(ListOf(rule)) \ Known) = OfTypes(ListOf(rule), Foreign)
  <2> DEFINE s == ListOf(rule)
  <2>1. s \in Seq(PolicyObligation)
    BY <1>9, ListTyped
  <2> HIDE DEF s
  <2>2. ASSUME NEW x \in Types(s) PROVE x \in Known \cup OtherTypes
    <3>1. PICK k \in DOMAIN s : x = s[k].type
      BY DEF Types
    <3>2. s[k] \in PolicyObligation
      BY <2>1
    <3>3. s[k].type \in Known \cup OtherTypes
      BY <3>2 DEF PolicyObligation
    <3>4. QED
      BY <3>1, <3>3
  <2>3. (Types(s) \ Known) \cap Types(s) = Foreign \cap Types(s)
    BY <2>2 DEF Foreign
  <2>4. QED
    BY <2>1, <2>3, OfTypesSame DEF s
<1>10. OfTypes(ListOf(is), Types(ListOf(is)) \ Known)
          = OfTypes(ListOf(was), Types(ListOf(was)) \ Known)
  BY <1>4, <1>8, <1>9
<1>11. KeepsObligations(was, is, c)
  BY <1>5, <1>10 DEF KeepsObligations, ListOf, SameBut, Due
<1>12. QED
  BY <1>6, <1>7, <1>11 DEF is, d

\* A rule that validates and whose card is strict is one the server takes.
LEMMA ValidSchema ==
    ASSUME NEW c, CardTyped(c), CardStrict(c), \A f \in Fields : c.form.fields[f] # Bad,
           ValidRule(Synced(c).rule)
    PROVE  SchemaRule(Synced(c).rule)
<1> DEFINE d == Synced(c)
           r == d.rule
<1>1. r = RuleAfter(c)
  BY SyncedIs
<1>2. CardStrict(d)
  BY SyncedStrict
<1>3. /\ DOMAIN r \subseteq {"id", "effect", "action", "description", "when", "obligations"}
                               \cup DOMAIN Sections
      /\ \A s \in DOMAIN Sections \cap DOMAIN r : DOMAIN r[s] \subseteq Sections[s]
      /\ "when" \in DOMAIN r => StrictTree(r.when)
  BY <1>2 DEF CardStrict, StrictTree, Kinds
<1>4. {"id", "effect", "action"} \subseteq DOMAIN r /\ r["effect"] = c.form.fields["effect"]
  <2>1. "effect" \in Fields /\ "effect" \notin TextInputs
    BY DEF Fields, Plain, TextInputs
  <2>2. QED
    BY <1>1, <2>1, RuleAfterFact, ReadFact
<1>5. \A s \in DOMAIN Sections : s \in DOMAIN r => r[s] = SectionAfter(c, s)
  BY <1>1, RuleAfterFact
<1>6. "when" \in DOMAIN r => ValidateExpr(r.when)
  BY DEF ValidRule
<1> HIDE DEF r, d
<1>7. "when" \in DOMAIN r => SchemaExpr(r.when)
  <2> SUFFICES ASSUME "when" \in DOMAIN r, NEW at \in DOMAIN r.when
               PROVE  /\ r.when[at].keys \in {{"all"}, {"any"}, {"not"}, {"match"}}
                      /\ ExprKind(r.when[at]) = "match" =>
                            r.when[at].match.path # Malformed /\ r.when[at].match.op \in Ops
    BY DEF SchemaExpr
  <2>1. r.when[at].keys \in {{"all"}, {"any"}, {"not"}, {"match"}}
    BY <1>3 DEF StrictTree, Kinds
  <2>2. ExprKind(r.when[at]) = "match" =>
           r.when[at].match.path \notin {Malformed, << >>} /\ r.when[at].match.op \in Ops
    BY <1>6 DEF ValidateExpr
  <2>3. QED
    BY <2>1, <2>2
<1>8. r.effect \in {"allow", "deny"}
  BY <1>4 DEF CardTyped
<1>9. "requirements" \in DOMAIN r =>
         \A k \in DOMAIN r.requirements \cap {"min_assurance_level"} : r.requirements[k] \in Levels
  <2> DEFINE k == "min_assurance_level"
             inputs == Read(c)
             old == Part(c.rule, "requirements")
             keys == Sections["requirements"]
  <2> SUFFICES ASSUME "requirements" \in DOMAIN r, k \in DOMAIN r.requirements
               PROVE  r.requirements[k] \in Levels
    OBVIOUS
  <2>1. r.requirements = SetOrDel(old, inputs, keys)
    BY <1>5, SectionFact DEF SectionAfter
  <2>2. keys = {"min_assurance_level", "credential_scheme"}
    BY DEF Sections
  <2>3. k \in Fields
    BY <2>2, SectionFact DEF Fields
  <2>4. inputs[k] # Bad /\ inputs[k] \in Levels \cup {Blank}
    <3>1. inputs[k] = c.form.fields[k]
      BY <2>3, ReadFact DEF TextInputs
    <3>2. QED
      BY <2>3, <3>1 DEF CardTyped
  <2> HIDE DEF keys, old, inputs
  <2>5. k \in keys
    BY <2>2
  <2>6. k \in {j \in keys : inputs[j] \notin {Blank, Bad}} /\ r.requirements[k] = inputs[k]
    BY <2>1, <2>4, <2>5 DEF SetOrDel
  <2>7. QED
    BY <2>4, <2>6
<1>10. SchemaRule(r)
  BY <1>3, <1>4, <1>7, <1>8, <1>9 DEF SchemaRule
<1>11. QED
  BY <1>10 DEF r, d

\* The form as it stands is saved faithfully.
LEMMA SavesStep == ASSUME BuilderInv PROVE SavesFaithful
<1> SUFFICES ASSUME mode = "visual"
             PROVE  /\ SchemaPolicy(loaded) /\ Validated => SchemaPolicy(Built)
                    /\ \A i \in DOMAIN cards : \A was \in cards[i].origin :
                          SchemaRule(was) =>
                             LET is == Built.rules[i] IN
                             /\ KeepsFields(was, is, cards[i].touched)
                             /\ "when" \notin cards[i].touched => Part(is, "when") = Part(was, "when")
                             /\ KeepsObligations(was, is, cards[i])
  BY DEF SavesFaithful
<1> DEFINE strict == SchemaPolicy(loaded)
<1>1. AllSafe(cards, strict) /\ (strict => DOMAIN extra = {"version"})
  BY DEF BuilderInv
<1> HIDE DEF strict
<1>2. /\ DOMAIN Built = DOMAIN extra \cup {"default", "rules"}
      /\ DOMAIN Built.rules = DOMAIN cards
      /\ \A i \in DOMAIN cards : Built.rules[i] = Synced(cards[i]).rule
  BY <1>1, BuiltFact
<1>3. \A i \in DOMAIN cards : CardInv(cards[i]) /\ (strict => CardStrict(cards[i]))
  BY <1>1 DEF AllSafe, CardSafe
<1>4. ASSUME strict, Validated PROVE SchemaPolicy(Built)
  <2>1. DOMAIN Built = {"version", "default", "rules"}
    BY <1>1, <1>2, <1>4
  <2>2. ASSUME NEW i \in DOMAIN cards PROVE SchemaRule(Built.rules[i])
    <3>1. (\A f \in Fields : cards[i].form.fields[f] # Bad) /\ ValidRule(Built.rules[i])
      BY <1>4 DEF Validated
    <3>2. CardTyped(cards[i]) /\ CardStrict(cards[i])
      BY <1>3, <1>4 DEF CardInv
    <3>3. QED
      BY <3>1, <3>2, <1>2, ValidSchema
  <2>3. QED
    BY <2>1, <2>2, <1>2 DEF SchemaPolicy
<1>5. ASSUME NEW i \in DOMAIN cards, NEW was \in cards[i].origin, SchemaRule(was)
      PROVE  /\ KeepsFields(was, Built.rules[i], cards[i].touched)
             /\ "when" \notin cards[i].touched => Part(Built.rules[i], "when") = Part(was, "when")
             /\ KeepsObligations(was, Built.rules[i], cards[i])
  BY <1>2, <1>3, <1>5, KeptFaithful
<1>6. QED
  BY <1>4, <1>5 DEF strict

\* SavesFaithful: an edit in the form never loses or loosens what the owner did
\* not touch and an input can carry (PassesForm), and what the server took and the builder finds valid it takes again
\* (buildPolicyObject, rebuildObligations, validatePolicyModel).
THEOREM SavesAlwaysFaithful == BuilderSpec => []SavesFaithful
<1>1. BuilderSpec => []BuilderInv
  BY BuilderInvariance
<1>2. BuilderInv => SavesFaithful
  BY SavesStep
<1>3. QED
  BY <1>1, <1>2, PTL

\* A removal is what is left of the condition: RemovalFact, for a card.
LEMMA RemovalStep ==
    ASSUME BuilderInv, NEW i \in DOMAIN cards, NEW at \in NodesOf(i), RemoveCondition(i, at),
           NEW act \in Acts
    PROVE  WhenHolds(cards'[i].rule, act) = (FALSE \notin Without(When(i), at, DocOf(act)))
<1> DEFINE e == When(i)
           doc == DocOf(act)
           trees == RemoveExprAt(e, at)
           rest == Without(e, at, doc)
           rule == cards'[i].rule
           strict == SchemaPolicy(loaded)
<1>1. HasWhen(i) /\ at \in DOMAIN e
  BY NodeHas
<1>2. HandleWhen(i, trees) /\ mode = "visual"
  BY DEF RemoveCondition, HandleWhen, Visual
<1>3. AllSafe(cards, strict)
  BY <1>2, CardsSafe
<1> HIDE DEF strict
<1>4. GoodTree(e) /\ IsTree(e) /\ (strict => StrictTree(e))
  BY <1>1, <1>3, CardTree
<1> HIDE DEF e, doc, trees, rest, rule
<1>5. \A t \in trees : GoodTree(t) /\ (StrictTree(e) => StrictTree(t))
  BY <1>1, <1>4, RemoveGood DEF trees
<1>6. /\ "when" \in DOMAIN rule <=> trees # {}
      /\ trees # {} => rule.when \in trees
  BY <1>2, <1>3, <1>4, <1>5, HandleWhenSafe DEF rule
<1>7. /\ \A t \in trees : rest = {EvaluateExpr(t, doc)}
      /\ trees = {} => rest = {}
      /\ \A t \in trees : EvaluateExpr(t, doc) \in BOOLEAN
  BY <1>1, <1>4, RemovalFact DEF trees, rest
<1>8. CASE trees = {}
  <2>1. WhenHolds(rule, act) = TRUE
    BY <1>6, <1>8 DEF WhenHolds
  <2>2. (FALSE \notin rest) = TRUE
    BY <1>7, <1>8
  <2>3. QED
    BY <2>1, <2>2 DEF rule, rest, e, doc
<1>9. CASE trees # {}
  <2> DEFINE v == EvaluateExpr(rule.when, doc)
  <2>1. /\ "when" \in DOMAIN rule
        /\ rest = {v} /\ v \in BOOLEAN
    BY <1>6, <1>7, <1>9
  <2>2. WhenHolds(rule, act) = v
    BY <2>1 DEF WhenHolds, doc
  <2> HIDE DEF v
  <2>3. (FALSE \notin rest) = v
    <3>1. CASE v = TRUE
      BY <2>1, <3>1
    <3>2. CASE v = FALSE
      BY <2>1, <3>2
    <3>3. QED
      BY <2>1, <3>1, <3>2
  <2>4. QED
    BY <2>2, <2>3 DEF rule, rest, e, doc
<1>10. QED
  BY <1>8, <1>9

\* RemovalsMeanGone: a rule whose condition was removed in part (removeExprAt)
\* holds of an action exactly as the rest of its conditions says, for trees of
\* any shape and depth.
THEOREM RemovalsAlwaysMeanGone == BuilderSpec => RemovalsMeanGone
<1> DEFINE gone == \A i \in DOMAIN cards : \A at \in NodesOf(i) :
                      RemoveCondition(i, at) =>
                         \A act \in Acts :
                            LET rest == Without(When(i), at, DocOf(act)) IN
                            WhenHolds(cards'[i].rule, act) = (FALSE \notin rest)
<1>1. BuilderInv => gone
  BY RemovalStep
<1>2. BuilderInv /\ [BuilderNext]_builderVars => [gone]_builderVars
  BY <1>1
<1> HIDE DEF gone
<1>3. BuilderSpec => [][gone]_builderVars
  BY <1>2, BuilderInvariance, PTL DEF BuilderSpec
<1>4. QED
  BY <1>3 DEF RemovalsMeanGone, gone

=============================================================================
