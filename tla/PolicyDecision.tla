--------------------------- MODULE PolicyDecision ---------------------------
(***************************************************************************)
(* How authorize.ts decides about one action: the owner's bindings are     *)
(* sorted into tiers (policy-resolution.ts), their policies loaded and     *)
(* merged, the merged rules tried in order (engine.ts), the outcome        *)
(* derived from the obligations (obligations.ts) and a proof token issued. *)
(*                                                                         *)
(* One step per turn of a loop.  A rule carries what its three conditions  *)
(* (action pattern, when expression, constraints) are worth for the action *)
(* in hand, with TRUE for an absent one.                                   *)
(***************************************************************************)
EXTENDS Integers, Sequences, Functions

CONSTANTS
    Agent, Group,       \* agents and policy groups of the owner
    Self,               \* the agent that asks
    Memberships,        \* the groups it belongs to
    Inputs,             \* the arrays of bindings an owner may have
    Actions,            \* the actions asked about
    DefaultTtl, MaxTtl, \* lifetimes of proof tokens (config.tokens)
    None                \* null

ASSUME SelfAssumption == Self \in Agent /\ Memberships \subseteq Group
ASSUME NoneAssumption == None \notin Agent \cup Group \cup Nat
ASSUME TtlAssumption == DefaultTtl \in Nat /\ MaxTtl \in Nat

Blocking == {"HUMAN_APPROVAL", "STEP_UP_AUTH", "DEPOSIT"}
Obligation == Blocking \cup {"COUNTERPARTY_ATTESTATION"}
Level == 0..2   \* LOW, SUBSTANTIAL, HIGH

Rule == [effect : {"allow", "deny"},
         pattern : BOOLEAN, when : BOOLEAN, constraints : BOOLEAN,
         obligations : SUBSET Obligation,
         level : Level,                     \* min_assurance_level
         proof : BOOLEAN, ttl : Nat \cup {None}]

Policy == [default : {"allow", "deny", "passthrough", "require_approval"},
           rules : Seq(Rule)]

\* policy is None when the policy of the binding has no entry any more.
Binding == [agent : Agent \cup {None}, group : Group \cup {None},
            rank : Nat \cup {None}, policy : Policy \cup {None}]

\* level is the assurance level of the payload, the lowest for a name that the
\* code does not know; trusted says that the trust
\* profile of the relying party is HIGH or REGULATED.
Action == [level : Level, trusted : BOOLEAN]

ASSUME InputAssumption == Actions \subseteq Action
                          /\ \A s \in Inputs : s \in Seq(Binding)

VARIABLES
    pc,         \* where the handler is
    bindings,   \* the owner's bindings, in the order of state.md
    action,     \* the action asked about
    next,       \* the element the current loop is at
    tiers,      \* the bindings that apply, by tier
    ordered,    \* the same, most specific first
    layers,     \* the policies loaded
    merged,     \* the merged policy
    trace,      \* final_match of each rule tried
    matched,    \* the matched rule, a place in merged.rules, or 0
    answer      \* what the agent is told

vars == <<pc, bindings, action, next, tiers, ordered, layers, merged, trace,
          matched, answer>>

-----------------------------------------------------------------------------

Tiers == {"agent", "group", "owner_wide"}

Unanswered == [code |-> "none", result |-> "none", obligations |-> {}, ttl |-> None]

TypeOK ==
    /\ pc \in {"collect", "load", "merge", "try", "done"}
    /\ bindings \in Inputs
    /\ action \in Actions
    /\ next \in Nat \ {0}
    /\ tiers \in [Tiers -> Seq(Binding)]
    /\ ordered \in Seq(Binding)
    /\ layers \in Seq(Policy)
    /\ merged \in Policy
    /\ trace \in Seq(BOOLEAN)
    /\ matched \in Nat
    /\ answer.obligations \subseteq Obligation

Init ==
    /\ pc = "collect"
    /\ bindings \in Inputs
    /\ action \in Actions
    /\ next = 1
    /\ tiers = [t \in Tiers |-> << >>]
    /\ ordered = << >>
    /\ layers = << >>
    /\ merged = [default |-> "deny", rules |-> << >>]
    /\ trace = << >>
    /\ matched = 0
    /\ answer = Unanswered

-----------------------------------------------------------------------------
(* orderBindingsBySpecificity                                              *)

InGroup(b) == b.group # None /\ b.group \in Memberships

\* The tier of a binding, none if it does not apply.
TierOf(b) ==
    CASE b.agent = Self -> {"agent"}
      [] b.agent # Self /\ InGroup(b) -> {"group"}
      [] b.agent = None /\ b.group = None -> {"owner_wide"}
      [] OTHER -> {}

Collect ==
    /\ pc = "collect" /\ next <= Len(bindings)
    /\ tiers' = [t \in Tiers |-> IF t \in TierOf(bindings[next])
                                 THEN Append(tiers[t], bindings[next])
                                 ELSE tiers[t]]
    /\ next' = next + 1
    /\ UNCHANGED <<pc, bindings, action, ordered, layers, merged, trace,
                   matched, answer>>

Rank(b) == IF b.rank = None THEN 100 ELSE b.rank

\* Array.prototype.sort is stable: the ways to read s in order, of which there
\* is one.
StableOrders(s) ==
    {f \in Bijection(DOMAIN s, DOMAIN s) :
        \A i, j \in DOMAIN s :
            i < j => \/ Rank(s[f[i]]) < Rank(s[f[j]])
                     \/ Rank(s[f[i]]) = Rank(s[f[j]]) /\ f[i] < f[j]}

Refuse(code) ==
    /\ pc' = "done"
    /\ answer' = [Unanswered EXCEPT !.code = code]

\* NO_POLICY if nothing applies.
Sort ==
    /\ pc = "collect" /\ next > Len(bindings)
    /\ \E f \in [Tiers -> UNION {StableOrders(tiers[t]) : t \in Tiers}] :
          LET sorted(t) == [i \in DOMAIN tiers[t] |-> tiers[t][f[t][i]]] IN
          /\ \A t \in Tiers : f[t] \in StableOrders(tiers[t])
          /\ ordered' = sorted("agent") \o sorted("group") \o sorted("owner_wide")
    /\ next' = 1
    /\ IF ordered' = << >> THEN Refuse("NO_POLICY")
       ELSE pc' = "load" /\ UNCHANGED answer
    /\ UNCHANGED <<bindings, action, tiers, layers, merged, trace, matched>>

-----------------------------------------------------------------------------
(* Loading and mergePolicyLayers                                           *)

\* A binding whose policy has no entry is skipped.
Load ==
    /\ pc = "load" /\ next <= Len(ordered)
    /\ LET p == ordered[next].policy IN
       layers' = IF p = None THEN layers ELSE Append(layers, p)
    /\ next' = next + 1
    /\ UNCHANGED <<pc, bindings, action, tiers, ordered, merged, trace,
                   matched, answer>>

Decided(p) == p.default # "passthrough"

\* POLICY_NOT_FOUND if every binding was stale.
Loaded ==
    /\ pc = "load" /\ next > Len(ordered)
    /\ next' = 1
    /\ IF layers = << >> THEN Refuse("POLICY_NOT_FOUND")
       ELSE pc' = "merge" /\ UNCHANGED answer
    /\ UNCHANGED <<bindings, action, tiers, ordered, layers, merged, trace, matched>>

\* The first default that is not passthrough; deny if there is none.
DefaultAfter(i) ==
    IF Decided(layers[i]) /\ \A j \in 1..(i - 1) : ~Decided(layers[j])
    THEN layers[i].default ELSE merged.default

Merge ==
    /\ pc = "merge" /\ next <= Len(layers)
    /\ merged' = [default |-> DefaultAfter(next),
                  rules |-> merged.rules \o layers[next].rules]
    /\ next' = next + 1
    /\ UNCHANGED <<pc, bindings, action, tiers, ordered, layers, trace,
                   matched, answer>>

Merged ==
    /\ pc = "merge" /\ next > Len(layers)
    /\ pc' = "try"
    /\ next' = 1
    /\ UNCHANGED <<bindings, action, tiers, ordered, layers, merged, trace,
                   matched, answer>>

-----------------------------------------------------------------------------
(* evaluate                                                                *)

Holds(r) == r.pattern /\ r.when /\ r.constraints

\* Mutant of Try: a later match replaces an earlier one.
TryLast ==
    /\ pc = "try" /\ next <= Len(merged.rules)
    /\ LET final == Holds(merged.rules[next]) IN
       /\ trace' = Append(trace, final)
       /\ matched' = IF final THEN next ELSE matched
    /\ next' = next + 1
    /\ UNCHANGED <<pc, bindings, action, tiers, ordered, layers, merged, answer>>

\* The loop goes on after a match, for the trace.
Try ==
    /\ pc = "try" /\ next <= Len(merged.rules)
    /\ LET final == Holds(merged.rules[next]) IN
       /\ trace' = Append(trace, final)
       /\ matched' = IF final /\ matched = 0 THEN next ELSE matched
    /\ next' = next + 1
    /\ UNCHANGED <<pc, bindings, action, tiers, ordered, layers, merged, answer>>

\* The obligations of an allowing rule: its own, and a stronger authentication
\* if the action's assurance is below what it requires.
Owed(r) ==
    r.obligations \cup (IF action.level < r.level THEN {"STEP_UP_AUTH"} ELSE {})

\* Mutant of ResultOf: the stronger authentication comes before the human.
ResultOfStepFirst(owed) ==
    CASE "STEP_UP_AUTH" \in owed -> "REQUIRE_STEP_UP"
      [] owed \cap Blocking = {"HUMAN_APPROVAL"} -> "REQUIRE_APPROVAL"
      [] owed \cap Blocking = {"DEPOSIT"} -> "REQUIRE_DEPOSIT"
      [] OTHER -> "ALLOW"

\* Blocking precedence.
ResultOf(owed) ==
    CASE "HUMAN_APPROVAL" \in owed -> "REQUIRE_APPROVAL"
      [] "HUMAN_APPROVAL" \notin owed /\ "STEP_UP_AUTH" \in owed -> "REQUIRE_STEP_UP"
      [] owed \cap Blocking = {"DEPOSIT"} -> "REQUIRE_DEPOSIT"
      [] OTHER -> "ALLOW"

\* The outcome of a rule, 0 for none, under a default.
Outcome(rules, i, default) ==
    IF i # 0
    THEN IF rules[i].effect = "deny" THEN [result |-> "DENY", obligations |-> {}]
         ELSE [result |-> ResultOf(Owed(rules[i])), obligations |-> Owed(rules[i])]
    ELSE CASE default = "allow" -> [result |-> "ALLOW", obligations |-> {}]
           [] default = "require_approval" ->
                [result |-> "REQUIRE_APPROVAL", obligations |-> {"HUMAN_APPROVAL"}]
           [] OTHER -> [result |-> "DENY", obligations |-> {}]

ProofTtl(i) ==
    LET ttl == IF i # 0 /\ merged.rules[i].ttl # None
               THEN merged.rules[i].ttl ELSE DefaultTtl
    IN  IF ttl > MaxTtl THEN MaxTtl ELSE ttl

ProofRequired(i) == (i # 0 /\ merged.rules[i].proof) \/ action.trusted

Answer ==
    /\ pc = "try" /\ next > Len(merged.rules)
    /\ pc' = "done"
    /\ LET out == Outcome(merged.rules, matched, merged.default) IN
       answer' = [code |-> "decision",
                  result |-> out.result,
                  obligations |-> out.obligations,
                  ttl |-> IF ProofRequired(matched) /\ out.result = "ALLOW"
                          THEN ProofTtl(matched) ELSE None]
    /\ UNCHANGED <<bindings, action, next, tiers, ordered, layers, merged,
                   trace, matched>>

Next == Collect \/ Sort \/ Load \/ Loaded \/ Merge \/ Merged \/ Try \/ Answer

Spec == Init /\ [][Next]_vars

-----------------------------------------------------------------------------
(* The decision, said of the bindings at once and not step by step.        *)

\* The bindings that have a say, as places in the array.
Consulted == {i \in DOMAIN bindings : /\ bindings[i].policy # None
                                      /\ \/ bindings[i].agent = Self
                                         \/ InGroup(bindings[i])
                                         \/ /\ bindings[i].agent = None
                                            /\ bindings[i].group = None}

\* For the agent, for a group of its, for all of the owner's.
Breadth(b) ==
    CHOOSE n \in 1..3 : /\ n = 1 <=> b.agent = Self
                        /\ n = 3 <=> b.agent = None /\ b.group = None

\* Lexicographic: the narrower, then the lower rank, then the earlier.
Precedes(i, j) ==
    LET b == bindings[i]  c == bindings[j] IN
    \/ Breadth(b) < Breadth(c)
    \/ Breadth(b) = Breadth(c) /\ Rank(b) < Rank(c)
    \/ Breadth(b) = Breadth(c) /\ Rank(b) = Rank(c) /\ i < j

\* Rule k of binding i holds, and no rule before it does.
DecidedBy(i, k) ==
    LET holding(j) == {m \in DOMAIN bindings[j].policy.rules :
                         Holds(bindings[j].policy.rules[m])} IN
    /\ k \in holding(i)
    /\ \A m \in holding(i) : k <= m
    /\ \A j \in Consulted \ {i} : holding(j) # {} => Precedes(i, j)

\* Binding i has the first default that does not abstain.
DefaultBy(i) ==
    /\ Decided(bindings[i].policy)
    /\ \A j \in Consulted \ {i} : Decided(bindings[j].policy) => Precedes(i, j)

-----------------------------------------------------------------------------
(* Properties.                                                             *)

Answered == pc = "done" /\ answer.code = "decision"

\* Of the rules that hold, the first in specificity is the one that decided.
NarrowestRuleDecides ==
    matched # 0 =>
        LET rule == merged.rules[matched] IN
        /\ \E i \in Consulted : \E k \in DOMAIN bindings[i].policy.rules :
              DecidedBy(i, k) /\ bindings[i].policy.rules[k] = rule
        /\ answer.result = "DENY" <=> rule.effect = "deny"

\* If none holds, the first default that does not abstain decided.
AbstainersDefer ==
    matched = 0 =>
        /\ \A i \in Consulted : \A k \in DOMAIN bindings[i].policy.rules :
              ~Holds(bindings[i].policy.rules[k])
        /\ IF \E i \in Consulted : Decided(bindings[i].policy)
           THEN \E i \in Consulted :
                   /\ DefaultBy(i)
                   /\ answer.result =
                         CASE bindings[i].policy.default = "allow" -> "ALLOW"
                           [] bindings[i].policy.default = "deny" -> "DENY"
                           [] OTHER -> "REQUIRE_APPROVAL"
           ELSE answer.result = "DENY"

\* The narrowest rule that holds decides: whatever order the bindings were
\* written in, the matched rule is the first that holds by tier, rank, place in
\* the array and place in its policy, and the action is refused exactly if it
\* denies.  If none holds, the first default that does not abstain decides, and
\* deny if all abstain: a passthrough layer never shadows a broader one.
DecidedBySpecificity == Answered => NarrowestRuleDecides /\ AbstainersDefer

\* Nothing that is owed is waved through, and a human is asked first.
AllowedOwesNothing ==
    Answered =>
        /\ answer.result = "ALLOW" =>
              /\ answer.obligations \cap Blocking = {}
              /\ matched # 0 => action.level >= merged.rules[matched].level
        /\ "HUMAN_APPROVAL" \in answer.obligations => answer.result = "REQUIRE_APPROVAL"

\* Tokens go with allowed actions and live no longer than the maximum.
ProofsBounded ==
    answer.ttl # None => answer.result = "ALLOW" /\ answer.ttl <= MaxTtl

\* The trace has every rule, and its first match decided.
TraceExplains ==
    Answered =>
        /\ Len(trace) = Len(merged.rules)
        /\ IF matched = 0 THEN \A i \in DOMAIN trace : ~trace[i]
           ELSE trace[matched] /\ \A i \in 1..(matched - 1) : ~trace[i]

\* An action is let through at once only if nothing blocking is owed and its
\* assurance suffices, and a human who is owed a say is asked before any other
\* obligation can be met in the human's place; only an allowed action gets a
\* proof token, and none that outlives the configured maximum; and the trace in
\* the audit log explains the answer: it has every rule, and the first that
\* matched there is the one that decided.
AnswersSound == AllowedOwesNothing /\ ProofsBounded /\ TraceExplains

=============================================================================
