-------------------------- MODULE MCPolicyDecision --------------------------
(* Instances of PolicyDecision and PolicyBuilder for TLC, one after the     *)
(* other: what the builder writes is what the decision reads, by way of     *)
(* PolicyLanguage, and they share no state.                                 *)
EXTENDS PolicyDecision, PolicyBuilder

CONSTANTS a1, a2, g1, g2, RanksUsed, eur, usd, both, text1, pattern1, padded, twoLines

VARIABLE part

-----------------------------------------------------------------------------
(* Policies to decide by.  What the conditions of a rule are worth is what  *)
(* PolicyLanguage says of this action.                                     *)

Asked == [type |-> <<"payment", "send">>, domain |-> Undefined,
          payload |-> [amount_minor |-> [num |-> 5], currency |-> [str |-> eur],
                       tags |-> [arr |-> <<[str |-> text1], Null>>]]]

AmountPath == <<[key |-> "payload"], [key |-> "amount_minor"]>>
TagPath(i) == <<[key |-> "payload"], [key |-> "tags"], [index |-> i]>>
Match(path, op, value) == Leaf([path |-> path, op |-> op, value |-> value])
Num(n) == [num |-> n]
Exists(path) == Leaf([path |-> path, op |-> "exists"])
Not(when) == Branch("not", <<when>>)

Everything == [every |-> TRUE]

Judged(rule, said) ==
    [rule EXCEPT !.pattern = MatchAction(Asked.type, said.action),
                 !.when = WhenHolds(said, Asked),
                 !.constraints = ConstraintsHold(said, Asked)]

Always == [effect |-> "allow", pattern |-> TRUE, when |-> TRUE, constraints |-> TRUE,
           obligations |-> {}, level |-> 0, proof |-> FALSE, ttl |-> None]

Allows == Judged([Always EXCEPT !.proof = TRUE, !.ttl = 9],
                 [action |-> [prefix |-> <<"payment">>], when |-> Exists(TagPath(1)),
                  constraints |-> [amount_max |-> 5, currency |-> <<usd, eur>>,
                                   blocked_domains |-> <<text1>>]])
Denies == Judged([Always EXCEPT !.effect = "deny"],
                 [action |-> Everything, when |-> Match(AmountPath, "neq", Num(0))])
Deposits == [Always EXCEPT !.obligations = {"DEPOSIT", "COUNTERPARTY_ATTESTATION"},
                           !.level = 1]
Asks == [Always EXCEPT !.obligations = {"HUMAN_APPROVAL", "STEP_UP_AUTH"}]
Silent == Judged(Always, [action |-> Everything,
                          when |-> Branch("any", <<Exists(TagPath(2)), Exists(<<[key |-> "agent"]>>),
                                              Not(Match(AmountPath, "in", [arr |-> <<Num(5)>>]))>>)])
Elsewhere == Judged(Denies, [action |-> [exact |-> <<"payment">>]])
Poor == Judged(Allows, [action |-> Everything, constraints |-> [merchant_domain |-> <<text1>>]])

\* Policies that allow, deny, ask, abstain and defer.
PoliciesUsed == {
    [default |-> "passthrough", rules |-> <<Silent, Allows>>],
    [default |-> "deny", rules |-> <<Deposits, Denies>>],
    [default |-> "require_approval", rules |-> <<[Silent EXCEPT !.effect = "deny"], Asks>>],
    [default |-> "passthrough", rules |-> << >>],
    [default |-> "allow", rules |-> <<Elsewhere>>],
    [default |-> "require_approval", rules |-> <<Poor>>]}

\* For the agent, for another, for a group of the agent, for another group, for all.
ScopesUsed == {<<a1, None>>, <<a2, None>>, <<None, g1>>, <<None, g2>>, <<None, None>>}

BindingsOf(scopes, ranks, ps) ==
    {[agent |-> s[1], group |-> s[2], rank |-> r, policy |-> p] :
       s \in scopes, r \in ranks, p \in ps}

\* All arrays of up to two bindings, and those of three in which all apply.
Arrays ==
    LET all == BindingsOf(ScopesUsed, RanksUsed, PoliciesUsed \cup {None})
        some == BindingsOf({<<a1, None>>, <<None, g1>>, <<None, None>>}, {None, 50},
                           {p \in PoliciesUsed : Len(p.rules) = 2} \cup {None})
    IN  {<< >>} \cup [1..1 -> all] \cup [1..2 -> all] \cup [1..3 -> some]

ActionsUsed == {[level |-> 0, trusted |-> FALSE], [level |-> 2, trusted |-> TRUE]}

-----------------------------------------------------------------------------
(* Policies to edit.                                                       *)

Basic == [id |-> text1, effect |-> "deny", action |-> Everything]
Doc(rules) == [version |-> 1, default |-> "allow", rules |-> rules]
With(when) == [id |-> text1, effect |-> "deny", action |-> Everything, when |-> when]

Owes(type, params) == [type |-> type, params |-> params]

\* Every section and kind of entry; a limit of nothing, an item with a comma and
\* a list with no item; a text of two lines with blanks around it; one type twice,
\* one with parameters, one not known.
Full == [id |-> text1, effect |-> "allow", action |-> Everything, description |-> twoLines,
         constraints |-> [amount_max |-> 0, currency |-> <<eur, usd>>,
                          merchant_domain |-> <<both>>, allowed_domains |-> << >>],
         requirements |-> [min_assurance_level |-> "HIGH", credential_scheme |-> padded],
         proof |-> [required |-> FALSE, ttl_seconds |-> 60],
         obligations |-> <<Owes("DEPOSIT", text1), Owes("CUSTOM", Blank),
                           Owes("DEPOSIT", Blank), Owes("STEP_UP_AUTH", Blank)>>]

Nested == Branch("all", <<Branch("any", <<Not(Exists(TagPath(1)))>>),
                          Match(AmountPath, "in", [arr |-> <<Num(5), Null>>])>>)
Negated == Not(Branch("all", <<Not(Exists(AmountPath))>>))
TwoKeys == [Branch("all", <<Exists(AmountPath)>>) EXCEPT ![<< >>].keys = {"all", "any"}]

MCTexts == {Unparsable, Doc(<<Full>>), Doc(<<With(Nested)>>), Doc(<<With(Negated), Basic>>),
            Doc(<<With(TwoKeys)>>),
            [rules |-> <<With(Match(AmountPath, "regex", [str |-> pattern1]))>>]}

MCEntries ==
    [f \in Fields |->
        CASE f \in Amounts -> {Blank, Bad, 0}
          [] f = "currency" -> {Blank, <<eur>>}
          [] f = "ttl_seconds" -> {Blank, Bad, 0}
          [] f = "required" -> {Blank, TRUE}
          [] f = "id" -> {Blank, padded}
          [] f = "description" -> {Blank}
          [] f = "min_assurance_level" -> {Blank, "LOW"}
          [] OTHER -> {}]

MCTypedValues == [lists |-> {[arr |-> << >>], [arr |-> <<Num(5)>>]},
                  patterns |-> {[str |-> Blank], [str |-> pattern1]},
                  scalars |-> {[str |-> Blank], Num(5), Null}]
MCTypedPaths == {AmountPath, Malformed}
MCObligationTypes == <<"STEP_UP_AUTH", "DEPOSIT">>
MCCsvItems == [t \in {eur, usd, both, text1} |-> IF t = both THEN <<eur, usd>> ELSE <<t>>]
MCOneLiners == [t \in {twoLines} |-> padded]
MCTrims == [t \in {padded} |-> text1]
MCMatches == {<<pattern1, eur>>}
MCActs == {Asked, [Asked EXCEPT !.payload = [currency |-> Null]]}

-----------------------------------------------------------------------------

MCInit ==
    /\ Init /\ BuilderIdle /\ part \in {"decide", "edit"}
    /\ part = "edit" => bindings = << >> /\ action.trusted

MCNext ==
    /\ UNCHANGED part
    /\ \/ part = "decide" /\ Next /\ UNCHANGED builderVars
       \/ part = "edit" /\ BuilderNext /\ UNCHANGED vars

MCSpec == MCInit /\ [][MCNext]_<<vars, builderVars, part>>
=============================================================================
