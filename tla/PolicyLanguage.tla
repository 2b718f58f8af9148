--------------------------- MODULE PolicyLanguage ---------------------------
(***************************************************************************)
(* What a rule of a policy says: action patterns (engine.ts), conditions   *)
(* (expression.ts, jsonpath.ts), constraints (constraints.ts), and which   *)
(* rules the server accepts (policy-parser.ts).                            *)
(*                                                                         *)
(* A JSON value is a record with one field, named for its type.  Optional  *)
(* keys of a rule and of its constraints are absent from its domain.       *)
(* Dotted names and paths are sequences of their parts; a path that does   *)
(* not begin with "$." is Malformed.                                       *)
(*                                                                         *)
(* An expression is a tree: a function from the addresses of its nodes to  *)
(* the keys of the object there and what it matches.  The root is at << >> *)
(* and the children of a node at its address and their place, from 1.      *)
(* What stands under a key other than the first is never looked at, and is *)
(* left out.                                                               *)
(***************************************************************************)
EXTENDS Integers, Sequences, SequencesExt, FiniteSets

CONSTANTS
    Matches,    \* pairs of a regular expression and a string it matches
    Levels      \* of assurance

Undefined == [undefined |-> TRUE]
Null == [null |-> TRUE]
Malformed == <<[malformed |-> TRUE]>>
Is(type, value) == DOMAIN value = {type}

-----------------------------------------------------------------------------
(* matchAction: everything, a prefix of the parts, or all of them.         *)

MatchAction(type, pattern) ==
    CASE Is("every", pattern) -> TRUE
      [] Is("prefix", pattern) -> IsPrefix(pattern.prefix, type)
      [] Is("exact", pattern) -> type = pattern.exact

-----------------------------------------------------------------------------
(* jsonPathGet: a part is a key or an index.                               *)

Step(value, part) ==
    IF Is("key", part)
    THEN IF Is("obj", value) /\ part.key \in DOMAIN value.obj
         THEN value.obj[part.key] ELSE Undefined
    ELSE IF Is("arr", value) /\ part.index \in DOMAIN value.arr
         THEN value.arr[part.index] ELSE Undefined

JsonPathGet(doc, path) == FoldLeft(Step, doc, path)

-----------------------------------------------------------------------------
(* evaluateExpr.  === holds of no two arrays or objects.                   *)

Same(v, w) == ~Is("obj", v) /\ ~Is("arr", v) /\ v = w
Includes(list, v) == \E i \in DOMAIN list.arr : Same(list.arr[i], v)
Both(type, v, w) == Is(type, v) /\ Is(type, w)

ValueOf(m) == IF "value" \in DOMAIN m THEN m.value ELSE Undefined

EvaluateMatch(m, doc) ==
    LET actual == JsonPathGet(doc, m.path)
        value == ValueOf(m)
    IN \/ m.op = "exists" /\ actual \notin {Undefined, Null}
       \/ m.op = "eq" /\ Same(actual, value)
       \/ m.op = "neq" /\ ~Same(actual, value)
       \/ m.op = "in" /\ Is("arr", value) /\ Includes(value, actual)
       \/ m.op = "nin" /\ Is("arr", value) /\ ~Includes(value, actual)
       \/ m.op = "lt" /\ Both("num", actual, value) /\ actual.num < value.num
       \/ m.op = "lte" /\ Both("num", actual, value) /\ actual.num <= value.num
       \/ m.op = "gt" /\ Both("num", actual, value) /\ actual.num > value.num
       \/ m.op = "gte" /\ Both("num", actual, value) /\ actual.num >= value.num
       \/ m.op = "regex" /\ Both("str", actual, value) /\ <<value.str, actual.str>> \in Matches

Ops == {"exists", "eq", "neq", "in", "nin", "lt", "lte", "gt", "gte", "regex"}

NoMatch == [none |-> TRUE]

\* The first of its keys, in this order, says what an expression is.
ExprKind(node) ==
    CASE "all" \in node.keys -> "all"
      [] "any" \in node.keys /\ "all" \notin node.keys -> "any"
      [] node.keys \cap {"all", "any"} = {} /\ "not" \in node.keys -> "not"
      [] node.keys \cap {"all", "any", "not"} = {} /\ "match" \in node.keys -> "match"
      [] OTHER -> "unknown"

Leaf(m) == [at \in {<< >>} |-> [keys |-> {"match"}, match |-> m]]
Branch(kind, kids) ==
    [at \in {<< >>} \cup UNION {{<<k>> \o b : b \in DOMAIN kids[k]} : k \in DOMAIN kids} |->
        IF at = << >> THEN [keys |-> {kind}, match |-> NoMatch]
        ELSE kids[Head(at)][Tail(at)]]

\* The children of a node.
Under(e, at) == {a \in DOMAIN e \ {<< >>} : Front(a) = at}

IsTree(e) ==
    /\ IsFiniteSet(DOMAIN e) /\ << >> \in DOMAIN e
    /\ \A at \in DOMAIN e : at \in Seq(Nat \ {0})
    /\ \A at \in DOMAIN e \ {<< >>} : Front(at) \in DOMAIN e

\* evaluateExpr of one node, given what its children are worth.
NodeWorth(node, kids, doc) ==
    \/ ExprKind(node) = "all" /\ FALSE \notin kids
    \/ ExprKind(node) = "any" /\ TRUE \in kids
    \/ ExprKind(node) = "not" /\ TRUE \notin kids
    \/ ExprKind(node) = "match" /\ EvaluateMatch(node.match, doc)

Worth(e, doc) ==
    LET worth[at \in DOMAIN e] == NodeWorth(e[at], {worth[a] : a \in Under(e, at)}, doc)
    IN worth

EvaluateExpr(e, doc) == Worth(e, doc)[<< >>]

-----------------------------------------------------------------------------
(* evaluateConstraints.  domain is the relying party's.                    *)

Amounts == {"amount_min", "amount_max"}
Lists == {"currency", "merchant_domain", "allowed_domains", "blocked_domains"}

Payload(act, field) == IF field \in DOMAIN act.payload THEN act.payload[field] ELSE Undefined
OrParty(value, act) == IF value \in {Undefined, Null} THEN act.domain ELSE value
Listed(c, key, value) == Is("str", value) /\ Contains(c[key], value.str)

EvaluateConstraints(c, act) ==
    LET amount == Payload(act, "amount_minor")
        domain == OrParty(Payload(act, "domain"), act)
    IN /\ DOMAIN c \cap Amounts # {} => Is("num", amount)
       /\ "amount_min" \in DOMAIN c => amount.num >= c.amount_min
       /\ "amount_max" \in DOMAIN c => amount.num <= c.amount_max
       /\ "currency" \in DOMAIN c => Listed(c, "currency", Payload(act, "currency"))
       /\ "merchant_domain" \in DOMAIN c =>
             Listed(c, "merchant_domain", OrParty(Payload(act, "merchant_domain"), act))
       /\ "allowed_domains" \in DOMAIN c => Listed(c, "allowed_domains", domain)
       /\ "blocked_domains" \in DOMAIN c => ~Listed(c, "blocked_domains", domain)

-----------------------------------------------------------------------------
(* A rule, and an action as the conditions see it.                         *)

DocOf(act) == [obj |-> [payload |-> [obj |-> act.payload]]]

WhenHolds(rule, act) == "when" \in DOMAIN rule => EvaluateExpr(rule.when, DocOf(act))
ConstraintsHold(rule, act) ==
    "constraints" \in DOMAIN rule => EvaluateConstraints(rule.constraints, act)
Applies(rule, act) ==
    MatchAction(act.type, rule.action) /\ WhenHolds(rule, act) /\ ConstraintsHold(rule, act)

\* policyJsonSchema: which keys there are, and what the server cannot take.
SchemaExpr(e) ==
    \A at \in DOMAIN e :
       /\ e[at].keys \in {{"all"}, {"any"}, {"not"}, {"match"}}
       /\ ExprKind(e[at]) = "match" => e[at].match.path # Malformed /\ e[at].match.op \in Ops

Sections == [constraints |-> Amounts \cup Lists,
             requirements |-> {"min_assurance_level", "credential_scheme"},
             proof |-> {"required", "ttl_seconds"}]

SchemaRule(rule) ==
    LET needed == {"id", "effect", "action"}
        optional == {"description", "when", "obligations"} \cup DOMAIN Sections
    IN /\ needed \subseteq DOMAIN rule /\ DOMAIN rule \subseteq needed \cup optional
       /\ "when" \in DOMAIN rule => SchemaExpr(rule.when)
       /\ rule.effect \in {"allow", "deny"}
       /\ \A s \in DOMAIN Sections \cap DOMAIN rule : DOMAIN rule[s] \subseteq Sections[s]
       /\ "requirements" \in DOMAIN rule =>
             \A k \in DOMAIN rule.requirements \cap {"min_assurance_level"} :
                rule.requirements[k] \in Levels

SchemaPolicy(policy) ==
    /\ DOMAIN policy = {"version", "default", "rules"}
    /\ \A i \in DOMAIN policy.rules : SchemaRule(policy.rules[i])

=============================================================================
