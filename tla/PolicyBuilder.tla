---------------------------- MODULE PolicyBuilder ----------------------------
(***************************************************************************)
(* The form in which an owner edits a policy (gui/src/shared/policy-       *)
(* builder.ts, policy-builder-model.ts): one card for every rule, over a   *)
(* model that the YAML tab is parsed into and written from.                *)
(*                                                                         *)
(* What is typed stays in the inputs until a handler reads all of them     *)
(* back (syncFormToModel), changes the model and draws one card anew; only *)
(* the conditions are written straight to the model.  Each card keeps the  *)
(* obligations unchecked in it, and the saved policy is what the inputs    *)
(* and the model say together.                                             *)
(***************************************************************************)
EXTENDS PolicyLanguage

CONSTANTS
    Texts,          \* what the YAML tab may hold: policies, and Unparsable
    Entries, TypedParams, TypedPaths, TypedValues, TypedOps,
                    \* what may be typed or chosen, by input
    Defaults,       \* POLICY_DEFAULTS
    ObligationTypes,    \* OBLIGATION_TYPES, a sequence
    OtherTypes,     \* of obligations that a policy may name besides
    Regexes,        \* the patterns that are regular expressions
    CsvItems,       \* of each text in a list, the items an input splits it into
    OneLiners,      \* of each text with line breaks, what an input shows of it
    Trims,          \* of each text with blanks around it, what is left without
    Blank, Bad,     \* an empty input, and one its type cannot take
    Unparsable, MaxEdits,   \* what is no policy; handlers run
    Acts            \* actions the saved conditions are asked about

VARIABLES
    mode,       \* the tab shown
    text,       \* what the YAML tab holds
    default,    \* the default decision
    extra,      \* the other keys of the policy
    cards,      \* the rules, their inputs and stashes
    loaded,     \* history: the policy last parsed
    edits       \* handlers run, at most MaxEdits

builderVars == <<mode, text, default, extra, cards, loaded, edits>>

Known == Range(ObligationTypes)
PolicyObligation == [type : Known \cup OtherTypes, params : TypedParams \ {Bad}]

RuleTyped(rule) ==
    /\ "when" \in DOMAIN rule =>
          /\ IsTree(rule.when)
          /\ \A at \in DOMAIN rule.when : DOMAIN rule.when[at] = {"keys", "match"}
    /\ "obligations" \in DOMAIN rule => rule.obligations \in Seq(PolicyObligation)

PolicyTyped(doc) ==
    "rules" \in DOMAIN doc => /\ doc.rules \in Seq(Range(doc.rules))
                              /\ \A rule \in Range(doc.rules) : RuleTyped(rule)

ASSUME TextsAssumption == \A doc \in Texts \ {Unparsable} : PolicyTyped(doc)
ASSUME TypesAssumption == ObligationTypes \in Seq(Known) /\ Blank \in TypedParams

-----------------------------------------------------------------------------
(* Expression trees, edited in place.                                      *)

IsGroup(node) == ExprKind(node) \in {"all", "any"}

Above(at, n) == SubSeq(at, 1, n)

\* Mutant of Goes: a group stays when its last child goes.
GoesThroughNot(e, at) ==
    CHOOSE n \in 0..Len(at) :
       /\ \A k \in n..(Len(at) - 1) : ExprKind(e[Above(at, k)]) = "not"
       /\ n > 0 => ExprKind(e[Above(at, n - 1)]) # "not"

\* How deep is what goes with a node: a group that would be empty goes with its
\* last child, and a `not` with its only one.
Goes(e, at) ==
    LET alone(n) == Cardinality(Under(e, Above(at, n))) = 1 IN
    CHOOSE n \in 0..Len(at) : /\ \A k \in n..(Len(at) - 1) : alone(k)
                              /\ n > 0 => ~alone(n - 1)

\* The children of a node that come after one of them move up.
Closed(a, gone) ==
    LET n == Len(gone) IN
    IF Len(a) >= n /\ Above(a, n - 1) = Front(gone) /\ a[n] > gone[n]
    THEN [a EXCEPT ![n] = @ - 1] ELSE a

\* The tree without the node, none if nothing is left.
RemoveExprAt(e, at) ==
    LET gone == Above(at, Goes(e, at))
        stay == {a \in DOMAIN e : ~IsPrefix(gone, a)}
    IN IF gone = << >> THEN {}
       ELSE {[b \in {Closed(a, gone) : a \in stay} |->
                 e[CHOOSE a \in stay : Closed(a, gone) = b]]}

DefaultMatch == [path |-> << >>, op |-> "eq", value |-> [str |-> Blank]]

AddExprChild(e, at, child) ==
    LET new == Append(at, Cardinality(Under(e, at)) + 1) IN
    [b \in DOMAIN e \cup {new \o c : c \in DOMAIN child} |->
        IF b \in DOMAIN e THEN e[b] ELSE child[SubSeq(b, Len(new) + 1, Len(b))]]

SwapGroupKind(node, to) == [node EXCEPT !.keys = (@ \ {ExprKind(node)}) \cup {to}]

-----------------------------------------------------------------------------
(* Operators of a condition, and the value each wants.                     *)

OpValueKind(op) == CASE op \in {"in", "nin"} -> "list"
                     [] op = "regex" -> "regex"
                     [] op = "exists" -> "none"
                     [] OTHER -> "scalar"

Empty(v) == v \in {Undefined, [str |-> Blank]}

ConvertValueForOp(m, op) ==
    LET v == ValueOf(m)
        first == IF Is("arr", v) /\ v.arr # << >> THEN v.arr[1] ELSE [str |-> Blank]
        new == CASE OpValueKind(op) = "list" /\ ~Is("arr", v) ->
                       [arr |-> IF Empty(v) THEN << >> ELSE <<v>>]
                 [] OpValueKind(op) = "regex" /\ ~Is("str", v) -> [str |-> Blank]
                 [] OpValueKind(op) = "scalar" /\ Is("arr", v) ->
                       IF first = Null THEN [str |-> Blank] ELSE first
                 [] OpValueKind(op) = "scalar" /\ v = Undefined -> [str |-> Blank]
                 [] OTHER -> v
    IN IF OpValueKind(op) = "none" THEN [path |-> m.path, op |-> op]
       ELSE [path |-> m.path, op |-> op, value |-> new]

ValidateExpr(e) ==
    \A at \in DOMAIN e :
       LET m == e[at].match  value == ValueOf(m) IN
       /\ ExprKind(e[at]) # "unknown"
       /\ IsGroup(e[at]) => Under(e, at) # {}
       /\ ExprKind(e[at]) = "match" =>
             /\ m.path \notin {Malformed, << >>} /\ m.op \in Ops
             /\ OpValueKind(m.op) = "list" => Is("arr", value) /\ value.arr # << >>
             /\ OpValueKind(m.op) = "regex" => Is("str", value) /\ value.str \in Regexes
             /\ OpValueKind(m.op) = "scalar" => ~Empty(value)

-----------------------------------------------------------------------------
(* A rule and the inputs of its card.                                      *)

Plain == {"id", "effect", "action", "description"}
Fields == Plain \cup UNION {Sections[s] : s \in DOMAIN Sections}
TextInputs == {"id", "action", "description", "credential_scheme"}

\* An empty input is no value of a box or a list to choose from, and only the
\* number inputs tell of what they cannot take.  Neither is changed as a text is.
ASSUME InputsAssumption ==
    /\ Blank # Bad /\ {Blank, Bad} \cap BOOLEAN = {} /\ {Blank, Bad} \cap Levels = {}
    /\ {Blank, Bad} \cap (DOMAIN OneLiners \cup DOMAIN Trims) = {}
    /\ Entries["effect"] \subseteq {"allow", "deny"}
    /\ Entries["min_assurance_level"] \subseteq Levels \cup {Blank}
    /\ \A f \in Fields : Bad \in Entries[f] => f \in Amounts \cup {"ttl_seconds"}

Part(rule, key) == IF key \in DOMAIN rule THEN rule[key] ELSE << >>

\* arrayToCsv, then csvToArray.
ThroughCsv(list) == FlattenSeq([i \in DOMAIN list |-> CsvItems[list[i]]])

\* An <input> has one line: the line breaks of a text are dropped.
OneLine(value) == IF value \in DOMAIN OneLiners THEN OneLiners[value] ELSE value

\* What an input shows: `required` is a box, ticked if it is true.
Shown(rule, field) ==
    LET in == IF field \in Plain THEN rule
              ELSE Part(rule, CHOOSE s \in DOMAIN Sections : field \in Sections[s])
        value == IF field \in DOMAIN in THEN in[field] ELSE Blank
    IN CASE field \in Lists /\ value # Blank ->
               IF ThroughCsv(value) = << >> THEN Blank ELSE ThroughCsv(value)
         [] field = "required" -> IF value = TRUE THEN TRUE ELSE Blank
         [] field = "effect" -> IF value = "deny" THEN "deny" ELSE "allow"
         [] field = "min_assurance_level" -> IF value \in Levels THEN value ELSE Blank
         [] field \in TextInputs -> OneLine(value)
         [] OTHER -> value

\* The entries whose type is one of some types, in their order.
OfTypes(list, types) ==
    LET upTo[n \in 0..Len(list)] ==
            IF n = 0 THEN << >>
            ELSE IF list[n].type \in types THEN Append(upTo[n - 1], list[n]) ELSE upTo[n - 1]
    IN upTo[Len(list)]

OfType(list, t) == OfTypes(list, {t})
Types(list) == {list[i].type : i \in DOMAIN list}

\* ruleCardHtml: the parameters of a type that is there are those of its first.
FormOf(rule) ==
    LET list == Part(rule, "obligations")
        checked == Known \cap Types(list)
    IN [fields |-> [f \in Fields |-> Shown(rule, f)],
        checked |-> checked,
        params |-> [t \in checked |-> OfType(list, t)[1].params]]

EmptyStash == [t \in Known |-> << >>]

\* A card as drawn for a rule just parsed or added.  origin and touched are
\* history: the rule parsed, none for an added one, and what the owner changed.
NewCard(rule, origin) == [rule |-> rule, form |-> FormOf(rule), stash |-> EmptyStash,
                          origin |-> origin, touched |-> {}]

Drawn(card) == [card EXCEPT !.form = FormOf(card.rule)]

-----------------------------------------------------------------------------
(* syncFormToModel                                                         *)

Trimmed(value) == IF value \in DOMAIN Trims THEN Trims[value] ELSE value

\* The inputs of a card as they are read: a text without the blanks around it.
AsRead(fields) ==
    [f \in Fields |-> IF f \in TextInputs THEN Trimmed(fields[f]) ELSE fields[f]]

\* Mutant of SetOrDel: whatever is false in JavaScript is taken for empty.
SetOrDelFalsy(old, inputs, keys) ==
    LET kept == {k \in DOMAIN old : k \notin keys \/ inputs[k] = Bad}
        typed == {k \in keys : /\ inputs[k] \notin {Blank, Bad}
                               /\ k \in Amounts => inputs[k] # 0}
    IN [k \in kept \cup typed |-> IF k \in typed THEN inputs[k] ELSE old[k]]

\* A section of a rule with what its inputs say: an empty one deletes its key,
\* one that cannot be read leaves the old value.
SetOrDel(old, inputs, keys) ==
    LET kept == {k \in DOMAIN old : k \notin keys \/ inputs[k] = Bad}
        typed == {k \in keys : inputs[k] \notin {Blank, Bad}}
    IN [k \in kept \cup typed |-> IF k \in typed THEN inputs[k] ELSE old[k]]

\* rebuildObligations: entries of a type no longer checked go to the stash, and
\* a checked type without an entry gets those back, or a bare one.
Rebuilt(kept, checked, stash) ==
    LET back(t) == IF stash[t] = << >> THEN <<[type |-> t, params |-> Blank]>> ELSE stash[t]
        upTo[n \in 0..Len(ObligationTypes)] ==
            IF n = 0 THEN kept
            ELSE LET t == ObligationTypes[n] IN
                 IF t \in checked \ Types(upTo[n - 1]) THEN upTo[n - 1] \o back(t)
                 ELSE upTo[n - 1]
    IN upTo[Len(ObligationTypes)]

\* The typed parameters are for the first entry of their type.
Patched(list, form) ==
    LET first(i) == \A j \in 1..(i - 1) : list[j].type # list[i].type
        reads(t) == t \in DOMAIN form.params \cap form.checked /\ form.params[t] # Bad
    IN [i \in DOMAIN list |->
           IF first(i) /\ reads(list[i].type)
           THEN [list[i] EXCEPT !.params = form.params[list[i].type]] ELSE list[i]]

RebuildObligations(list, form, stash) ==
    LET kept == OfTypes(list, Types(list) \ (Known \ form.checked))
        stashed == [t \in Known |-> IF t \in form.checked THEN stash[t]
                                    ELSE stash[t] \o OfType(list, t)]
    IN [list |-> Patched(Rebuilt(kept, form.checked, stashed), form),
        stash |-> [t \in Known |-> IF t \in form.checked \ Types(kept) THEN << >>
                                   ELSE stashed[t]]]

\* The model of a card after its inputs are read.  A section or a list that is
\* empty is deleted, so that cleanRule finds nothing to do; `when` stays.
Synced(card) ==
    LET rule == card.rule
        inputs == AsRead(card.form.fields)
        built == RebuildObligations(Part(rule, "obligations"), card.form, card.stash)
        parts == [k \in DOMAIN Sections \cup {"obligations"} |->
                     IF k = "obligations" THEN built.list
                     ELSE SetOrDel(Part(rule, k), inputs, Sections[k])]
        left == {k \in DOMAIN parts : DOMAIN parts[k] = {}}
                    \cup {k \in {"description"} : inputs[k] = Blank}
    IN [card EXCEPT
          !.stash = built.stash,
          !.rule = [k \in (DOMAIN rule \cup DOMAIN parts \cup Plain) \ left |->
                       CASE k \in DOMAIN parts -> parts[k]
                         [] k \in Plain -> inputs[k]
                         [] OTHER -> rule[k]]]

SyncedAll == [i \in DOMAIN cards |-> Synced(cards[i])]

\* buildPolicyObject, after a sync.
Built ==
    [k \in DOMAIN extra \cup {"default", "rules"} |->
        CASE k = "default" -> default
          [] k = "rules" -> [i \in DOMAIN cards |-> SyncedAll[i].rule]
          [] OTHER -> extra[k]]

\* validatePolicyModel
ValidRule(rule) ==
    /\ Blank \notin {rule.id, rule.action}
    /\ "when" \in DOMAIN rule => ValidateExpr(rule.when)
    /\ "ttl_seconds" \in DOMAIN Part(rule, "proof") => rule.proof.ttl_seconds > 0

\* validate() finds nothing: no input is unreadable and the model is valid.
Validated ==
    /\ \A i \in DOMAIN cards :
          /\ \A f \in Fields : cards[i].form.fields[f] # Bad
          /\ \A t \in DOMAIN cards[i].form.params \cap cards[i].form.checked :
                cards[i].form.params[t] # Bad
          /\ ValidRule(Built.rules[i])

-----------------------------------------------------------------------------
(* The page: parsing, typing, and the handlers.                            *)

\* loadFromYaml, and the cards drawn; not if the text is no YAML object.
Loads(doc) ==
    /\ doc # Unparsable
    /\ mode' = "visual"
    /\ default' = IF "default" \in DOMAIN doc THEN doc.default ELSE "deny"
    /\ extra' = [k \in (DOMAIN doc \ {"default", "rules"}) \cup {"version"} |->
                    IF k \in DOMAIN doc THEN doc[k] ELSE 1]
    /\ cards' = [i \in DOMAIN Part(doc, "rules") |-> NewCard(doc.rules[i], {doc.rules[i]})]
    /\ loaded' = doc

BuilderIdle ==
    /\ mode = "yaml" /\ text = Unparsable /\ loaded = Unparsable
    /\ default = "deny" /\ extra = << >> /\ cards = << >>
    /\ edits = 0

Counted == edits < MaxEdits /\ edits' = edits + 1

Visual == Counted /\ mode = "visual" /\ UNCHANGED <<mode, text, extra, loaded>>

\* mountPolicyBuilder: the page comes with the policy as it is stored.
Mount ==
    /\ edits = 0 /\ Counted /\ text = Unparsable
    /\ text' \in Texts
    /\ \/ Loads(text')
       \/ text' = Unparsable /\ UNCHANGED <<mode, default, extra, cards, loaded>>

TypeYaml ==
    /\ Counted /\ mode = "yaml" /\ edits > 0
    /\ text' \in Texts \ {text}
    /\ UNCHANGED <<mode, default, extra, cards, loaded>>

ToVisual ==
    /\ Counted /\ mode = "yaml" /\ edits > 0
    /\ Loads(text)
    /\ UNCHANGED text

ToYaml ==
    /\ Counted /\ mode = "visual"
    /\ cards' = SyncedAll
    /\ text' = Built
    /\ mode' = "yaml"
    /\ UNCHANGED <<default, extra, loaded>>

PickDefault ==
    /\ Visual
    /\ default' \in Defaults \ {default}
    /\ UNCHANGED cards

Touch(card, what) == [card EXCEPT !.touched = @ \cup {what}]
TouchBy(card, what, entry) == IF entry = Bad THEN card ELSE Touch(card, what)

\* What is typed into an input stays there.
Type(i, f) ==
    /\ Visual
    /\ \E entry \in Entries[f] \ {cards[i].form.fields[f]} :
          cards' = [cards EXCEPT ![i] = TouchBy([@ EXCEPT !.form.fields[f] = entry], f, entry)]
    /\ UNCHANGED default

TypeParams(i, t) ==
    /\ Visual
    /\ t \in DOMAIN cards[i].form.params
    /\ \E entry \in TypedParams \ {cards[i].form.params[t]} :
          cards' = [cards EXCEPT ![i] = TouchBy([@ EXCEPT !.form.params[t] = entry], t, entry)]
    /\ UNCHANGED default

Toggle(i, t) ==
    /\ Visual
    /\ LET checked == cards[i].form.checked
           ticked == IF t \in checked THEN checked \ {t} ELSE checked \cup {t}
       IN cards' = [SyncedAll EXCEPT ![i] =
                       Drawn(Synced([cards[i] EXCEPT !.form.checked = ticked]))]
    /\ UNCHANGED default

AddRule ==
    /\ Visual
    /\ LET rule == [id |-> Blank, effect |-> "allow", action |-> Blank] IN
       cards' = [i \in DOMAIN cards |-> Drawn(SyncedAll[i])] \o <<NewCard(rule, {})>>
    /\ UNCHANGED default

RemoveRule(i) ==
    /\ Visual
    /\ cards' = RemoveAt([j \in DOMAIN cards |-> Drawn(SyncedAll[j])], i)
    /\ UNCHANGED default

-----------------------------------------------------------------------------
(* Conditions.                                                             *)

HasWhen(i) == "when" \in DOMAIN cards[i].rule
When(i) == cards[i].rule.when
NodesOf(i) == IF HasWhen(i) THEN DOMAIN When(i) ELSE {}

\* The rule with the tree that a handler leaves, if it leaves one.
WithTree(rule, trees) ==
    [k \in (DOMAIN rule \ {"when"}) \cup (IF trees = {} THEN {} ELSE {"when"}) |->
        IF k = "when" THEN CHOOSE tree \in trees : TRUE ELSE rule[k]]

\* A card whose condition a handler has changed, drawn anew.
Handled(card, trees) ==
    Touch(Drawn([card EXCEPT !.rule = WithTree(card.rule, trees)]), "when")

\* A handler that leaves the tree it finds one of at most one tree.
HandleWhen(i, trees) ==
    /\ Visual
    /\ cards' = [SyncedAll EXCEPT ![i] = Handled(@, trees)]
    /\ UNCHANGED default

AddCondition(i) == ~HasWhen(i) /\ HandleWhen(i, {Leaf(DefaultMatch)})

WrapAnd(i) ==
    /\ HasWhen(i) /\ ExprKind(When(i)[<< >>]) \in {"match", "not"}
    /\ HandleWhen(i, {Branch("all", <<When(i), Leaf(DefaultMatch)>>)})

RemoveCondition(i, at) ==
    /\ at \in NodesOf(i) /\ ExprKind(When(i)[at]) # "unknown"
    /\ HandleWhen(i, RemoveExprAt(When(i), at))

\* + condition, + group, + NOT
AddChild(i, at) ==
    /\ at \in NodesOf(i) /\ IsGroup(When(i)[at])
    /\ LET match == Leaf(DefaultMatch) IN
       \E child \in {match, Branch("all", <<match>>), Branch("not", <<match>>)} :
          HandleWhen(i, {AddExprChild(When(i), at, child)})

SwapKind(i, at) ==
    /\ at \in NodesOf(i) /\ IsGroup(When(i)[at])
    /\ \E to \in {"all", "any"} \ {ExprKind(When(i)[at])} :
          HandleWhen(i, {[When(i) EXCEPT ![at] = SwapGroupKind(@, to)]})

IsMatch(i, at) == at \in NodesOf(i) /\ ExprKind(When(i)[at]) = "match"

ChangeOp(i, at) ==
    /\ IsMatch(i, at)
    /\ \E op \in TypedOps \ {When(i)[at].match.op} :
          HandleWhen(i, {[When(i) EXCEPT ![at].match = ConvertValueForOp(@, op)]})

\* The input events of a condition: the match is written, nothing is drawn.
TypeMatch(i, at) ==
    /\ Visual
    /\ IsMatch(i, at)
    /\ LET m == When(i)[at].match
           typed == CASE OpValueKind(m.op) = "list" -> TypedValues.lists
                      [] OpValueKind(m.op) = "regex" -> TypedValues.patterns
                      [] OpValueKind(m.op) = "scalar" -> TypedValues.scalars
                      [] OTHER -> {}
           new == {[m EXCEPT !.path = p] : p \in TypedPaths}
                     \cup {[path |-> m.path, op |-> m.op, value |-> v] : v \in typed}
       IN \E n \in new \ {m} :
             cards' = [cards EXCEPT ![i] =
                          Touch([@ EXCEPT !.rule.when[at].match = n], "when")]
    /\ UNCHANGED default

\* Saving validates first: it reads the inputs into the model and draws nothing.
Save ==
    /\ Visual
    /\ cards' = SyncedAll
    /\ UNCHANGED default

BuilderNext ==
    \/ Mount \/ TypeYaml \/ ToVisual \/ ToYaml \/ PickDefault \/ AddRule \/ Save
    \/ \E i \in DOMAIN cards :
          \/ \E f \in Fields : Type(i, f)
          \/ \E t \in Known : TypeParams(i, t) \/ Toggle(i, t)
          \/ RemoveRule(i) \/ AddCondition(i) \/ WrapAnd(i)
          \/ \E at \in NodesOf(i) :
                \/ RemoveCondition(i, at) \/ AddChild(i, at) \/ SwapKind(i, at)
                \/ ChangeOp(i, at) \/ TypeMatch(i, at)

BuilderSpec == BuilderIdle /\ [][BuilderNext]_builderVars

-----------------------------------------------------------------------------
(* Properties.                                                             *)

\* What a rule has for a field, none or one.
FieldOf(rule, f) ==
    LET in == IF f \in Plain THEN rule
              ELSE Part(rule, CHOOSE s \in DOMAIN Sections : f \in Sections[s])
    IN {in[k] : k \in {f} \cap DOMAIN in}

\* A list that commas take apart or that is empty, `required: false`, an empty
\* description, and a text with line breaks or with blanks around it do not come
\* through the form as they are.
PassesForm(f, value) ==
    CASE f \in Lists -> value \notin {Blank, << >>} /\ ThroughCsv(value) = value
      [] f = "required" -> value = TRUE
      [] f \in TextInputs -> value # Blank /\ OneLine(value) = value /\ Trimmed(value) = value
      [] OTHER -> value # Blank

KeepsFields(was, is, touched) ==
    \A f \in Fields \ touched :
       (\A value \in FieldOf(was, f) : PassesForm(f, value)) => FieldOf(is, f) = FieldOf(was, f)

KeepsObligations(was, is, card) ==
    LET of(rule, t) == OfType(Part(rule, "obligations"), t)
        others(rule) == OfTypes(Part(rule, "obligations"),
                                Types(Part(rule, "obligations")) \ Known)
        due(t) == IF of(was, t) = << >> THEN <<[type |-> t, params |-> Blank]>> ELSE of(was, t)
    IN /\ others(is) = others(was)
       /\ \A t \in Known \ card.form.checked : of(is, t) = << >>
       /\ \A t \in Known \cap card.form.checked :
             /\ Len(of(is, t)) = Len(due(t))
             /\ \A k \in DOMAIN due(t) :
                   of(is, t)[k] = due(t)[k] \/ (k = 1 /\ t \in card.touched)

\* Nothing the owner did not touch is lost or loosened by an edit in the form,
\* however tabs, boxes and handlers follow one another: an untouched field,
\* condition or unknown obligation is saved as it was parsed (but for the values
\* that PassesForm names, which the inputs themselves change), an input that
\* cannot be read keeps the old value, and an obligation unchecked and checked
\* again comes back with its parameters and its duplicates.  And a policy that
\* the server took once, and in which the builder finds no problem, it takes.
SavesFaithful ==
    mode = "visual" =>
        /\ SchemaPolicy(loaded) /\ Validated => SchemaPolicy(Built)
        /\ \A i \in DOMAIN cards : \A was \in cards[i].origin :
              SchemaRule(was) =>
                 LET is == Built.rules[i] IN
                 /\ KeepsFields(was, is, cards[i].touched)
                 /\ "when" \notin cards[i].touched => Part(is, "when") = Part(was, "when")
                 /\ KeepsObligations(was, is, cards[i])

\* What an expression is worth without one of its parts, none if nothing is left:
\* rest[n] is that of the node n above the part.
Without(e, at, doc) ==
    LET rest[n \in 0..Len(at)] ==
            LET here == Above(at, Len(at) - n)
                others == Under(e, here) \ {Above(at, Len(at) - n + 1)}
                left == rest[n - 1] \cup {Worth(e, doc)[a] : a \in others}
            IN IF n = 0 \/ left = {} THEN {} ELSE {NodeWorth(e[here], left, doc)}
    IN rest[Len(at)]

\* A condition that is removed is gone: the rule holds of an action as the rest
\* of its conditions says, of every action if there is no rest, and what was
\* around the removed part, a group or a `not`, does not stay behind empty to
\* make the rule hold always or never.
RemovalsMeanGone ==
    [][\A i \in DOMAIN cards : \A at \in NodesOf(i) :
          RemoveCondition(i, at) =>
             \A act \in Acts :
                LET rest == Without(When(i), at, DocOf(act)) IN
                WhenHolds(cards'[i].rule, act) = (FALSE \notin rest)]_builderVars

=============================================================================
