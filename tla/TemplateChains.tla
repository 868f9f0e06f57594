---------------------------- MODULE TemplateChains ----------------------------
(***************************************************************************)
(* TemplateChainResolver: targets and launches use templates, which use    *)
(* others.  uses: a function from the names of the templates to the        *)
(* sequences of names each uses, known or not.                             *)
(***************************************************************************)
EXTENDS Sequences, FiniteSets, SequencesExt

\* The names that are used, and the templates there are.
Mentioned(uses) == DOMAIN uses \cup UNION {ToSet(uses[t]) : t \in DOMAIN uses}

\* What applying a name gives: whether it worked, and the templates in the order in
\* which they were applied.
Applied(uses) == [ok : BOOLEAN, order : Seq(DOMAIN uses)]

\* A call: the name and the templates it is applied for.
Applications(uses) == [name : Mentioned(uses), stack : SUBSET DOMAIN uses]

ApplyEach(apply, names, stack) ==
    FoldLeft(LAMBDA acc, n : LET r == apply[[name |-> n, stack |-> stack]]
                             IN  [ok |-> acc.ok /\ r.ok, order |-> acc.order \o r.order],
             [ok |-> TRUE, order |-> <<>>], names)

\* (mistake: the templates a template uses win over it)
apply_template_SelfFirst(uses) ==
    LET apply[at \in Applications(uses)] ==
            IF at.name \in at.stack \/ at.name \notin DOMAIN uses THEN [ok |-> FALSE, order |-> <<>>]
            ELSE LET deps == ApplyEach(apply, uses[at.name], at.stack \cup {at.name})
                 IN  [ok |-> deps.ok, order |-> <<at.name>> \o deps.order]
    IN  apply

\* The templates a use applies, in order, those it uses first.
apply_template(uses) ==
    LET apply[at \in Applications(uses)] ==
            IF at.name \in at.stack \/ at.name \notin DOMAIN uses THEN [ok |-> FALSE, order |-> <<>>]
            ELSE LET deps == ApplyEach(apply, uses[at.name], at.stack \cup {at.name})
                 IN  [ok |-> deps.ok, order |-> Append(deps.order, at.name)]
    IN  apply

overlay_templates(uses, names) == ApplyEach(apply_template(uses), names, {})

\* Also the templates nobody uses.
validate_references(uses) ==
    \A t \in DOMAIN uses : apply_template(uses)[[name |-> t, stack |-> {}]].ok

===============================================================================
