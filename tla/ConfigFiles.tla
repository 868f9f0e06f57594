---------------------------- MODULE ConfigFiles -----------------------------
(***************************************************************************)
(* How the gateway's configuration is gathered: a root file composes the   *)
(* files it includes and is merged over the root file it extends.          *)
(*                                                                         *)
(* A file is a record: the files its include patterns match, in path order, *)
(* the file it extends (or None), the definitions it makes (a function     *)
(* from names to what they set), its named array, and whether it can be    *)
(* read, parsed and has only the fields its role allows.  What is set is a *)
(* function from leaves, the paths of keys to them, to their values.       *)
(***************************************************************************)
EXTENDS StepPatches, FiniteSets, TLC

CONSTANTS
    MaxExtendsDepth  \* MAX_EXTENDS_DEPTH

Error == [ok |-> FALSE]

-----------------------------------------------------------------------------
(* Includes: ValueIncludeComposer.  st: the definitions so far, the files  *)
(* seen, and whether nothing was refused.                                  *)

RECURSIVE compose(_, _, _, _)

insert_definitions(st, definitions) ==
    IF DOMAIN definitions \cap DOMAIN st.defs # {} THEN [st EXCEPT !.ok = FALSE]
    ELSE [st EXCEPT !.defs = @ @@ definitions]

\* Root sections, extends and unknown fields are refused in an included file.
Includable(file) == file.includable /\ file.extends = None

\* (mistake: a file that was met is skipped before cycles are looked for)
IncludeFile_SeenFirst(files, st, f, stack) ==
    IF ~st.ok \/ f \in st.seen THEN st
    ELSE IF f \in stack \/ ~Includable(files[f]) THEN [st EXCEPT !.ok = FALSE]
    ELSE LET after == compose(files, [st EXCEPT !.seen = @ \cup {f}], files[f].includes,
                              stack \cup {f})
         IN  IF after.ok THEN insert_definitions(after, files[f].defs) ELSE after

IncludeFile(files, st, f, stack) ==
    IF ~st.ok THEN st
    ELSE IF f \in stack THEN [st EXCEPT !.ok = FALSE]
    ELSE IF f \in st.seen THEN st
    ELSE IF ~Includable(files[f]) THEN [st EXCEPT !.ok = FALSE]
    ELSE LET after == compose(files, [st EXCEPT !.seen = @ \cup {f}], files[f].includes,
                              stack \cup {f})
         IN  IF after.ok THEN insert_definitions(after, files[f].defs) ELSE after

compose(files, st, includes, stack) ==
    FoldLeft(LAMBDA acc, f : IncludeFile(files, acc, f, stack), st, includes)

compose_gateway_includes_value(files, root) ==
    compose(files, [defs |-> files[root].defs, seen |-> {}, ok |-> TRUE],
            files[root].includes, {root})

-----------------------------------------------------------------------------
(* Extends: load_gateway_root_inner                                        *)

ArrayNames(array) == {array[i].name : i \in DOMAIN array}
NoRepeats(array) == \A i, j \in DOMAIN array : array[i].name = array[j].name => i = j

\* An entry of these tables is a value of its own, whatever keys it has: <<table,
\* name of the entry>>.  Any other leaf stands for itself.
Atomic == {"host_socket_exposures", "env"}
Unit(leaf) == IF leaf[1] \in Atomic THEN SubSeq(leaf, 1, 2) ELSE leaf

\* Tables are merged to their leaves or atomic entries, where the child wins.
merge_tables(base, child) ==
    LET given == {Unit(leaf) : leaf \in DOMAIN child}
    IN  child @@ Restrict(base, {leaf \in DOMAIN base : Unit(leaf) \notin given})

\* Entries of one name are merged in place, others appended.
merge_named_arrays(base, child) ==
    FoldLeft(LAMBDA acc, e :
                IF e.name \in ArrayNames(acc)
                  THEN [i \in DOMAIN acc |->
                          IF acc[i].name = e.name
                            THEN [name |-> e.name, sets |-> merge_tables(acc[i].sets, e.sets)]
                            ELSE acc[i]]
                  ELSE Append(acc, e),
             base, child)

merge_values(base, child) ==
    IF base.array # <<>> /\ child.array # <<>> /\ ~(NoRepeats(base.array) /\ NoRepeats(child.array))
      THEN Error
      ELSE [ok    |-> TRUE,
            defs  |-> [n \in DOMAIN base.defs \cup DOMAIN child.defs |->
                         IF n \notin DOMAIN child.defs THEN base.defs[n]
                         ELSE IF n \notin DOMAIN base.defs THEN child.defs[n]
                         ELSE merge_tables(base.defs[n], child.defs[n])],
            array |-> IF child.array = <<>> THEN base.array
                      ELSE merge_named_arrays(base.array, child.array)]

RECURSIVE load_gateway_root_inner(_, _, _)

load_gateway_root_inner(files, root, stack) ==
    IF Len(stack) >= MaxExtendsDepth \/ root \in ToSet(stack) \/ ~files[root].rootable THEN Error
    ELSE LET composed == compose_gateway_includes_value(files, root)
             own == [ok |-> composed.ok, defs |-> composed.defs, array |-> files[root].array]
         IN  IF ~own.ok THEN Error
             ELSE IF files[root].extends = None THEN own
             ELSE LET base == load_gateway_root_inner(files, files[root].extends,
                                                      Append(stack, root))
                  IN  IF base.ok THEN merge_values(base, own) ELSE Error

load_gateway_root(files, root) == load_gateway_root_inner(files, root, <<>>)

-----------------------------------------------------------------------------
(* What the results should be.                                             *)

\* The files that are included, directly or not.
Included(files, root) ==
    LET next(set) == set \cup UNION {ToSet(files[f].includes) : f \in set}
        RECURSIVE closure(_)
        closure(set) == IF next(set) = set THEN set ELSE closure(next(set))
    IN  closure(ToSet(files[root].includes))

\* One root with what it includes: no file includes itself through others, each
\* is fit to be included, and no name is defined twice.
Composable(files, root) ==
    LET set == Included(files, root)
        all == set \cup {root}
    IN  /\ root \notin set
        /\ \A f \in set : f \notin Included(files, f) /\ Includable(files[f])
        /\ \A f, g \in all : f # g => DOMAIN files[f].defs \cap DOMAIN files[g].defs = {}

\* The roots, from the one that is loaded to the last one it extends; a chain
\* that returns to a root is cut when it is too long.
RECURSIVE Chain(_, _, _)
Chain(files, root, n) ==
    IF n = 0 \/ files[root].extends = None THEN <<root>>
    ELSE <<root>> \o Chain(files, files[root].extends, n - 1)

Sources(files, root) == {root} \cup Included(files, root)

\* What one root says of a name: there is one file that defines it, or none.
Says(files, root, name) ==
    LET by == {f \in Sources(files, root) : name \in DOMAIN files[f].defs}
    IN  IF by = {} THEN <<>> ELSE files[CHOOSE f \in by : TRUE].defs[name]

\* The nearest root of a chain that says anything of the unit a leaf belongs to.
Nearest(says, leaf) ==
    LET speaking == {i \in DOMAIN says : \E l \in DOMAIN says[i] : Unit(l) = Unit(leaf)}
    IN  says[CHOOSE i \in speaking : \A j \in speaking : i <= j]

Merged(says) ==
    LET leaves == UNION {DOMAIN says[i] : i \in DOMAIN says}
    IN  [leaf \in {l \in leaves : l \in DOMAIN Nearest(says, l)} |-> Nearest(says, leaf)[leaf]]

\* What one root's array says of a name.
Entry(array, name) ==
    IF name \in ArrayNames(array)
      THEN array[CHOOSE i \in DOMAIN array : array[i].name = name].sets ELSE <<>>

\* All names the files of a chain define.
Defined(files, chain) ==
    UNION {DOMAIN files[f].defs : f \in UNION {Sources(files, chain[i]) : i \in DOMAIN chain}}

\* The arrays of a chain that are set.
Arrays(files, chain) == {i \in DOMAIN chain : files[chain[i]].array # <<>>}

Loadable(files, chain) ==
    /\ Len(chain) <= MaxExtendsDepth
    /\ \A i \in DOMAIN chain : files[chain[i]].rootable /\ Composable(files, chain[i])
    /\ \A i, j \in Arrays(files, chain) : i # j => NoRepeats(files[chain[i]].array)

=============================================================================
