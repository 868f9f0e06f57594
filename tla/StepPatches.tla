---------------------------- MODULE StepPatches -----------------------------
(***************************************************************************)
(* Lists of steps (bootstrap, hooks, host steps) are inherited from layer  *)
(* to layer and patched in each: merge_target_step_patches.  A patch has a *)
(* key, is enabled or removes, may name a place, and says what it sets; an *)
(* effective step has a command and may have a timeout.                    *)
(***************************************************************************)
EXTENDS Naturals, Sequences, SequencesExt

CONSTANTS
    None  \* what a file does not say

KeyIndexes(steps, key) == {i \in DOMAIN steps : steps[i].key = key}
Keys(steps) == {steps[i].key : i \in DOMAIN steps}

validate_raw_target_steps(patches) ==
    /\ \A i, j \in DOMAIN patches : patches[i].key = patches[j].key => i = j
    /\ \A i \in DOMAIN patches :
          /\ patches[i].before = None \/ patches[i].after = None
          /\ ~patches[i].enabled =>
                {patches[i].command, patches[i].required, patches[i].timeout} = {None}

TimeoutOnly(patch) == patch.timeout # None /\ patch.command = None /\ patch.required = None

\* A patch of nothing but a timeout keeps what it replaces, where the kind of step
\* allows it; else a step is required unless it says otherwise.
to_effective(patch, inherited, inherits) ==
    LET kept(own, old) == IF own = None /\ TimeoutOnly(patch) /\ inherits THEN old ELSE own
        required == kept(patch.required, inherited.required)
    IN  [key |-> patch.key, timeout |-> patch.timeout,
         command |-> kept(patch.command, inherited.command),
         required |-> IF required = None THEN "yes" ELSE required]

NoStep == [command |-> None, required |-> None]

PatchError(list) == [list EXCEPT !.ok = FALSE]

Replace(list, patch, inherits) ==
    LET i == CHOOSE k \in KeyIndexes(list.steps, patch.key) : TRUE
        step == to_effective(patch, list.steps[i], inherits)
    IN  IF patch.before # None \/ patch.after # None THEN PatchError(list)
        ELSE IF ~patch.enabled THEN [list EXCEPT !.steps = RemoveAt(@, i)]
        ELSE IF step.command = None THEN PatchError(list)
        ELSE [list EXCEPT !.steps[i] = step]

\* (mistake: a step goes after the one behind the one it names)
Place_OneBehind(steps, patch) ==
    IF patch.before # None THEN CHOOSE i \in KeyIndexes(steps, patch.before) : TRUE
    ELSE IF patch.after # None /\ \A i \in KeyIndexes(steps, patch.after) : i < Len(steps)
      THEN 2 + CHOOSE i \in KeyIndexes(steps, patch.after) : TRUE
    ELSE Len(steps) + 1

Place(steps, patch) ==
    IF patch.before # None THEN CHOOSE i \in KeyIndexes(steps, patch.before) : TRUE
    ELSE IF patch.after # None THEN 1 + CHOOSE i \in KeyIndexes(steps, patch.after) : TRUE
    ELSE Len(steps) + 1

Insert(list, patch) ==
    LET missing == \E ref \in {patch.before, patch.after} \ {None} : ref \notin Keys(list.steps)
        step == to_effective(patch, NoStep, FALSE)
    IN  IF \/ ~patch.enabled \/ missing \/ step.command = None
           \/ patch.before # None /\ patch.after # None
          THEN PatchError(list)
          ELSE [list EXCEPT !.steps = InsertAt(@, Place(@, patch), step)]

Patched(list, patch, inherits) ==
    IF ~list.ok THEN list
    ELSE IF patch.key \in Keys(list.steps) THEN Replace(list, patch, inherits)
    ELSE Insert(list, patch)

merge_target_step_patches(inherited, patches, inherits) ==
    FoldLeft(LAMBDA list, patch : Patched(list, patch, inherits),
             [ok |-> TRUE, steps |-> inherited], patches)

=============================================================================
