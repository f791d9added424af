----------------------------- MODULE MountGroup -----------------------------
(***************************************************************************)
(* The inputs of a mount group: the group itself (lib/imgtool/state.c) and *)
(* the filter (lib/imgtool/filesource/filter.c) are stackable sources that *)
(* wrap other sources, switching to an aggregate (filesource/aggregate.c)  *)
(* when a second one is added.  The description file stacks them, then     *)
(* file_sink_add_data pulls records out of the group until it is dry.      *)
(*                                                                         *)
(* The sources at the leaves hand out their records in order and say "end  *)
(* of input" for good afterwards.  A record is known by its source and its *)
(* number; a glob rule is the set of records its pattern matches.          *)
(***************************************************************************)
EXTENDS Integers, Sequences, SequencesExt, FiniteSets

CONSTANTS
  Leaves,      \* the listings, directories and tarballs
  RecordsOf,   \* leaf -> the sequence of its records
  RuleSet,     \* the rules a filter may be given: [match, allow]
  MaxSources,  \* bound: sources added to the group
  MaxRules     \* bound: rules added to the filter

ASSUME MountGroupAssumption ==
  /\ MaxSources \in Nat \ {0} /\ MaxRules \in Nat
  /\ \A l \in Leaves : IsFiniteSet(DOMAIN RecordsOf[l])

Filter == "filter"

VARIABLES
  group,    \* mg->source: the wrapped sources, and whether they are an aggregate
  filter,   \* filter->wrapped, likewise
  rules,    \* filter->rules, in list order
  added,    \* history: what was added to the group and to the filter, in order
  pos,      \* how many records each leaf has handed out
  it,       \* aggregate->it of the group and of the filter, as positions
  out,      \* history: the records the group has handed out
  phase     \* "config", "pull", "done" or "failed"

vars == <<group, filter, rules, added, pos, it, out, phase>>

Empty == [list |-> <<>>, agg |-> FALSE]

Init ==
  /\ group = Empty /\ filter = Empty
  /\ rules = <<>>
  /\ added = [group |-> <<>>, filter |-> <<>>]
  /\ pos = [l \in Leaves |-> 0]
  /\ it = [group |-> 1, filter |-> 1]
  /\ out = <<>>
  /\ phase = "config"

\* mg_add_nested: the second source makes the group an aggregate.
mg_add_nested(g, src) ==
  IF g.list = <<>> THEN [list |-> <<src>>, agg |-> FALSE]
  ELSE IF g.agg THEN [g EXCEPT !.list = Append(@, src)]
  ELSE [list |-> <<src, src>>, agg |-> TRUE]

\* Mutant: the flag is not set when the second source makes it an aggregate.
filter_add_nested_unflagged(f, src) == [list |-> Append(f.list, src), agg |-> FALSE]

\* add_nested of the filter: the source it has goes first into the aggregate.
filter_add_nested(f, src) ==
  IF f.list = <<>> THEN [list |-> <<src>>, agg |-> FALSE]
  ELSE IF f.agg THEN [f EXCEPT !.list = Append(@, src)]
  ELSE [list |-> <<f.list[1], src>>, agg |-> TRUE]

Unused(src) == ~\E k \in {"group", "filter"} : Contains(added[k], src)

AddToGroup(src) ==
  /\ phase = "config"
  /\ Unused(src)
  /\ Len(added.group) < MaxSources
  /\ group' = mg_add_nested(group, src)
  /\ added' = [added EXCEPT !.group = Append(@, src)]
  /\ UNCHANGED <<filter, rules, pos, it, out, phase>>

\* Inside the filter's block, which follows its creation in the group.
AddToFilter(src) ==
  /\ phase = "config"
  /\ Unused(src)
  /\ added.group # <<>> /\ Last(added.group) = Filter
  /\ filter' = filter_add_nested(filter, src)
  /\ added' = [added EXCEPT !.filter = Append(@, src)]
  /\ UNCHANGED <<group, rules, pos, it, out, phase>>

add_glob_rule(r) ==
  /\ phase = "config"
  /\ added.group # <<>> /\ Last(added.group) = Filter
  /\ Len(rules) < MaxRules
  /\ rules' = Append(rules, r)
  /\ UNCHANGED <<group, filter, added, pos, it, out, phase>>

StartPull ==
  /\ phase = "config"
  /\ group.list # <<>>
  /\ phase' = "pull"
  /\ UNCHANGED <<group, filter, rules, added, pos, it, out>>

(***************************************************************************)
(* get_next_record, down to the leaf it ends up at.                        *)
(***************************************************************************)
\* An aggregate moves on when its current source is dry, a single source is the
\* end of the matter.
AtEnd(w, k) == k > Len(w.list)

Child == group.list[it.group]
Leaf == IF Child = Filter THEN filter.list[it.filter] ELSE Child
FilterDry == Child = Filter /\ AtEnd(filter, it.filter)
LeafDry == ~FilterDry /\ pos[Leaf] = Len(RecordsOf[Leaf])
Current == RecordsOf[Leaf][pos[Leaf] + 1]

\* Mutant: a record no rule matches is kept.
AllowedByDefault(r) ==
  LET k == SelectInSeq(rules, LAMBDA x : r \in x.match)
  IN  k = 0 \/ rules[k].allow

\* The first rule that matches decides; a record no rule matches is dropped.
Allowed(r) ==
  LET k == SelectInSeq(rules, LAMBDA x : r \in x.match)
  IN  k # 0 /\ rules[k].allow

Pulling == phase = "pull" /\ ~AtEnd(group, it.group)

Deliver ==
  /\ Pulling /\ ~FilterDry /\ ~LeafDry
  /\ Child = Filter => Allowed(Current)
  /\ out' = Append(out, Current)
  /\ pos' = [pos EXCEPT ![Leaf] = @ + 1]
  /\ UNCHANGED <<group, filter, rules, added, it, phase>>

\* Mutant: the filter looks at the same record again.
DiscardNothing ==
  /\ Pulling /\ ~FilterDry /\ ~LeafDry
  /\ Child = Filter /\ ~Allowed(Current)
  /\ UNCHANGED vars

Discard ==
  /\ Pulling /\ ~FilterDry /\ ~LeafDry
  /\ Child = Filter /\ ~Allowed(Current)
  /\ pos' = [pos EXCEPT ![Leaf] = @ + 1]
  /\ UNCHANGED <<group, filter, rules, added, it, out, phase>>

\* The current source says it is dry: the aggregate it is in tries the next one.
NextSource ==
  /\ Pulling
  /\ \/ LeafDry /\ Child = Filter /\ it' = [it EXCEPT !.filter = @ + 1]
     \/ LeafDry /\ Child # Filter /\ it' = [it EXCEPT !.group = @ + 1]
     \/ FilterDry /\ it' = [it EXCEPT !.group = @ + 1]
  /\ UNCHANGED <<group, filter, rules, added, pos, out, phase>>

\* A source cannot be read, or the sink cannot store the record.
PullFails ==
  /\ Pulling /\ ~FilterDry /\ ~LeafDry
  /\ phase' = "failed"
  /\ UNCHANGED <<group, filter, rules, added, pos, it, out>>

PullDone ==
  /\ phase = "pull"
  /\ AtEnd(group, it.group)
  /\ phase' = "done"
  /\ UNCHANGED <<group, filter, rules, added, pos, it, out>>

Next ==
  \/ \E s \in Leaves \cup {Filter} : AddToGroup(s)
  \/ \E s \in Leaves : AddToFilter(s)
  \/ \E r \in RuleSet : add_glob_rule(r)
  \/ StartPull \/ Deliver \/ Discard \/ NextSource \/ PullFails \/ PullDone

\* file_sink_add_data loops until the group reports the end or an error.
Spec == Init /\ [][Next]_vars
        /\ WF_vars(Deliver \/ Discard \/ NextSource \/ PullDone)
-----------------------------------------------------------------------------
\* The aggregate flags tell the truth: add_nested casts the wrapped source to an
\* aggregate on their word.
TypeOK ==
  /\ group.list \in Seq(Leaves \cup {Filter}) /\ group.agg \in BOOLEAN
  /\ filter.list \in Seq(Leaves) /\ filter.agg \in BOOLEAN
  /\ \A w \in {group, filter} : w.agg <=> Len(w.list) > 1
  /\ rules \in Seq(RuleSet)
  /\ \A l \in Leaves : pos[l] \in 0..Len(RecordsOf[l])
  /\ phase \in {"config", "pull", "done", "failed"}

\* What the filter lets through according to the description: the records that
\* an allow rule matches and no earlier discard rule does.
Passes(r) ==
  \E k \in 1..Len(rules) : /\ rules[k].allow /\ r \in rules[k].match
                           /\ \A j \in 1..(k - 1) : rules[j].allow \/ r \notin rules[j].match

Contents(src) ==
  IF src = Filter
  THEN SelectSeq(FlattenSeq([k \in 1..Len(added.filter) |-> RecordsOf[added.filter[k]]]), Passes)
  ELSE RecordsOf[src]

Expected == FlattenSeq([k \in 1..Len(added.group) |-> Contents(added.group[k])])

\* doc/architecture.txt: the sources of a group are bound together and it
\* "returns the results from all of them": each record once, in the order of the
\* description, and all of them when the group reports its end.
AllRecords ==
  /\ phase \in {"pull", "done"} => IsPrefix(out, Expected)
  /\ phase = "done" => out = Expected

\* Pulling ends, also when the filter throws away everything that is left.
PullEnds == phase = "pull" ~> phase \in {"done", "failed"}
=============================================================================
