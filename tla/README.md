# TLA+ models of the sequence rewriter (`src/src/ast/rewriter/seq_rewriter.cpp`)

`seq_rewriter` is z3's simplifier for string, sequence and regular-expression
terms. The host calls it on one term at a time. It is single-threaded and keeps
almost no state between calls. The one exception is the operation cache
(`op_cache`), which memoises the derivative engine. So the hard parts of this
code are not interleavings. They are:
- long sequences of rewrite steps on lists of atoms, which must preserve the
  meaning of an equation;
- a cache that is cleared in the middle of nested computations over
  reference-counted, hash-consed terms.

The models below turn those two parts into state machines that TLC explores
exhaustively on small instances. They also prove the cache invariants with
TLAPS for every size of the instance.

## Inventory of the system

| Part (spec.md) | Code | Status | Module |
|---|---|---|---|
| C1 character predicate algebra | `lt_char` … `pred_implies`, sym_expr algebra | not modelled | — |
| C2 symbolic automaton bridge | `re2automaton` (external automaton library) | not modelled | — |
| C3 operation cache | `op_cache` 6215-6243 and its callers | modelled | `OpCache`, `MemoCall` |
| C4 length/bound analyzer | `min_length` 5800-5901, `max_length` 5903-5933, `get_lengths`, `sign_is_determined` | partly | `ReduceEq` (`AtomMin`, `MinLen`, `Bounded`), `SeqTerms` |
| C5 string/sequence rewriter | `mk_seq_extract` 1185-1371 and helpers 1018-1183; `mk_seq_contains` 1400-1570; `mk_seq_at` 1578-1649; `mk_seq_last_index` 1756-1769; `mk_seq_index` 1790-1950; `mk_seq_replace`, `mk_seq_replace_all` 1956-2245; `mk_seq_prefix`, `mk_seq_suffix` 2255-2462; `mk_str_itos`, `mk_str_stoi` 2592-2711 | partly | `SeqTerms`, `SeqSemantics`, `SeqExtract`, `SeqPredicate`, `SeqPosition`, `SeqReplace`, `SeqStoi` |
| C6 regex rewriter | `mk_re_*`, `merge_regex_sets` | partly: the union and intersection normalisers the derivative uses | `SeqDeriv` (`UnionNormalize`, `InterNormalize`) |
| C7 derivative engine | `is_nullable`, `mk_derivative`, `mk_antimirov_deriv*` 3202-3534, `elim_condition` 5217-5300, `mk_der_op`, `mk_der_compl` | partly | `SeqDeriv`, `OpCache` |
| C8 equation reducer | `mk_eq_core`, `reduce_eq` and its stages 5425-6213 | partly | `ReduceEq` |
| C9 membership and sampler | `some_string_in_re` 6245-6359, `get_bounds` 6361-6389; `mk_str_in_regexp` | partly: the sampler | `SeqSampler` |
| C10 ite lifting, glue | `lift_ites_throttled`, conversions | not modelled | — |

**How the parts interact.**
- The host's `mk_eq_core(l, r)` flattens both sides into lists of atoms.
- `reduce_eq` then runs its stages in a fixed order (C8). The length stage uses
  `min_length` (C4).
- The derivative functions (C7) memoise every result in `op_cache` (C3). Their
  nested calls may clear the cache while an outer call is still computing.
- The sampler `some_string_in_re` (C9) looks for a word of a regex by taking
  derivatives (C7) and walking the `ite` tree they return, choosing one
  character per branch. The derivative in turn builds its unions and
  intersections with the normalisers of C6. `SeqSampler` composes the two:
  its actions call `SeqDeriv`'s `MkDerivative`.

## Plan

1. **C8, done.** The equation reducer as a stage machine, checked for
   soundness against the string semantics.
2. **C3/C7 memoisation, done.** The op cache with a reference-counted heap,
   checked and proved.
3. **C5 `mk_seq_extract`, done.** The whole rewrite and its offset helpers,
   checked for soundness against the substring semantics.
4. **C5 prefix, suffix, contains, index, replace, replace_all, at,
   last_index, stoi, itos, done.** Each is checked the same way as extract.
5. **Next sittings.** Each remaining rewrite is a pure function of its
   arguments. It gets a module with one action (the whole handler), checked
   for soundness against the semantics over bounded strings. In order:
   - `mk_seq_nth`, `mk_seq_nth_i` (they need character-valued terms);
   - `mk_str_lt`, `mk_str_le` and the code/digit conversions;
   - `reduce_eq_empty`;
   - `merge_regex_sets`;
   - the sampler `some_string_in_re`/`get_bounds`: done (`SeqDeriv`,
     `SeqSampler`); next are loops with bounds and `reverse` in the
     derivative, and `mk_str_in_regexp`.
6. **Proofs.** Extend them to the pure list helpers of `ReduceEq`, written as
   recursive functions so that they are in reach of the provers.

## Modules

### `ReduceEq`: the equation reducer (C8 with part of C4)

**State.**
- `lhs0`, `rhs0`: the flattened input sides (`get_concat`).
- `ls`, `rs`: the working lists.
- `eqs`: the side equations pushed to `new_eqs`.
- `h1`, `h2`: `head1`, `head2` of `reduce_front`.
- `pc`: the stage in the `&&` chain of `reduce_eq`, 5640-5659.
- `result`: the outcome of `mk_eq_core`, one of none, false, rewrite or failed.

**Atoms** are records:
- `Unit(c)`: a unit of a character constant or a character variable;
- `Str(s)`: a literal;
- `Var(x)`: a sequence variable;
- `ItosOf(n)`.

Term identity (`l == r`) is record equality, because z3 terms are hash-consed.
`m().are_distinct` holds for two different character constants (`AreDistinct`).

**Actions.** One action per loop iteration or per stage, each the whole code of
that step:

| Action | Code |
|---|---|
| `Flatten` | `remove_empty_and_concats` |
| `BackStep` | one iteration of `reduce_back`'s loop. It includes the swap at 5503-5504, which persists. |
| `BackExit` | the loop's break |
| `FrontStep` | one iteration of `reduce_front`'s loop, with the swap of lists and heads at 5570-5572 |
| `FrontExit` | the end of `reduce_front`, including `remove_leading` |
| `Itos1`, `Itos2` | `reduce_itos(ls, rs)` and `reduce_itos(rs, ls)` |
| `Clash` | `reduce_value_clash` |
| `ByLength` | `reduce_by_length` with `set_empty` and `concat_non_empty` |
| `Subsequence` | `reduce_subsequence` |
| `Overlap1`, `Overlap2` | `reduce_non_overlap` in both directions |
| `Finish` | the end of `reduce_eq(l, r)` and `mk_eq_core`: change flag, `add_seqs`, result |

A stage that returns false goes to `Refute`.

**Semantics** (in `MC_ReduceEq`). An assignment gives:
- every character variable a character;
- every sequence variable a string of length at most 2;
- every integer variable one of -1, 0, 1, 10.

`itos` denotes the decimal digits, or the empty string for a negative number.

### `OpCache`: the operation cache and its memoising callers (C3, C7)

**State.**
- `heap`: the external term manager. An address holds a term or is free.
  There is at most one live node per term (hash-consing). A node is freed as
  soon as nothing references it.
- `table`: `m_table`, one entry per key node.
- `trail`: `m_trail`.
- `stack`: the active memoising calls, each with:
  - its argument;
  - the sub-terms it still has to compute;
  - the result nodes of its sub-calls (its `expr_ref` locals);
  - whether it has done its `find` yet.
- `calls`: the top-level calls made so far.

**Actions.**

| Action | Code |
|---|---|
| `Start` | the client calls a memoising function |
| `FindHit`, `FindMiss` | `op_cache::find` |
| `SubCall` | a nested memoised call on a sub-term, as `mk_der_compl` does on `r1` and `r2` |
| `Insert` | `op_cache::insert`, i.e. `cleanup` and then pinning key and result on the trail. The call returns. |

The op kind and the second and third key arguments are abstracted. The key is
one node and `F` is the function being memoised.

**What the cache promises: `MemoCall`.** `MemoCall` is the same memoising
function without a cache and without a heap. Its stack holds terms, not
nodes. It has three actions:
- `ACall`: the client calls it on a term (`is_nullable` 2891-2894).
- `ASubCall`: a call makes a nested call on a sub-term it still needs
  (`mk_der_compl` 4084-4090).
- `AReturn`: the innermost call returns `F` of its argument to its caller
  (2895-2901).

A call may return before it has made all its nested calls; from outside, that
is what a cache hit looks like. The refinement mapping `AbsStack` reads each
frame through the heap: the argument node becomes its term and each held
result node becomes its term. `MemoRefinement == Memo!ASpec` says that every
step of `OpCache` maps to a `MemoCall` step or a stutter:
- `Start` maps to `ACall`;
- `SubCall` maps to `ASubCall`;
- `FindHit` and `Insert` map to `AReturn`;
- `FindMiss` is a stutter.

So whatever `cleanup` and address reuse do, a call hands its caller a node
holding `F` of its argument.

`HeldResultsCorrect` is the state form of the same guarantee: every node a call
holds as a sub-result holds `F` of one of the sub-terms of its argument.

### `SeqTerms`, `SeqSemantics`, `SeqExtract`: string terms and `mk_seq_extract` (C5, C4)

`SeqTerms` declares the terms as records: units, literals, variables,
concatenations, `extract`, `at`, `ite`, and integer numerals, lengths, sums,
differences, products and variables. Terms are hash-consed in z3, so equal
records are the same term. It also holds the analyses the rewrites share,
each a recursive operator translated from the code: `MinLength`
(`min_length`), `MaxLength` (`max_length`), `GetLengths` (`get_lengths`),
`SignOf` (`sign_is_determined`) and `MkLen` (`mk_len`). `Units`
(`get_concat_units`) and `MkConcat` are in `seq_util`, outside this file, and
are modelled from their documented behaviour.

`SeqSemantics` is the reference: `SVal` and `IVal` give a term its value under
an assignment, with `str.substr` as SMT-LIB defines it (empty unless
`0 <= i < |s|` and `n > 0`).

`SeqExtract` models `mk_seq_extract(a, b, c)` as one operator `MkSeqExtract`
whose cases follow the code in order: the sign check, the empty cases, `at`
for length 1, a literal base, `extract_pop_suffix`, `extract_push_offset`,
`extract_push_length` (sharing the loop `PushWalk`), the seven cases for an
extract of an extract (`NestedExtract`), and the leading-units tail
(`ExtractUnits`, `IteChain`). The state machine picks an argument triple
(`Init`) and applies the rewrite once (`Rewrite`), recording BR_FAILED as
`"failed"` and any other status as `"rewrite"`.

### `SeqPredicate`, `SeqPosition`, `SeqReplace`, `SeqStoi`: the other rewrites of C5

Each module has the shape of `SeqExtract`: one operator per handler, its
cases in the order of the code, and one action per handler that applies it
to the arguments `Init` picked (with the operation, `op`). The handlers are
grouped by the kind of value they return: Boolean (`SeqPredicate`),
position or character (`SeqPosition`), string (`SeqReplace`), and the
integer/string conversions (`SeqStoi`). Each checks a soundness property
against `SeqSemantics`; `MC_SeqFunctions` checks `SeqPosition` and `SeqStoi`
together in one run.

| Module | Handlers and helpers | Cases worth noting |
|---|---|---|
| `SeqPredicate` | `mk_seq_prefix`, `mk_seq_suffix` and their shared unit walk `UnitsWalk`; `mk_seq_contains`, `cannot_contain_prefix`, `cannot_contain_suffix`, `reduce_by_char` | peeling of leading literals (`PrefixLiterals`); the walk refutes on distinct values, emits `unit = unit` equations, stops at anything else, and suffix walks the reversed lists; trimming of atoms that cannot start or end `b` (`LeadSkip`, `TrailKeep`); the all-units disjunction `UnitsOr` |
| `SeqPosition` | `mk_seq_index`, `compare_lengths`; `mk_seq_at`; `mk_seq_last_index` | leading units skipped against a numeral offset and shifted back (`Shifted`); multiset length comparison (`CompareLengths`); the walk consuming units and `len(t)` summands of the offset of `at` (`AtWalk`) |
| `SeqReplace` | `mk_seq_replace` with its `compare_at_i` loop, `mk_seq_replace_all`, `try_get_unit_values`, `replace_all_subvectors` | the loop steps past a position only where `b` is refuted at a unit (`ReplaceStop`); a match running off the end of `a` becomes an `ite` |
| `SeqStoi` | `mk_str_stoi`, `mk_str_itos` | the trailing-unit rule (`LastUnit`) and the leading-`'0'` rule |

`SeqTerms` gained the term kinds these need (`replace`, `prefixof`,
`suffixof`, `contains`, `indexof`, `stoi`, `itos`, Boolean and integer
`ite`, `and`, `or`, comparisons). `zstring` and `seq_util` are outside this
file: `IndexOfu`, `ZReplace`, `ZLastIndexOf`, `ZItos`, `Atoms`
(`get_concat`, which drops empty literals) and `Leftmost` are modelled from
their documented behaviour.

The term manager is not in this file. `Referenced`, `Collect` and `AllocAt`
model it from its documented behaviour (reference counting, hash-consing).

### `SeqDeriv`: the symbolic derivative (C7, part of C6)

Regexes are records built by `REmpty`, `REps`, `RFull` (`.*`), `RDotPlus`
(`.+`), `RRange`, `RLit`, `RCat`, `RUnion`, `RInter`, `RComp`, `RStar` and
`RIte`. A condition on the derivative's character variable is a range, an
equality or a negation (`CRange`, `CEq`, `CNot`). Characters are `0..MaxChar`.
- `Deriv(r, path)` is `mk_antimirov_deriv_rec` case by case, with the
  helpers `DerivConcat`, `AntimirovUnion`, `Intersection`, `Negate` and
  `Restrict`. `MkDerivative(r)` is `mk_derivative`: `Deriv(r, {})`.
- `path` is the set of conditions of the `ite`s above; `PathFalse` decides it
  by enumerating `0..MaxChar`, which is what `elim_condition` and
  `simplify_path` do on ranges. Branches on an unsatisfiable path are pruned.
- `UnionNormalize` and `InterNormalize` are `mk_regex_union_normalize` and
  `mk_regex_inter_normalize`. Their `merge_regex_sets` sorting by term id is
  abstracted: the merged term has the same language.
- `Nullable` is `is_nullable_rec`. `NullInfo` stands for `get_info`, which is
  outside this file (spec_modelled), as are `IteSimplify` (`mk_ite_simplify`)
  and `ReAppend` (`mk_re_append`).
- `Matches(r, w)` and `Eval(d, ch)` are the reference: the language of a
  regex, and the regex a derivative gives at a character.

This module declares RECURSIVE operators and is used only by TLC.

### `SeqSampler`: `some_string_in_re` (C9)

State: `todo` (the worklist of `re_eval_pos` records: regex, string length,
exclude intervals, `needs_derivation`, and the derivative `w` computed once
when the item is made), `str`, `visited`, `pc` and `outcome`. One action per
branch of the loop body, each ending at the code's `continue` or `return`:
- `Skip`: a visited or empty regex that needs derivation, or an empty
  derivative (which is marked visited first, as in the code);
- `Accept`: a nullable regex returns `l_true`;
- `SplitUnion`: a union to derive pushes its arguments;
- `BranchUnion`: a derived union pushes its arguments with the excludes;
- `BranchIte`: an `ite` pushes its else-branch with the bounds of the
  condition added to the excludes (when `get_bounds` succeeds), then appends
  `low` and pushes the then-branch to be derived (`IteSuccessor`);
- `Pick`: a ground leaf chooses the first character from `'a'` not in the
  excludes, wrapping once to 0 (`Scan`), or drops the item when none is left;
- `Exhausted`: an empty worklist returns `l_false`.
`'a'` is the constant `StartChar` and `zstring::unicode_max_char()` is
`UnicodeMaxChar`. The `l_undef` return is left out: every leaf of a
derivative of the modelled regexes is ground. `MaxStrLen` caps `str`; the
run shows that the cap never bites, since every search ends.


| Run | What it shows |
|---|---|
| `reduce_eq_cancel` (`MC_ReduceEq.cfg`) | 339,131 states (the former units inputs included). Every equation with at most 2 atoms per side over variables `x` and `y`, the value units `a` and `b`, the non-value unit `c1`, the literals `a`, `ab`, `ba` and the empty string. Checks `ReductionSound`, `NonOverlapSound` (non_overlap rules out containment and prefix/suffix overlap on every pair of unit-list inputs), and that reduce_eq terminates (`Terminates`). |
| `reduce_eq_itos` (`MC_ReduceEq_itos.cfg`) | 49,007 states. `itos(n1)` against the literals `1`, `10`, `0`, `01`, `a` and the unit `1`. This covers the leading-zero and non-digit cases of `reduce_itos`. Checks `ReductionSound` only: these inputs add no loop that pushes back remainders, so `Terminates` is left to `reduce_eq_cancel`. |
| `op_cache` (`MC_OpCache.cfg`) | 6,129 states. Checks `CacheTransparent`, `CacheBounded`, `HeldResultsCorrect` and the refinement `MemoRefinement`. |
| `non_overlap_contract` (`MC_ReduceEq_nonoverlap.cfg`) | Expected violation: see the finding below. |
| `seq_extract` (`MC_SeqExtract.cfg`) | 2,720 states. `ExtractSound`: every rewrite of `extract(a, b, c)` denotes the same string as the input, under every assignment of strings of length at most 3 over `{a, b}`, a character and integers from -1 to 3. |
| `seq_extract_nested_suffix` (`MC_SeqExtract_suffix.cfg`) | Expected violation of `ExtractSound`: see the finding below. |
| `seq_predicate` (`MC_SeqPredicate.cfg`) | 1,310 states. `PredicateSound`: every rewrite of `prefixof(a, b)`, `suffixof(a, b)` and `contains(a, b)` is equivalent to the input. The contains inputs include extracts and replaces of one character by another, for `reduce_by_char`. |
| `seq_replace` (`MC_SeqReplace.cfg`) | 1,600 states. `ReplaceSound`: the same for `replace` and `replace_all`, including `replace(x ++ "ab", x ++ "b", c)`, where `b` can begin inside `x`. |
| `seq_functions` (`MC_SeqFunctions.cfg`) | 1,506 states. `PositionSound`: the same for `indexof(a, b, c)` with numeral, variable and `len(x)` offsets, for `at(a, b)` with offsets that are sums of numerals and lengths, and for `last_indexof`. `StoiSound`: the same for `stoi` and `itos`, over the digits `0`, `1` and the letter `a`. |
| `seq_stoi_progress` (`MC_SeqFunctions_stoi_progress.cfg`) | Expected violation of `StoiProgress`: see the finding below. |
| `seq_sampler` (`MC_SeqSampler.cfg`) | 137 states. Over 41 regexes on the characters 0..3: `DerivSound` (`mk_derivative` gives, at every character, a regex with the language of the residual, checked on all words up to length 2), `SampleSound` (a returned string is in the language), `SampleComplete` (`l_false` only for a language with no word up to `MaxStrLen`) and `SearchTerminates` (every search returns). |
| `sampler_overlap` (`MC_SeqSampler_unsound.cfg`) | Expected violation of `SampleSound`: see the finding below. |

**`ExtractSound`** (in `MC_SeqExtract`). The bases `a` are literals, units,
variables, their concatenations, an `at`, and inner extracts of `x` that
`mk_seq_extract` itself leaves alone: a suffix `extract(x, 1, len(x) - 1)`, a
prefix `extract(x, 0, len(x) - 1)` and `extract(x, 1, 2)`. The offsets and
lengths are numerals from -1 to 3, `len(x)`, `len(a)` minus 0, 1 or 2, sums,
a negated length and an integer variable. These reach every case of
`mk_seq_extract`, including all seven nested cases. The passing run leaves out
the inner extract `extract(x, 1, len(x) + len(y) - 1)`, which the violation
run adds.

**The other soundness properties** (`PredicateSound`, `PositionSound`,
`ReplaceSound`, `StoiSound`) have the same form:
under every assignment of strings of length at most 2, characters and small
integers, the result denotes what SMT-LIB gives for the input. The inputs
are chosen so that every case of every handler fires, which a label operator
evaluated over the input sets confirms. Two cases stay dark, one in
`mk_seq_replace` (2013) and one in `mk_str_stoi` (2679). Each needs an
argument whose unit list is empty although it is not the literal `""`, that
is, a `concat` of empty literals. The bottom-up rewriter never passes one.
The string branch of `cannot_contain_prefix` (1425-1431) is also dead, since
`mk_seq_contains` only passes it units. It tests `suffixof` where its comment
says prefix, and the model keeps that.

**`ReductionSound`** (in `MC_ReduceEq`) is the central property. It quantifies
over all assignments:
- while stages run, the input equation holds iff the residual `ls = rs` and all
  side equations hold;
- a refutation only happens for an equation with no solution;
- a rewrite is equivalent to the input.

A bug in any stage breaks it: a cancellation, a clash, a length or subsequence
step that drops or invents a constraint.

**`CacheTransparent`** says that every entry maps a live key to a node holding
`F` of the key's term. It fails if an entry outlives the pins of its nodes:
then a freed key address can be reused for another term, and `find` answers
for the wrong term.

**The sampler inputs** (`MC_SeqSampler`) are literals, a star, unions,
intersections with derivative cycles (even and odd counts), a complement, an
empty language, every concatenation and intersection of two of the atoms
`[0-1]`, `[1-3]`, `"2"` and `.+`, and the complements of those. `StartChar`
is 1, so the wrap-around to 0 happens (`Starts0`). The atom `.*` under a
complement of a concatenation is left out: its derivatives are correct on
small inputs but make TLC's fairness check too slow. The inputs also leave
out intersections whose derivative nests one range `ite` under the other's
else or then branch; those show the two sampler defects below.

**Bounds.**
- `reduce_eq_cancel`: two atoms per side already reach every branch of both
  cancellation loops (equal atoms, unit/unit, unit/string, string/string with
  remainders on either side) and the swaps.
- `reduce_eq_cancel` also takes equations with up to three units and
  variables per side: they are needed for the subsequence and non-overlap
  stages to find leftovers.
- `seq_sampler`: `MaxChar = 3` gives ranges that overlap, nest and leave
  gaps; `StartChar = 1` makes the scan wrap; `MaxStrLen = 4` never bites,
  since `SearchTerminates` shows that every search returns first.
- `MC_OpCache`:
  - 4 terms nesting three deep, with one shared sub-term.
  - A cache cap of 2, so `cleanup` clears the table while calls are nested.
  - 4 addresses, so freed addresses are reused.
  - 3 top-level calls, so later calls hit entries left by earlier ones.

Across the passing runs every action and every branch of every action fires.
TLC's coverage report shows this.

**Mutants.** Each property of each passing run is broken by a plausible bug in
the mapped code (PROJECT.json "mutants"):
- `FrontExit` that loops;
- `reduce_value_clash` without the value-unit guard;
- a leading-zero test off by one;
- `non_overlap`'s last loop starting one offset late;
- `insert` pinning before `cleanup`;
- `cleanup` with `>`;
- `is_suffix` without the offset comparison;
- the prefix walk counting the atom it stops at as matched;
- `cannot_contain_prefix` taking any two different units as distinct;
- the leading-unit count of `mk_seq_index` ignoring the offset;
- the replace loop stepping past a refuted position that is not a unit;
- `mk_seq_at` answering a unit while lengths are still owed;
- the trailing-unit rule of `stoi` not passing a negative tail through;
- `is_nullable` with a star that is not nullable (`DerivSound`);
- the `ite` branch not adding the condition's bounds to the excludes
  (`SampleSound`);
- the character scan wrapping to `'a'` instead of 0 (`SampleComplete`);
- the derivation not checking the visited marks (`SearchTerminates`).

## Fairness

All specifications are `WF_vars(Next)`. The rewriter is one thread that never
waits. Each step is a statement of straight-line code, so a step that is
enabled is taken.

The sampler is one sequential loop with no waiting either, so `WF_vars(Next)`
is justified there too; `SearchTerminates` relies on it.

`CHECK_DEADLOCK FALSE` is used because a reduction really stops (at `pc =
"done"`), a single rewrite stops after its one step, a search stops when it returns, and the client stops
after `MaxCalls` calls.

## Proofs (`OpCacheProofs`, `MemoCallProofs`, `OpCacheRefinement`, `ReduceEqProofs`, all checked by tlapm)

| Module | Theorem | Statement |
|---|---|---|
| `OpCacheProofs` | `IInvInvariant` | `Spec => []IInv` |
| `OpCacheProofs` | `TypeCorrect` | `Spec => []TypeOK` |
| `OpCacheProofs` | `CacheTransparentThm` | `Spec => []CacheTransparent` |
| `OpCacheProofs` | `CacheBoundedThm` | `Spec => []CacheBounded` |
| `OpCacheRefinement` | `MemoRefinementThm` | `Spec => MemoRefinement` (that is, `Memo!ASpec`) |
| `MemoCallProofs` | `AInvInvariant`, `AHeldOKThm` | `AConstOK => (ASpec => []AInv)`, and the same for `AHeldOK` |
| `OpCacheRefinement` | `HeldResultsThm` | `Spec => []HeldResultsCorrect` |
| `ReduceEqProofs` | `NonOverlapDetectsAll` | `NonOverlapDetects(p1, p2)` for all sequences `p1`, `p2` |
| `ReduceEqProofs` | `NonOverlapSoundThm` | `Spec => []NonOverlapSound` (of `ReduceEq`) |

The `OpCache` and `MemoCall` results hold for every finite address set, term set, `F`, `Deps`, cap
`MaxCacheSize > 0` and `MaxCalls` (assumption `ConstAssumption`).

`CacheTransparent` is not inductive on its own. A step that frees nodes could
free a key. The inductive invariant therefore adds two conjuncts:
- `LiveRefs`: every referenced node (on the trail, an argument, or a held
  result) is allocated.
- `EntriesPinned`: the key and result of every entry are on the trail.

With these, `Collect` never frees a node of an entry. An allocation never
reuses an address that a live term occupies. After `cleanup` the new entry is
the only one, and it is pinned. `CacheBounded` needs the cap test to run before
the insert (lemma `BelowCap`).

The proof has one lemma per action. Helper lemmas cover:
- sequences: `ExceptSeq`, `AppendSeq`, `PinTwo`;
- `Return`: `ReturnProps`;
- the heap: `AllocKeeps`, `CollectKeeps`.

**The refinement (`OpCacheRefinement`).** `Init` maps to `AInit`. Each action
has its own lemma: `StartRef`, `FindHitRef`, `FindMissRef`, `SubCallRef` and
`InsertRef`. Each lemma assumes `IInv`.

The key fact is `ReturnMaps`. When the innermost call returns a node `r`, the
abstract stack after the step equals `AbsReturn` of the one before. This holds
provided two things are true:
- the new heap agrees with the old one on every node the callers reference;
- `r` holds `F` of the argument's term.

The first holds because `AllocKeepsFrames` and `CollectKeeps` keep every node
that is referenced. `LiveRefs` says those nodes are live, so they are not
reused. The second holds as follows:
- for a hit, by `CacheTransparent`, and `EntriesPinned` keeps `r` alive
  through the collection;
- for an insert, `r` is allocated to hold `F` of the argument and is pinned
  on the trail right away (`TrailSetLast`).

**The held results (`MemoCallProofs`, then `HeldResultsThm`).** `AHeldOK` is
proved on the abstract function, with the inductive invariant `AInv`. `AInv`
says three things:
- a call's work list is part of its dependencies;
- each call is on a dependency of its caller;
- every held result is `F` of a dependency.

The middle conjunct is what makes a return land on the caller that needs it.
The only assumption is the types of `F` and `Deps` (`AConstOK`), which
`ConstAssumption` of `OpCache` gives. `HeldResultsThm` then combines three
facts:
- `Spec => Memo!ASpec`;
- the instance of `AHeldOKThm` under the mapping;
- `HeldMaps`, which reads `AHeldOK` of `AbsStack` back through the heap.

**`non_overlap` (`ReduceEqProofs`).** `NonOverlapDetectsAll` holds for all
sequences of any element type and any lengths. Suppose `|p1| <= |p2|`.
- If `p1` is inside `p2` at offset `j`, then `j < sz2 - sz1` falls in the
  second loop and `j = sz2 - sz1` is the first iteration of the third.
- If a proper prefix of `p1` of length `k` ends `p2`, then `j = sz2 - k` lies
  in the third loop's range `sz2 - sz1 .. sz2 - 1`, and that iteration
  compares exactly those `k` atoms.
- In both cases every compared pair is the same term. So the set of positions
  that differ is empty, and `can_overlap` returns true (`EqualRunOverlaps`).
  `non_overlap` then returns false (`InsideCaught`, `PrefixSuffixCaught`).

`InsideCaught` uses the `sz1 # 0` guard of `non_overlap`: for an empty `p1`
the last offset `sz2 - sz1` would lie outside the third loop. The reducer
never changes `lhs0` and `rhs0` (`StepKeepsInputs`). `InputsAssumption` makes
them lists of atoms. So `NonOverlapSoundThm` follows without an inductive
strengthening. The suffix/prefix half of the contract is not proved, because
it is false (see the findings). `ReduceEq` declares no RECURSIVE operator. The
proofs never expand a definition that uses `SelectSeq` or a recursive
function.

**Only model-checked:**
- `Terminates`: liveness is beyond TLAPS here.
- `ExtractSound` and the other soundness properties of the C5 modules: their
  semantics is recursive over terms, and `SeqTerms` uses RECURSIVE operators.
- `ReductionSound`: its semantics is recursive over lists and strings, and
  induction over data cannot be instantiated by the installed provers.
- Any invariant of `ReduceEq` about `ls`, `rs` or `eqs`, and any measure
  argument for `Terminates`. `Flatten` builds the lists with `SelectSeq`
  (`remove_empty_and_concats`), and tlapm knows nothing about `SelectSeq`:
  it cannot even show that the result is a sequence. `eqs` holds `DecValue`,
  a recursive function.

`ReduceEq` has no type invariant in a run. Its list and head types are those
of the C++ code (the SASSERT at 5565 bounds the heads), so no plausible bug
in the mapped code breaks them without first breaking `ReductionSound`.
`OpCache` no longer states that every call returns. With acyclic `Deps` that
follows from the shrinking work list whatever the cache does, and the
recursion of the code is structural.

## Findings

**`non_overlap` does not check the suffix/prefix case (spec/code divergence).**
- The first loop of `non_overlap(p1, p2)` (4460-4462) calls
  `can_overlap(i, sz1, 0)`. That compares `p1[j]` with `p2[j]`, not with
  `p2[j - i]`.
- So a suffix of `p1` that is a prefix of `p2` goes undetected:
  `non_overlap([a,a],[a,b])` is true.
- This contradicts the comment at 4406-4411 and spec.md 4.8.
- Run `non_overlap_contract` shows it.
- The only live caller, `reduce_non_overlap`, needs containment alone, which
  the other two loops check. That is why `ReductionSound` still holds.
- The caller that relies on the contract, `rewrite_contains_pattern`, is
  disabled by `if (false && ...)` at 4681.

**`mk_seq_extract` of a prefix of a loose suffix returns too long a string
(code bug).**
- For `a = extract(a1, b1, c1)`, the case at 1293-1298 rewrites
  `extract(a, 0, c)` with `is_prefix(a, 0, c)` and `is_suffix(a1, b1, c1)` to
  `extract(a1, b1, c1 + (c - len(a)))`. That takes `c1` to be the length of `a`.
- `is_suffix` (1018-1027) only checks that the numeral part of `c1` is `-b1`
  and that `len(a1)` is among its summands. Further lengths are allowed, so
  `c1` can exceed `len(a1) - b1`.
- Example: `x = "ab"`, `y = "c"`, `a = extract(x, 1, len(x) + len(y) - 1)`,
  which is `"b"`. Then `extract(a, 0, len(a) - 1)` is `""`, but the rewrite
  gives `extract(x, 1, 1) = "b"`.
- The inner extract is a normal form. Its own `mk_seq_extract` fails on it,
  and `mk_seq_length` does not rewrite `len` of an extract with a non-numeral
  length. Run `seq_extract_nested_suffix` shows the violation.
- The first nested case (1259-1262) also accepts such a `c1`, but there the
  result keeps `c1 - b` as its length, which is still clipped by `len(a1)`.
  So that case looks sound. This is an argument only: the passing run leaves
  the loose suffix out, and the violation run stops at its first error.

**`stoi` of a unit of a non-constant character makes no progress
(spec/code divergence).**
- spec.md 4.5 says `stoi` walks leading and trailing units to recurse digit
  by digit, and section 6 says every call terminates.
- For `a = unit(c)`, with `c` a character that is not a constant, the
  constant-character case (2672-2681) does not apply. `get_concat_units`
  gives `[unit(c)]`, and the trailing-unit case (2683-2701) builds
  `ite(is_empty(""), stoi(unit(c)), ...)`. Once `is_empty("")` is decided,
  that is `stoi(unit(c))` again.
- The rewrite is sound (`StoiSound` holds) but makes no progress. The same
  holds for `stoi(s ++ unit(c))`, whose tail is `stoi(unit(c))`.
- Run `seq_stoi_progress` shows it. Whether the host then loops depends on
  its step limit, which is outside this file.

**`some_string_in_re` can return a string outside the language (code
bug).**
- At 6319 the then-branch of an `ite` appends `low`, with the comment
  "ASSERT: low .. high does not intersect with exclude". Nothing enforces it.
- Antimirov intersection builds `ite`s whose else-branch holds another `ite`
  on an overlapping range. For
  `r = inter(comp(cat([0-1], .*)), cat([1-2], .*))`, whose words start with
  2, the derivative is `ite(0<=v<=1, [], ite(1<=v<=2, .*, []))`.
- The else-branch excludes 0..1, but its inner `ite` appends 1 and pushes
  `.*`, which is nullable. The search returns `"1"`, which is not in `r`.
- Run `sampler_overlap` shows it.

**A second defect, shown by reproduction only.** At 6320 the then-branch
`th` is pushed with `needs_derivation = true`. When `th` is itself an `ite`
on the same character, as in the derivative of
`inter(cat([0-2], .*), cat([1-3], .*))`, its condition is read again as a
condition on the next character: substituting `MCNestedInputs` for `Inputs`
in `MC_SeqSampler_unsound.cfg` makes the search return `"01"`.

**Encoding edge.** `get_bounds` (6362) and the wrap-around (6340) use
`zstring::unicode_max_char()`, while paths are decided against
`u().max_char()`. Under the ascii or bmp encoding they differ. With
`UnicodeMaxChar = 4` and `MaxChar = 3` the search of `Starts0` returns the
character 4, which is outside the alphabet. The run uses the unicode
encoding (`UnicodeMaxChar = MaxChar`).

## Not modelled, and why

- `reduce_eq_empty`: `mk_eq_core` sends an equation with an empty side to it
  first. The inputs of the `ReduceEq` runs contain such equations anyway. This
  is harmless for soundness, because `reduce_eq` is sound on them too. It is
  planned.
- `ite` atoms and nested `concat` cases of `min_length`.
- The 32-bit hash behind the change flag: the model compares the lists
  themselves.
- The other rewrites of C5: `nth`, `nth_i`, `map`, `mapi`, `foldl`,
  `foldli`, `lt`/`le`, the code and digit conversions, and the bit-vector
  conversions `ubv2s`/`sbv2s` (including the `ubv2s` case of `stoi`).
- In the derivative: `reverse`, loops with bounds, `of_pred`, ranges with
  non-constant bounds, and the older `mk_derivative_rec`/`mk_der_*` path.
- `mk_str_in_regexp` and the other membership rewrites of C9.
- C1, C2, the rest of C6, C10: see the inventory. C2 depends on an external
  library. The others are pure rewrites, planned as listed above.
