----------------------------- MODULE MC_OpCache -----------------------------
(***************************************************************************)
(* Four terms whose computations nest three deep and share a sub-term, a    *)
(* cache of two entries (so cleanup clears it in the middle of nested      *)
(* calls) and as many addresses as terms (so freed addresses are reused).  *)
(***************************************************************************)
EXTENDS OpCache

MCTerms == 0..3
\* t depends on t - 1, and 3 on both 2 and 1.
MCDeps == [t \in MCTerms |-> IF t = 3 THEN {1, 2} ELSE IF t = 0 THEN {} ELSE {t - 1}]
MCF == [t \in MCTerms |-> (t + 2) % 4]
=============================================================================
