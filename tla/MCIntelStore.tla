---------------------------- MODULE MCIntelStore ----------------------------
(* Small instances of IntelStore.                                           *)
EXTENDS IntelStore, TLC
FirstOfNpm == [bucket \in {"npm", "PyPI"} |-> IF bucket = "npm" THEN {1} ELSE {}]
TwoBuckets == <<"npm", "PyPI">>
EmptyOrLegacy == {EmptyDatabase, LegacyDatabase}
ImportersAreAlike == Permutations(Importers)
=============================================================================
