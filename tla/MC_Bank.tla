------------------------------- MODULE MC_Bank -------------------------------
(* Instances of Bank for TLC. *)
EXTENDS BankRefinement, TLC

\* One account of each kind, above its limit.
OneEach == [CH |-> << <<1, 1>> >>, SV |-> << <<3, 1>> >>]

\* Two checking accounts, one of them at its limit as CH-14 is in ec3.sql.
TwoChecking == [CH |-> << <<0, 0>>, <<2, 1>> >>, SV |-> << <<3, 1>> >>]

Openings01 == {<<1, 0>>}

KnownIds == {<<"CH", 14>>, <<"CH", 15>>, <<"SV", 1>>}

\* An id without an account and one with neither prefix.
UnknownIds == {<<"CH", 99>>, <<"V", 15>>}

AllIds == KnownIds \union UnknownIds

SessionSymmetry == Permutations(Sessions)
=============================================================================
