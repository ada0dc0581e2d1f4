--------------------------- MODULE MCVaultMandate ----------------------------
(* Instances of VaultMandate for TLC. *)
EXTENDS VaultMandate, TLC

\* A writable file, one outside the prefix, and spellings the two parsers read
\* differently.
MCTexts == {<<"n", "/", "a">>, <<"b">>, <<"\\", "b">>, <<" ", "n", "/", "a">>,
            <<"n", "\\", "a">>, <<"n", "/", "/", "a">>}

MCExact == {}
MCPrefixes == {<<"n", "/">>}
MCSuffixes == {<<"a">>, <<"b">>}

Symmetry == Permutations(Clients)
=============================================================================
