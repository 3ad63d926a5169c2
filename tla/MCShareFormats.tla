--------------------------- MODULE MCShareFormats ---------------------------
(* Values of ShareFormats' constants for TLC: separators at the beginning, *)
(* inside and at the end of values, line breaks of both kinds, quotes and   *)
(* commas, in vaults of up to two entries.                                  *)
EXTENDS ShareFormats, TLC

AllTokens == {"a", "b", "x", "y", "L", "P", "n", "v", "c", "q"}

Entry(s, l, p) == [service |-> s, login |-> l, password |-> p]

Services  == {<<"a">>, <<"L">>, <<"a", "L">>, <<"a", "L", "b", "P", "b">>, <<"b", "n">>}
Logins    == {<<"a">>, <<"P">>, <<"b", "P", "a">>, <<"c">>, <<"a", "v">>}
Passwords == {<<"a", "b">>, <<"a", "L", "b", "P">>, <<"q", "n", "c">>}

Some ==
  {Entry(s, l, p) : s \in Services, l \in Logins, p \in Passwords}

Other ==
  {Entry(<<"a">>, <<"b">>, <<"b", "a">>), Entry(<<"b">>, <<"a">>, <<"c", "n", "a">>)}

Pairs == {<<e, o>> : e \in Some, o \in Other} \cup {<<o, e>> : e \in Some, o \in Other}

SmallVaults ==
  {<<>>} \cup {<<e>> : e \in Some} \cup {p \in Pairs : p[1].service # p[2].service}

\* The second is also an entry of some vaults, one that txt cannot bring back.
TwoEntries ==
  (<<"a">> :> [login |-> <<"x">>, password |-> <<"y">>])
    @@ (<<"a", "L">> :> [login |-> <<"a">>, password |-> <<"a", "b">>])
=============================================================================
