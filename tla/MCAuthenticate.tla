---------------------------- MODULE MCAuthenticate ----------------------------
(***************************************************************************)
(* Model-checking instance of Authenticate: two clients, half tokens of     *)
(* two values, a key that is shorter than a token, one that is as long and  *)
(* one that is longer.                                                      *)
(***************************************************************************)
EXTENDS Authenticate, TLC

HalfTokens == {"0", "a"}
KeyTexts   == {<<"a">>, <<"a", "a">>, <<"0", "a", "a">>}
AnyClient  == Permutations(Clients)

=============================================================================
