---------------------------- MODULE MCCollections ----------------------------
(* Instances of Collections for TLC: 2 names where the code allows 64, and the *)
(* status codes on either side of the bounds of a success.                     *)
EXTENDS Collections, TLC

CMS == <<"", "cms", "">>
API == <<"", "api", "">>

\* Collections, globals and the API itself, by URLs of every depth ...
Under(of, rest) == [path |-> <<"", "cms", "api">> \o rest, of |-> of]

Inside == { Under(<<"posts">>, <<"posts">>), Under(<<"posts">>, <<"posts", "1">>),
            Under(<<"posts">>, <<"", "posts", "globals", "">>),
            Under(<<"globals">>, <<"globals">>),
            Under(<<"globals", "site">>, <<"globals", "site">>),
            Under(<<"globals", "site">>, <<"globals", "site", "versions">>),
            Under(<<"root">>, <<>>), Under(<<"root">>, <<"">>) }

\* ... and the URLs that are not below it.
Outside == { [path |-> p, of |-> Other] :
               p \in {<<"", "cms">>, <<"", "cms", "apis", "posts">>, <<"", "api", "posts">>, Unparsed} }

AllCalls == Inside \cup Outside
RaceCalls == {Under(<<"posts">>, <<"posts">>), Under(<<"users">>, <<"users">>),
              Under(<<"media">>, <<"media">>)}

AttemptSymmetry == Permutations(Attempts)
=============================================================================
