---------------------------- MODULE MCHttpServe ----------------------------
(* Instance of HttpServe for TLC: an application with Logger and Recovery, *)
(* a group with a middleware, a page in it and two WebSocket routes.       *)
EXTENDS HttpServe

MCGroups ==
    LET root == [prefix |-> <<>>, uses |-> <<"logger", "recovery">>]
    IN  <<root, Router(root, <<"a", "">>, <<"user">>)>>
MCName ==
    (":x" :> "x") @@ (":y" :> "y") @@ (":r" :> "r") @@ ("*r" :> "r") @@ ("*" :> "")
    @@ (":xb" :> "xb") @@ (":x:x" :> "x:x") @@ (":x*r" :> "x*r")
MCRoutes == <<<<"a", ":x">>, <<"a", "ws">>, <<"listen">>>>
MCHandlers == <<"page", "dashboard", "listen">>
MCPaths == {<<"a", "b">>, <<"a", "ws">>, <<"listen">>, <<"a", "b", "c">>}

(* What the theorem on AnswerAsLogged asks of an application.              *)
ASSUME MCAsDefault == AsDefault

(* Up to three patterns that overlap in every way, against all paths of up *)
(* to three parts; two groups, one behind the other or both behind root.   *)
Patterns == {<<>>, <<"a">>, <<"a", "">>, <<"a", "b">>, <<":x">>, <<":y", "b">>, <<":x", "b">>,
             <<"a", ":x">>, <<"a", "*r">>, <<"*r", "b">>, <<":x", ":x">>, <<":r", "*r">>, <<"*">>}
MCRouteLists == UNION {[1 .. n -> Patterns] : n \in 0 .. 3}
MCRoutedPaths == UNION {[1 .. n -> {"a", "b", "ab", "", ":x"}] : n \in 0 .. 3}
MCPrefixes == {<<"">>, <<"", "a">>, <<"a">>, <<"", "a", "">>, <<"", ":x">>, <<"a", "b", "", "">>}
MCGroupSpecs ==
    {<<[parent |-> 1, segs |-> p], [parent |-> q, segs |-> r]>> :
        p \in MCPrefixes, q \in {1, 2}, r \in MCPrefixes}
(* What the theorem on RoutesRight asks of the prefixes.                   *)
ASSUME MCPlainPrefixes == PlainPrefixes

(* With a slash in front and without, which glues them to the prefix.      *)
MCComps == {<<"">>, <<"", "">>, <<"", "b">>, <<"", ":x">>, <<"", "*r">>, <<"b">>, <<":x">>, <<"*r">>}
MCGlue(a, b) == a \o b
=============================================================================
