----------------------------- MODULE MCAppShell -----------------------------
(***************************************************************************)
(* Instances of AppShell for TLC: a session a with a sub-agent k, and a     *)
(* session b; lists with all of them, without a, and empty; hits of two     *)
(* sections whose raw order is not the order they are shown in.             *)
(***************************************************************************)
EXTENDS AppShell

CONSTANTS a, b, k, m1, m2, m3, t, q, r

Family == [s \in Sessions |-> IF s = k THEN a ELSE None]
AllOrOne == {<<a, b, k>>, <<b>>}
Told == [s \in Sessions |-> IF s = a THEN <<m1, m2>> ELSE IF s = b THEN <<m3>> ELSE <<>>]
Hit(s, kind, i, tag) == [session |-> s, kind |-> kind, index |-> i, tag |-> tag]
Answers ==
  [x \in Queries |->
     IF x = q THEN <<Hit(a, "message", 2, None), Hit(b, "name", None, None), Hit(a, "tag", None, t)>>
     ELSE <<Hit(b, "messages", 1, None)>>]
AtSession == {HOME_ROUTE, sessionRouteWithSection(a, "tags")}
AtSearch == {Route("search", None, "sessions", q)}
Anywhere == AtSession \cup AtSearch
=============================================================================
