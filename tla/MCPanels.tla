--------------------------------- MODULE MCPanels --------------------------------
(***************************************************************************)
(* An instance of Panels for TLC: five sessions of two repositories, one of them  *)
(* a sub-agent, in a main and a linked worktree, or outside git; five files.      *)
(***************************************************************************)
EXTENDS Panels

Sess(id, parent, repo, workspace, worktree, branch, updated, status) ==
  [id |-> id, parent |-> parent, repo |-> repo, cwd |-> worktree, workspace |-> workspace,
   worktree |-> worktree, branch |-> branch, updated |-> updated, status |-> status]

MCLists ==
  LET main == Sess(1, Nil, "A", "W", "W", "x", 1, "done")
      side == Sess(2, Nil, "A", "W", "W", "y", 2, "active")
      linked == Sess(3, Nil, "A", "W", "L", "x", 3, "archived")
      child == Sess(4, 1, "A", "W", "W", "x", 4, "active")
      plain == Sess(5, Nil, "B", Nil, "W", "", 2, "done")
  IN {<<main, side, linked, child, plain>>, <<main, child, plain>>, <<plain>>}

\* Three sessions in every place, on every branch, of every parent, 9 not listed, and
\* families deeper than the limit, and in a circle.
MCSamples ==
  LET place == {<<Nil, "W">>, <<"W", "W">>, <<"W", "L">>}
      branch == {"", "x", "main"}
      any(id, parents, times) ==
        {Sess(id, p, IF id = 2 THEN "B" ELSE "A", at[1], at[2], b, t, "active") :
           p \in parents, at \in place, b \in branch, t \in times}
      family(p2, p3, p4) ==
        << Sess(4, p4, "A", Nil, "W", "", 1, "active"), Sess(1, Nil, "A", Nil, "W", "", 2, "active"),
           Sess(3, p3, "A", Nil, "W", "", 3, "active"), Sess(2, p2, "A", Nil, "W", "", 4, "active") >>
  IN {family(p2, p3, p4) : p2, p3, p4 \in 1..4} \cup
     {<<a, b, c>> : a \in any(1, {Nil}, {2}), b \in any(2, {Nil, 1}, {1}),
                    c \in any(3, {Nil, 1, 2, 9}, {1, 3})}

MCAccesses == << [path |-> <<2, 1, 1>>, kind |-> "edit"], [path |-> <<3>>, kind |-> "read"],
                 [path |-> <<1, 1>>, kind |-> "read"], [path |-> <<2, 2>>, kind |-> "delete"],
                 [path |-> <<2, 1, 2>>, kind |-> "read"] >>
=============================================================================
