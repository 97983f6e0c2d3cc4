---------------------------------- MODULE Shelf ----------------------------------
(***************************************************************************)
(* The bookmarks of a page (useBookmarks, BookmarkPanel), the sources of the  *)
(* agent settings (AgentSettingsTab) and the reset (AboutSettingsTab).        *)
(***************************************************************************)
EXTENDS Requests

CONSTANTS
  Refs,            \* what can be bookmarked: a message, a tool call, a plan
  Paths            \* directories that can be sources; all are discoverable

VARIABLES
  srvBookmarks, bookmarks,
  srvSources, sources,
  discoveredSources, discovered,   \* the suggestions; discoveredRef
  failedAdds,                      \* adds that are shown as failed; the others are under way
  removing, agentFilter,           \* removingId; the agent whose sources are listed
  resetStep                        \* the reset is being confirmed

shelfVars == <<srvBookmarks, bookmarks, srvSources, sources, discoveredSources, discovered,
               failedAdds, removing, agentFilter, resetStep>>
bookmarkVars == <<srvBookmarks, bookmarks>>
sourceVars == <<srvSources, sources, discoveredSources, discovered, failedAdds, removing,
                agentFilter>>

ShelfOp(kind, arg) == [kind |-> kind, arg |-> arg]

ShelfInit ==
  /\ srvBookmarks = {} /\ bookmarks = {}
  /\ srvSources \in {{}, Paths} /\ sources = {} /\ discoveredSources = {} /\ discovered = FALSE
  /\ failedAdds = {} /\ removing = None /\ agentFilter = None /\ resetStep = FALSE

-----------------------------------------------------------------------------
(* The server: a bookmark of something bookmarked is removed.               *)

Toggle(set, x) == IF x \in set THEN set \ {x} ELSE set \cup {x}

ServeShelf ==
  \E i \in ToServe :
    LET op == calls[i].op IN
    /\ Serve(i, CASE op.kind = "bookmarks" -> srvBookmarks
                  [] op.kind = "sources"   -> srvSources
                  [] op.kind = "discover"  -> Paths \ srvSources
                  [] OTHER                 -> "done")
    /\ srvBookmarks' = CASE op.kind = "bookmark"   -> Toggle(srvBookmarks, op.arg)
                         [] op.kind = "unbookmark" -> srvBookmarks \ {op.arg}
                         [] op.kind = "reset"      -> {}
                         [] OTHER                  -> srvBookmarks
    /\ srvSources' = CASE op.kind \in {"add", "addDiscovered"} -> srvSources \cup {op.arg}
                       [] op.kind = "remove" -> srvSources \ {op.arg}
                       [] op.kind = "reset"  -> {}
                       [] OTHER              -> srvSources
    /\ UNCHANGED <<acts, missed, bookmarks, sources, discoveredSources, discovered, failedAdds,
                   removing, agentFilter, resetStep>>

-----------------------------------------------------------------------------
(* Bookmarks.                                                               *)

\* handleBookmark toggles on the server, whatever the list of the page says;
\* handleBookmarkDelete is offered for what is listed.  Both load the list then.
BookmarkAct ==
  /\ Act
  /\ \/ \E r \in Refs : Send(ShelfOp("bookmark", r))
     \/ \E r \in bookmarks : Send(ShelfOp("unbookmark", r))
  /\ UNCHANGED <<faults, missed, shelfVars>>

AfterBookmark(done) == <<ShelfOp("bookmarks", None)>>

BookmarkAnswer(i) ==
  /\ IF calls[i].op.kind = "bookmarks"
     THEN /\ bookmarks' = IF ok(i) THEN calls[i].answer ELSE {}
          /\ missed' = (missed \/ ~ok(i)) /\ Answered(i, <<>>)
     ELSE Answered(i, AfterBookmark(ok(i))) /\ UNCHANGED <<bookmarks, missed>>
  /\ UNCHANGED <<sources, discoveredSources, discovered, failedAdds, removing, agentFilter,
                 resetStep>>

-----------------------------------------------------------------------------
(* Sources.                                                                 *)

shelfRest == UNCHANGED <<faults, missed, bookmarkVars, srvSources, sources, discovered, resetStep>>

\* handleAdd: the path typed by the user.
handleAdd ==
  /\ Act /\ \E p \in Paths : Send(ShelfOp("add", p))
  /\ UNCHANGED <<discoveredSources, failedAdds, removing, agentFilter>> /\ shelfRest

\* handleAddDiscovered: the suggestion goes at once and comes back on a failure.
handleAddDiscovered ==
  /\ Act
  /\ \E p \in discoveredSources :
       discoveredSources' = discoveredSources \ {p} /\ Send(ShelfOp("addDiscovered", p))
  /\ UNCHANGED <<failedAdds, removing, agentFilter>> /\ shelfRest

handleRemove ==
  /\ Act
  /\ \E p \in sources \ {removing} : removing' = p /\ Send(ShelfOp("remove", p))
  /\ UNCHANGED <<discoveredSources, failedAdds, agentFilter>> /\ shelfRest

dismissPending ==
  /\ \E p \in failedAdds : failedAdds' = failedAdds \ {p}
  /\ UNCHANGED <<calls, acts, discoveredSources, removing, agentFilter>> /\ shelfRest

\* loadSources discovers, once, when there is no source; `arg` says what waits for
\* it, and only a removal still has something to do.
Waited(op) == removing' = IF op.arg = "removal" THEN None ELSE removing

SourcesAnswer(i) ==
  LET op == calls[i].op
      list == IF ok(i) THEN calls[i].answer ELSE {}
      discovers == list = {} /\ ~discovered
  IN
  /\ sources' = list /\ discovered' = (discovered \/ discovers)
  /\ Answered(i, IF discovers THEN <<ShelfOp("discover", op.arg)>> ELSE <<>>)
  /\ IF discovers THEN UNCHANGED removing ELSE Waited(op)
  /\ missed' = (missed \/ ~ok(i))
  /\ UNCHANGED <<discoveredSources, failedAdds>>

DiscoverAnswer(i) ==
  /\ discoveredSources' = IF ok(i) THEN calls[i].answer ELSE {}
  /\ Waited(calls[i].op) /\ Answered(i, <<>>)
  /\ UNCHANGED <<sources, discovered, failedAdds, missed>>

Suggested(op, done) ==
  IF op.kind = "add" /\ done THEN discoveredSources \ {op.arg}
  ELSE IF op.kind = "addDiscovered" /\ ~done THEN discoveredSources \cup {op.arg}
  ELSE discoveredSources

SourceChanged(i) ==
  LET op == calls[i].op
      adding == op.kind \in {"add", "addDiscovered"}
  IN
  /\ discoveredSources' = Suggested(op, ok(i))
  /\ failedAdds' = IF adding /\ ~ok(i) THEN failedAdds \cup {op.arg} ELSE failedAdds
  /\ Answered(i, IF ~adding THEN <<ShelfOp("sources", "removal")>>
                 ELSE IF ok(i) THEN <<ShelfOp("sources", "add")>> ELSE <<>>)
  /\ missed' = (missed \/ (adding /\ ~ok(i)))
  /\ UNCHANGED <<sources, discovered, removing>>

SourceAnswer(i) ==
  /\ CASE calls[i].op.kind = "sources"  -> SourcesAnswer(i)
       [] calls[i].op.kind = "discover" -> DiscoverAnswer(i)
       [] OTHER                         -> SourceChanged(i)
  /\ UNCHANGED <<bookmarks, agentFilter, resetStep>>

\* Chooses which agent's sources are listed.
FilterSources ==
  /\ Act /\ sources # {} /\ agentFilter' \in {None, "agent"} \ {agentFilter}
  /\ UNCHANGED <<calls, discoveredSources, failedAdds, removing>> /\ shelfRest

-----------------------------------------------------------------------------
(* The reset: asked for, confirmed by a word and sent, or cancelled.        *)

Reset ==
  /\ Act
  /\ \/ ~resetStep /\ resetStep' = TRUE /\ UNCHANGED calls
     \/ resetStep /\ resetStep' = FALSE /\ UNCHANGED calls
     \/ /\ resetStep /\ \A i \in DOMAIN calls : calls[i].op.kind # "reset"
        /\ Send(ShelfOp("reset", None)) /\ UNCHANGED resetStep
  /\ UNCHANGED <<faults, missed, bookmarkVars, sourceVars>>

\* The event of the reset reloads the page, which is not followed further.
ResetAnswer(i) ==
  /\ resetStep' = FALSE /\ Answered(i, <<>>) /\ missed' = TRUE
  /\ UNCHANGED <<bookmarks, sources, discoveredSources, discovered, failedAdds, removing,
                 agentFilter>>

ShelfAnswer ==
  \E i \in ToAnswer :
    /\ CASE calls[i].op.kind \in {"bookmarks", "bookmark", "unbookmark"} -> BookmarkAnswer(i)
         [] calls[i].op.kind = "reset" -> ResetAnswer(i)
         [] OTHER                      -> SourceAnswer(i)
    /\ UNCHANGED <<faults, acts, srvBookmarks, srvSources>>

ShelfNext ==
  \/ ServeShelf \/ ShelfAnswer
  \/ LoseRequest /\ UNCHANGED <<acts, missed, shelfVars>>
  \/ BookmarkAct \/ FilterSources \/ Reset
  \/ handleAdd \/ handleAddDiscovered \/ handleRemove \/ dismissPending
=============================================================================
