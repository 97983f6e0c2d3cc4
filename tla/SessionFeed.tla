------------------------------ MODULE SessionFeed ------------------------------
(***************************************************************************)
(* useSessions: the session list of the page, loaded with retries, the      *)
(* poll for the end of the first indexing, and the sessions that changed.   *)
(* The server's list is its version; 0 is the empty list.                   *)
(***************************************************************************)
EXTENDS EventStream

CONSTANTS
  Ids,            \* session ids a change can name
  MaxVersion,     \* bound: versions of the server's list
  MaxCalls,       \* bound: requests of a kind under way
  Retries,        \* the retries fetchSessions and fetchStatus ask for
  Ordered         \* TRUE: requests are served and answered in the order they are sent

ASSUME FeedAssumption ==
  /\ MaxVersion \in Nat /\ MaxCalls \in Nat \ {0}
  /\ Retries \in Nat /\ Ordered \in BOOLEAN

VARIABLES
  version, indexed,                  \* the server
  sessions, loading, indexing, liveChangedIds,
  loads, polls, polling,             \* requests under way; the interval is set
  heard                              \* history: the version of the last update handled

feedVars == <<version, indexed, sessions, loading, indexing, liveChangedIds,
              loads, polls, polling, heard>>

\* A request: the tries that failed, and its answer once the server gave one.
NewCall == [tries |-> 0, reply |-> Waiting]

FeedInit ==
  /\ version = 0 /\ indexed = FALSE
  /\ sessions = 0 /\ loading = TRUE /\ indexing = None /\ liveChangedIds = {}
  /\ loads = <<NewCall>> /\ polls = <<NewCall>> /\ polling = TRUE
  /\ heard = 0

FreshPage ==
  /\ sessions' = 0 /\ loading' = TRUE /\ indexing' = None /\ liveChangedIds' = {}
  /\ loads' = <<NewCall>> /\ polls' = <<NewCall>> /\ polling' = TRUE
  /\ heard' = 0 /\ UNCHANGED <<version, indexed>>

loadSessions ==
  /\ Len(loads) < MaxCalls
  /\ loads' = Append(loads, NewCall)
  /\ loading' = TRUE

-----------------------------------------------------------------------------
(* The server.                                                              *)

ListChanges ==
  /\ version < MaxVersion
  /\ version' = version + 1
  /\ \E ids \in SUBSET Ids :
       Send(<<SSEEvent("update", version')>>
            \o (IF ids = {} THEN <<>> ELSE <<SSEEvent("session-changed", ids)>>))
  /\ UNCHANGED <<pid, up, serverPid, pagePid, trouble, indexed, sessions, loading, indexing,
                 liveChangedIds, loads, polls, polling, heard>>

IndexingEnds ==
  /\ ~indexed /\ indexed' = TRUE
  /\ Send(<<SSEEvent("update", version)>>)
  /\ UNCHANGED <<pid, up, serverPid, pagePid, trouble, version, sessions, loading, indexing,
                 liveChangedIds, loads, polls, polling, heard>>

-----------------------------------------------------------------------------
(* Requests.                                                                *)

\* Mutant of Retry: the first failure is final.
Retry_Never(c) == [c EXCEPT !.reply = Failed]

\* withRetry: a failed try is repeated, the last one fails the request.
Retry(c) == IF c.tries < Retries THEN [tries |-> c.tries + 1, reply |-> Waiting]
                                 ELSE [c EXCEPT !.reply = Failed]

Turn(calls, i) == Ordered => \A j \in 1..(i - 1) : calls[j].reply # Waiting

\* The server takes a request up, or the try is lost.
ServeLoad ==
  \E i \in DOMAIN loads :
    /\ loads[i].reply = Waiting /\ Turn(loads, i)
    /\ loads' = [loads EXCEPT ![i].reply = version]
    /\ UNCHANGED <<streamVars, version, indexed, sessions, loading, indexing, liveChangedIds, polls, polling, heard>>

ServePoll ==
  \E i \in DOMAIN polls :
    /\ polls[i].reply = Waiting /\ Turn(polls, i)
    /\ polls' = [polls EXCEPT ![i].reply = ~indexed]
    /\ UNCHANGED <<streamVars, version, indexed, sessions, loading, indexing, liveChangedIds, loads, polling, heard>>

\* A lost answer is a lost try too; in order, only what was not served is lost.
Losable(c) == c.reply # Failed /\ (Ordered => c.reply = Waiting)
LoseTry ==
  /\ Trouble
  /\ \/ \E i \in DOMAIN loads : /\ Losable(loads[i]) /\ loads' = [loads EXCEPT ![i] = Retry(@)] /\ UNCHANGED polls
     \/ \E i \in DOMAIN polls : /\ Losable(polls[i]) /\ polls' = [polls EXCEPT ![i] = Retry(@)] /\ UNCHANGED loads
  /\ UNCHANGED <<exceptTrouble, version, indexed, sessions, loading, indexing, liveChangedIds, polling, heard>>

\* The answers of loadSessions come in any order; a failure empties the list.
LoadAnswer ==
  \E i \in DOMAIN loads :
    /\ loads[i].reply # Waiting /\ (Ordered => i = 1)
    /\ sessions' = IF loads[i].reply = Failed THEN 0 ELSE loads[i].reply
    /\ loading' = FALSE
    /\ loads' = RemoveAt(loads, i)
    /\ UNCHANGED <<streamVars, version, indexed, indexing, liveChangedIds, polls,
                   polling, heard>>

\* Mutant of PollAnswer: the end of the indexing ends the polls and loads nothing.
PollAnswer_NoReload ==
  \E i \in DOMAIN polls :
    /\ polls[i].reply # Waiting
    /\ polls' = RemoveAt(polls, i)
    /\ indexing' = IF polls[i].reply = Failed THEN indexing ELSE polls[i].reply
    /\ polling' = FALSE
    /\ UNCHANGED <<streamVars, version, indexed, sessions, liveChangedIds, loading,
                   loads, heard>>

\* check: a failure changes nothing, the end of the indexing ends the polls.
PollAnswer ==
  \E i \in DOMAIN polls :
    /\ polls[i].reply # Waiting
    /\ Ordered => i = 1
    /\ polls' = RemoveAt(polls, i)
    /\ IF polls[i].reply = Failed THEN UNCHANGED <<indexing, polling, loading, loads>>
       ELSE /\ indexing' = polls[i].reply
            /\ IF polls[i].reply THEN UNCHANGED <<polling, loading, loads>>
               ELSE polling' = FALSE /\ loadSessions
    /\ UNCHANGED <<streamVars, version, indexed, sessions, liveChangedIds, heard>>

PollTick ==
  /\ polling /\ Len(polls) < MaxCalls
  /\ polls' = Append(polls, NewCall)
  /\ UNCHANGED <<streamVars, version, indexed, sessions, loading, indexing, liveChangedIds, loads, polling, heard>>

-----------------------------------------------------------------------------
(* The callbacks of useSSE.                                                 *)

HandleEvent ==
  LET e == Head(queue) IN
    /\ queue # <<>> /\ Take(e)
    /\ IF Reload(e) THEN FreshPage
       ELSE /\ CASE e.type = "update" -> loadSessions /\ heard' = e.arg
                                         /\ UNCHANGED <<liveChangedIds>>
                 [] e.type = "session-changed" -> liveChangedIds' = e.arg
                                         /\ UNCHANGED <<loads, loading, heard>>
                 [] OTHER -> UNCHANGED <<loads, loading, heard, liveChangedIds>>
            /\ UNCHANGED <<version, indexed, sessions, indexing, polls, polling>>

ackSessionChange(id) ==
  /\ id \in liveChangedIds
  /\ liveChangedIds' = liveChangedIds \ {id}
  /\ UNCHANGED <<streamVars, version, indexed, sessions, loading, indexing, loads,
                 polls, polling, heard>>

FeedStream == (Connect \/ ConnectionLost) /\ UNCHANGED feedVars

FeedNext ==
  \/ ListChanges \/ IndexingEnds
  \/ ServeLoad \/ ServePoll \/ LoseTry \/ LoadAnswer \/ PollAnswer \/ PollTick
  \/ HandleEvent \/ \E id \in Ids : ackSessionChange(id)
  \/ FeedStream
===============================================================================
