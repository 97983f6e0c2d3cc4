------------------------------- MODULE Indexer -------------------------------
(***************************************************************************)
(* The search indexer (internal/server/indexer.go), the tables it writes   *)
(* (search_index and index_state, internal/store/store.go) and the handlers*)
(* that edit scratch files and reindex them (server.go).                   *)
(*                                                                         *)
(* One pass runs at a time (RefreshPipeline proves it); scratch handlers   *)
(* run at any time, and so do the agents.  A session's content is its      *)
(* title, its plan, the number of its messages (an agent only appends) and *)
(* its scratch files.  The stored hash is modelled by the content it was   *)
(* taken over; the search table is a bag of rows.                          *)
(*                                                                         *)
(* `due` says that a full pass is on its way: it is the poller's promise.  *)
(***************************************************************************)
EXTENDS Integers, FiniteSets

CONSTANTS
  Ids,        \* sessions
  Titles,     \* titles a session may have
  MaxMsgs,    \* bound: messages of a session
  MaxPlans,   \* bound: versions of its plan, 0 for none
  Files,      \* scratch files a session may have
  Texts,      \* what they may hold
  Empty,      \* the empty text
  NoFile,     \* a file that does not exist
  Savers,     \* handlers that edit scratch files
  MaxEdits,   \* bound: renames and scratch edits made
  MaxTrouble, \* bound: failed reads and writes, and restarts of the process
  NoHash      \* no row in index_state

ASSUME IndexerAssumption ==
  /\ MaxMsgs \in Nat /\ MaxPlans \in Nat
  /\ MaxEdits \in Nat /\ MaxTrouble \in Nat
  /\ Empty \in Texts /\ NoFile \notin Texts
  /\ Ids # {} /\ Titles # {}

VARIABLES
  title,   \* title[i]: as the cached session has it
  plan,    \* plan[i]: version of the plan
  said,    \* said[i]: number of messages
  files,   \* files[i][f]: the scratch file's text, or NoFile
  rows,    \* rows[i]: bag of search_index rows of session i
  hash,    \* hash[i]: content whose hash index_state holds, or NoHash
  pass,    \* the locals of the indexing pass
  saver,   \* saver[h]: the locals of scratch handler h
  due,     \* a full pass is on its way
  doubt,   \* history: what may have parted rows[i] from hash[i]
  edits, faults, crashes

contentVars == <<title, plan, said, files>>
tableVars == <<rows, hash, doubt>>
bounds == <<edits, faults, crashes>>
indexVars == <<contentVars, tableVars, pass, saver, due, bounds>>

-----------------------------------------------------------------------------
(* Types *)

FileState == [Files -> Texts \union {NoFile}]
Content == [title : Titles, plan : 0 .. MaxPlans, said : 0 .. MaxMsgs, files : FileState]

Row == [part : {"name"}, title : Titles]
         \union [part : {"plan"}, plan : 1 .. MaxPlans]
         \union [part : {"message"}, n : 1 .. MaxMsgs]
         \union [part : {"scratch"}, file : Files, text : Texts]

Blank == [f \in Files |-> NoFile]
NoContent == [title |-> CHOOSE t \in Titles : TRUE, plan |-> 0, said |-> 0, files |-> Blank]

RestingPass ==
  [at |-> "idle", todo |-> {}, titles |-> [i \in Ids |-> CHOOSE t \in Titles : TRUE],
   id |-> CHOOSE i \in Ids : TRUE, read |-> NoContent, left |-> {}]
RestingSaver ==
  [at |-> "idle", id |-> CHOOSE i \in Ids : TRUE, left |-> {}, read |-> NoContent]

IndexInit ==
  /\ title = [i \in Ids |-> CHOOSE t \in Titles : TRUE]
  /\ plan = [i \in Ids |-> 0]
  /\ said = [i \in Ids |-> 0]
  /\ files = [i \in Ids |-> Blank]
  /\ rows = [i \in Ids |-> [r \in Row |-> 0]]
  /\ hash = [i \in Ids |-> NoHash]
  /\ pass = RestingPass
  /\ saver = [h \in Savers |-> RestingSaver]
  /\ due = TRUE
  /\ doubt = [i \in Ids |-> {}]
  /\ edits = 0 /\ faults = 0 /\ crashes = 0

-----------------------------------------------------------------------------
(* Rows *)

AgentRows(c) ==
  {[part |-> "name", title |-> c.title]}
    \union {[part |-> "plan", plan |-> v] : v \in {c.plan} \ {0}}
    \union {[part |-> "message", n |-> k] : k \in 1 .. c.said}

\* indexScratchChunk: a file without content has no row.
HasText(fs) == {f \in Files : fs[f] \notin {NoFile, Empty}}
ScratchRow(f, text) == [part |-> "scratch", file |-> f, text |-> text]
ScratchRows(fs) == {ScratchRow(f, fs[f]) : f \in HasText(fs)}

RowsOf(c) == [r \in Row |-> IF r \in AgentRows(c) \union ScratchRows(c.files) THEN 1 ELSE 0]

Added(bag, set) == [r \in Row |-> IF r \in set THEN bag[r] + 1 ELSE bag[r]]
Without(bag, part) == [r \in Row |-> IF r.part = part THEN 0 ELSE bag[r]]

\* The content of session i now.
Current(i) == [title |-> title[i], plan |-> plan[i], said |-> said[i], files |-> files[i]]

\* A call fails for good: an adapter error, or SQLITE_BUSY three times over.
Fault == faults + crashes < MaxTrouble /\ faults' = faults + 1

-----------------------------------------------------------------------------
(* The agents and the user *)

AgentSays(i) ==
  /\ said[i] < MaxMsgs
  /\ said' = [said EXCEPT ![i] = @ + 1]
  /\ due' = TRUE
  /\ UNCHANGED <<title, plan, files, tableVars, pass, saver, bounds>>

AgentPlans(i) ==
  /\ plan[i] < MaxPlans
  /\ plan' = [plan EXCEPT ![i] = @ + 1]
  /\ due' = TRUE
  /\ UNCHANGED <<title, said, files, tableVars, pass, saver, bounds>>

\* A display name is set or cleared; no pass follows.
Rename(i, t) ==
  /\ t # title[i]
  /\ edits < MaxEdits
  /\ edits' = edits + 1
  /\ title' = [title EXCEPT ![i] = t]
  /\ UNCHANGED <<plan, said, files, tableVars, pass, saver, due, faults, crashes>>

-----------------------------------------------------------------------------
(* IndexSessions *)

\* catalog.Sessions(): the list, with the titles it has now.
BeginPass ==
  /\ pass.at = "idle"
  /\ pass' = [pass EXCEPT !.at = "next", !.todo = Ids, !.titles = title]
  /\ due' = FALSE
  /\ UNCHANGED <<contentVars, tableVars, saver, bounds>>

\* On to the next session, if any.  Locals are dropped to save states.
Proceed(todo) ==
  pass' = IF todo = {} THEN RestingPass
          ELSE [RestingPass EXCEPT !.at = "next", !.todo = todo, !.titles = pass.titles]

\* Messages of the session; one without messages is skipped.
ReadMessages(i) ==
  /\ pass.at = "next"
  /\ i \in pass.todo
  /\ IF said[i] = 0
       THEN Proceed(pass.todo \ {i})
       ELSE pass' = [pass EXCEPT !.at = "plan", !.todo = @ \ {i}, !.id = i,
                                 !.read = [title |-> pass.titles[i], plan |-> 0,
                                           said |-> said[i], files |-> Blank]]
  /\ UNCHANGED <<contentVars, tableVars, saver, due, bounds>>

MessagesFail(i) ==
  /\ pass.at = "next"
  /\ i \in pass.todo
  /\ Fault
  /\ Proceed(pass.todo \ {i})
  /\ UNCHANGED <<contentVars, tableVars, saver, due, edits, crashes>>

\* Plan and scratch files; a failed read leaves that part empty.
ReadPlan ==
  /\ pass.at = "plan"
  /\ \/ pass' = [pass EXCEPT !.at = "files", !.read.plan = plan[pass.id]] /\ UNCHANGED faults
     \/ pass' = [pass EXCEPT !.at = "files"] /\ Fault
  /\ UNCHANGED <<contentVars, tableVars, saver, due, edits, crashes>>

ReadFiles ==
  /\ pass.at = "files"
  /\ \/ pass' = [pass EXCEPT !.at = "compare", !.read.files = files[pass.id]] /\ UNCHANGED faults
     \/ pass' = [pass EXCEPT !.at = "compare"] /\ Fault
  /\ UNCHANGED <<contentVars, tableVars, saver, due, edits, crashes>>

\* Mutant of Compare: the hash leaves the messages out.
Compare_NoMessages ==
  /\ pass.at = "compare"
  /\ IF hash[pass.id] # NoHash /\ [hash[pass.id] EXCEPT !.said = pass.read.said] = pass.read
       THEN Proceed(pass.todo)
       ELSE pass' = [pass EXCEPT !.at = "clear"]
  /\ UNCHANGED <<contentVars, tableVars, saver, due, bounds>>

\* An equal hash ends the work on this session.
Compare ==
  /\ pass.at = "compare"
  /\ IF hash[pass.id] = pass.read
       THEN Proceed(pass.todo)
       ELSE pass' = [pass EXCEPT !.at = "clear"]
  /\ UNCHANGED <<contentVars, tableVars, saver, due, bounds>>

StateFails ==
  /\ pass.at \in {"compare", "clear"}
  /\ Fault
  /\ Proceed(pass.todo)
  /\ UNCHANGED <<contentVars, tableVars, saver, due, edits, crashes>>

\* ClearSessionIndex.  index_state keeps its old hash until StoreHash.
ClearSession ==
  /\ pass.at = "clear"
  /\ rows' = [rows EXCEPT ![pass.id] = [r \in Row |-> 0]]
  /\ doubt' = [doubt EXCEPT ![pass.id] = {"torn"}]
  /\ pass' = [pass EXCEPT !.at = "agent"]
  /\ UNCHANGED <<contentVars, hash, saver, due, bounds>>

\* `lost` writes fail; the pass logs them and goes on.
Writing(i, set, lost) ==
  /\ rows' = [rows EXCEPT ![i] = Added(@, set \ lost)]
  /\ IF lost = {}
       THEN UNCHANGED <<doubt, faults>>
       ELSE Fault /\ doubt' = [doubt EXCEPT ![i] = @ \union {"lost"}]

\* Name, plan and message rows.  Nobody else writes or clears these parts but
\* another pass, so the loop is one step.
WriteAgentRows ==
  /\ pass.at = "agent"
  /\ \E lost \in SUBSET AgentRows(pass.read) : Writing(pass.id, AgentRows(pass.read), lost)
  /\ pass' = [pass EXCEPT !.at = IF pass.read.files = Blank THEN "store" ELSE "unscratch"]
  /\ UNCHANGED <<contentVars, hash, saver, due, edits, crashes>>

\* ClearSessionChunkType(scratch), because a handler may have written since the
\* first clear; its failure is only logged.
ClearScratch ==
  /\ pass.at = "unscratch"
  /\ \/ rows' = [rows EXCEPT ![pass.id] = Without(@, "scratch")] /\ UNCHANGED faults
     \/ Fault /\ UNCHANGED rows
  /\ pass' = [pass EXCEPT !.at = "scratch", !.left = HasText(pass.read.files)]
  /\ UNCHANGED <<contentVars, hash, doubt, saver, due, edits, crashes>>

WriteScratch(f) ==
  LET row == ScratchRow(f, pass.read.files[f]) IN
  /\ pass.at = "scratch"
  /\ f \in pass.left
  /\ \E lost \in SUBSET {row} : Writing(pass.id, {row}, lost)
  /\ pass' = [pass EXCEPT !.left = @ \ {f}]
  /\ UNCHANGED <<contentVars, hash, saver, due, edits, crashes>>

\* Mutant of StoreHash: the hash is taken over what the content is by now.
StoreHash_Reread ==
  LET i == pass.id IN
  /\ pass.at = "store" \/ (pass.at = "scratch" /\ pass.left = {})
  /\ hash' = [hash EXCEPT ![i] = Current(i)]
  /\ doubt' = [doubt EXCEPT ![i] = @ \ {"torn"}]
  /\ Proceed(pass.todo)
  /\ UNCHANGED <<contentVars, rows, saver, due, bounds>>

\* UpdateIndexState, whether or not every row was written.
StoreHash ==
  LET i == pass.id IN
  /\ pass.at = "store" \/ (pass.at = "scratch" /\ pass.left = {})
  /\ \/ /\ hash' = [hash EXCEPT ![i] = pass.read]
        /\ doubt' = [doubt EXCEPT ![i] = @ \ {"torn"}]
        /\ UNCHANGED faults
     \/ Fault /\ UNCHANGED <<hash, doubt>>
  /\ Proceed(pass.todo)
  /\ UNCHANGED <<contentVars, rows, saver, due, edits, crashes>>

-----------------------------------------------------------------------------
(* The scratch handlers *)

\* Create, update, rename or delete a file in the store.
SaveFile(h, i, f, text) ==
  /\ saver[h] = RestingSaver
  /\ edits < MaxEdits
  /\ edits' = edits + 1
  /\ files[i][f] # text
  /\ files' = [files EXCEPT ![i][f] = text]
  /\ saver' = [saver EXCEPT ![h].at = "list", ![h].id = i]
  /\ UNCHANGED <<title, plan, said, tableVars, pass, due, faults, crashes>>

\* ReindexSessionScratch: the files it is going to index.
SaverLists(h) ==
  /\ saver[h].at = "list"
  /\ saver' = [saver EXCEPT ![h].at = "clear", ![h].read.files = files[saver[h].id]]
  /\ UNCHANGED <<contentVars, tableVars, pass, due, bounds>>

\* A failed list, clear, lookup or read ends it; the store error is not reported.
SaverFails(h) ==
  /\ saver[h].at \in {"list", "clear", "reread", "relist"}
  /\ Fault
  /\ saver' = [saver EXCEPT ![h] = RestingSaver]
  /\ UNCHANGED <<contentVars, tableVars, pass, due, edits, crashes>>

Spoil(i) == doubt' = [doubt EXCEPT ![i] = @ \union {"saved"}]

SaverClears(h) ==
  LET i == saver[h].id IN
  /\ saver[h].at = "clear"
  /\ rows' = [rows EXCEPT ![i] = Without(@, "scratch")]
  /\ Spoil(i)
  /\ saver' = [saver EXCEPT ![h].at = "write", ![h].left = HasText(saver[h].read.files)]
  /\ UNCHANGED <<contentVars, hash, pass, due, bounds>>

SaverWrites(h, f) ==
  LET i == saver[h].id
      row == ScratchRow(f, saver[h].read.files[f])
  IN  /\ saver[h].at = "write"
      /\ f \in saver[h].left
      /\ \/ rows' = [rows EXCEPT ![i] = Added(@, {row})] /\ UNCHANGED faults
         \/ Fault /\ UNCHANGED rows
      /\ Spoil(i)
      /\ saver' = [saver EXCEPT ![h].left = @ \ {f}]
      /\ UNCHANGED <<contentVars, hash, pass, due, edits, crashes>>

\* updateIndexState reads the session anew ...
SaverRereads(h) ==
  LET i == saver[h].id IN
  /\ saver[h].at = "write"
  /\ saver[h].left = {}
  /\ saver' = [saver EXCEPT ![h].at = "relist",
                            ![h].read = [Current(i) EXCEPT !.files = Blank]]
  /\ UNCHANGED <<contentVars, tableVars, pass, due, bounds>>

\* ... then its files, and stores the hash of what it has read, although the
\* name, plan and message rows are still those of the last pass.
SaverRelists(h) ==
  /\ saver[h].at = "relist"
  /\ saver' = [saver EXCEPT ![h].at = "store", ![h].read.files = files[saver[h].id]]
  /\ UNCHANGED <<contentVars, tableVars, pass, due, bounds>>

SaverStores(h) ==
  LET i == saver[h].id IN
  /\ saver[h].at = "store"
  /\ \/ hash' = [hash EXCEPT ![i] = saver[h].read] /\ Spoil(i) /\ UNCHANGED faults
     \/ Fault /\ UNCHANGED <<hash, doubt>>
  /\ saver' = [saver EXCEPT ![h] = RestingSaver]
  /\ UNCHANGED <<contentVars, rows, pass, due, edits, crashes>>

-----------------------------------------------------------------------------
(* The system *)

\* The process dies and starts again: the tables stay, and the boot pass comes.
Crash ==
  /\ faults + crashes < MaxTrouble
  /\ crashes' = crashes + 1
  /\ pass' = RestingPass
  /\ saver' = [h \in Savers |-> RestingSaver]
  /\ due' = TRUE
  /\ UNCHANGED <<contentVars, tableVars, edits, faults>>

PassStep ==
  \/ \E i \in Ids : ReadMessages(i) \/ MessagesFail(i)
  \/ ReadPlan \/ ReadFiles \/ Compare \/ StateFails \/ ClearSession
  \/ WriteAgentRows \/ ClearScratch \/ StoreHash
  \/ \E f \in Files : WriteScratch(f)

SaverStep(h) ==
  \/ SaverLists(h) \/ SaverFails(h) \/ SaverClears(h)
  \/ \E f \in Files : SaverWrites(h, f)
  \/ SaverRereads(h) \/ SaverRelists(h) \/ SaverStores(h)

IndexNext ==
  \/ \E i \in Ids : AgentSays(i) \/ AgentPlans(i) \/ \E t \in Titles : Rename(i, t)
  \/ BeginPass \/ PassStep
  \/ \E h \in Savers :
       \/ \E i \in Ids, f \in Files, text \in Texts \union {NoFile} : SaveFile(h, i, f, text)
       \/ SaverStep(h)
  \/ Crash

\* A pass that is due starts, and goroutines run on.
IndexSpec ==
  /\ IndexInit /\ [][IndexNext]_indexVars
  /\ WF_indexVars(due /\ BeginPass) /\ WF_indexVars(PassStep)
  /\ \A h \in Savers : WF_indexVars(SaverStep(h))

-----------------------------------------------------------------------------
(* Properties *)

\* Whatever fails, crashes or overlaps, the name, plan and message rows of a
\* session are those of one reading of it, and none is there twice: a search
\* never finds a message twice, or a session under two names.
OneReading ==
  \A i \in Ids :
    \E c \in {[title |-> t, plan |-> v, said |-> n, files |-> Blank] :
                t \in Titles, v \in 0 .. MaxPlans, n \in 0 .. MaxMsgs} :
      \A r \in Row : r.part # "scratch" =>
        rows[i][r] <= (IF r \in AgentRows(c) THEN 1 ELSE 0)

\* The stored hash is that of the content in the table, unless a rewrite was
\* torn, lost rows, or met a scratch handler: the hash "skips re-indexing
\* sessions whose content has not changed" (contentHash) and nothing else.
HashTellsTruth ==
  \A i \in Ids : (doubt[i] = {} /\ hash[i] # NoHash) => rows[i] = RowsOf(hash[i])

\* The rows are one reading of the session, each once, and its hash is theirs.
IndexIsSound == OneReading /\ HashTellsTruth

\* Messages that no stored hash knows are searchable after a pass, crashes or
\* not, if nothing fails and no scratch handler stores a hash for them.
Unknown(i, n) == said[i] = n /\ (hash[i] = NoHash \/ hash[i].said # n)
Searchable(i, n) == \A k \in 1 .. n : rows[i][[part |-> "message", n |-> k]] = 1
MessagesBecomeSearchable ==
  \A i \in Ids, n \in 1 .. MaxMsgs :
    Unknown(i, n) ~> (Searchable(i, n) \/ said[i] # n \/ "saved" \in doubt[i] \/ faults > 0)
=============================================================================
