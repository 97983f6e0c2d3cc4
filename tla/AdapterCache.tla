------------------------------ MODULE AdapterCache ------------------------------
(***************************************************************************)
(* The session cache of the adapters that read one file per session           *)
(* (internal/ingest/cache.go): passes list through it, and the poller asks it    *)
(* when the files changed last, while agents write and delete files.  With        *)
(* claude-code and codex that question empties an old cache; with pi it rebuilds  *)
(* it beside the passes.  A file is known by when it was written: its content and *)
(* its modification time are that number until somebody reads them, one after     *)
(* the other.  Passes exclude each other (RefreshPipeline).                       *)
(***************************************************************************)
EXTENDS Integers, FiniteSets, FiniteSetsExt

CONSTANTS
  Ids,        \* sessions, a file each
  MaxChanges, \* how often agents write or delete a file
  MaxPasses,  \* passes that no poll asked for: the boot pass, source handlers
  NoEntry

VARIABLES
  kind,      \* "emptied" (claude-code, codex) or "rebuilt" (pi)
  named,     \* whether files are called by the ids of their sessions
  disk,      \* when the file of a session was written, 0 if there is none
  clock,     \* when the disk changed last; stamps are even, and time goes on between
  entries,   \* cache.entries
  lastMod,   \* cache.lastMod
  poll,      \* the poller's tick, with the LastModified it is in
  seen,      \* poller.lastMod of the source
  pass,      \* the pass that has p.mu, with the ListSessions it is in
  listed,    \* what the last pass got, 0 for a session it did not get
  changes, passes,
  mixed      \* history: a file changed while what the cache holds was read

setting == <<kind, named>>
cacheVars == <<entries, lastMod>>
diskVars == <<disk, clock>>
bounds == <<changes, passes>>
adapterVars == <<setting, diskVars, cacheVars, poll, seen, pass, listed, bounds, mixed>>

Unseen == -1
Empty == [i \in Ids |-> NoEntry]
Present == {i \in Ids : disk[i] # 0}
Now == clock + 1
Held(es) == {i \in Ids : es[i] # NoEntry}
Entry(ver, stamp, key) == [ver |-> ver, stamp |-> stamp, key |-> key]
Entries == [ver : Nat, stamp : Nat, key : {"file", "session"}]
LatestOf(stamps) == Max(stamps \cup {0})

ASSUME CacheAssumption ==
  IsFiniteSet(Ids) /\ MaxChanges \in Nat /\ MaxPasses \in Nat /\ NoEntry \notin Entries

RestingPoll == [at |-> "idle", todo |-> {}, base |-> 0, ts |-> 0, found |-> [i \in Ids |-> 0],
                old |-> Empty, new |-> Empty, id |-> NoEntry, ver |-> 0, met |-> FALSE]
RestingPass == [at |-> "idle", todo |-> {}, new |-> Empty, id |-> NoEntry, first |-> 0,
                met |-> FALSE, polled |-> FALSE]

CacheInit ==
  /\ kind \in {"emptied", "rebuilt"}
  /\ named \in BOOLEAN /\ (kind = "emptied" => named)
  /\ disk \in [Ids -> {0, 2}] /\ clock = 2
  /\ entries = Empty /\ lastMod = 0
  /\ poll = RestingPoll /\ seen = Unseen
  /\ pass = RestingPass /\ listed = [i \in Ids |-> 0]
  /\ changes = 0 /\ passes = 0
  /\ mixed = FALSE

-----------------------------------------------------------------------------
(* The agents *)

Change(i, when) ==
  /\ changes < MaxChanges /\ changes' = changes + 1
  /\ clock' = clock + 2
  /\ disk' = [disk EXCEPT ![i] = when]
  /\ poll' = [poll EXCEPT !.met = TRUE]
  /\ pass' = [pass EXCEPT !.met = TRUE]
  /\ UNCHANGED <<setting, cacheVars, seen, listed, passes, mixed>>

AgentWrites(i) == Change(i, clock + 2)
AgentDeletes(i) == disk[i] # 0 /\ Change(i, 0)

-----------------------------------------------------------------------------
(* The cache *)

ReplaceEntries(es) ==
  /\ entries' = es
  /\ lastMod' = LatestOf({es[i].stamp : i \in Held(es)})

-----------------------------------------------------------------------------
(* The poller: tick, and LastModified of the adapter *)

\* The newest file found; an empty directory is as new as the time of asking.
Found == IF \A i \in Ids : poll.found[i] = 0 THEN Now
                                             ELSE LatestOf({poll.found[i] : i \in Ids})

\* tick goes on with the answer: the first is only recorded, a newer one asks for a
\* pass, and without one there may be sessions to be watched for their liveness.
Observe(ts) ==
  LET moved == seen = Unseen \/ ts > seen IN
  /\ seen' = IF moved THEN ts ELSE seen
  /\ \E watched \in BOOLEAN :
       poll' = [RestingPoll EXCEPT
                  !.at = IF (moved /\ seen # Unseen) \/ watched THEN "due" ELSE "idle"]

BeginPoll ==
  /\ poll.at = "idle"
  /\ poll' = [RestingPoll EXCEPT !.at = "walk", !.todo = Present, !.base = lastMod]
  /\ UNCHANGED <<setting, diskVars, cacheVars, seen, pass, listed, bounds, mixed>>

WalkFile(i) ==
  /\ poll.at = "walk" /\ i \in poll.todo
  /\ poll' = [poll EXCEPT !.todo = @ \ {i}, !.found[i] = disk[i]]
  /\ UNCHANGED <<setting, diskVars, cacheVars, seen, pass, listed, bounds, mixed>>

Walked == poll.at = "walk" /\ poll.todo = {}

\* Mutant: an old cache is left to the next load.
EmptyIfOlder_Keeps ==
  /\ kind = "emptied" /\ Walked
  /\ Observe(Found)
  /\ UNCHANGED <<setting, diskVars, cacheVars, pass, listed, bounds, mixed>>

\* claude-code, codex: a cache that was older when LastModified began is emptied.
EmptyIfOlder ==
  /\ kind = "emptied" /\ Walked
  /\ IF Found > poll.base THEN ReplaceEntries(Empty) /\ mixed' = FALSE
                          ELSE UNCHANGED <<cacheVars, mixed>>
  /\ Observe(Found)
  /\ UNCHANGED <<setting, diskVars, pass, listed, bounds>>

\* pi, ScanAndRebuild: nothing to do, or the files to go through.
ScanKeeps ==
  /\ kind = "rebuilt" /\ Walked
  /\ Found <= lastMod
  /\ Observe(Found)
  /\ UNCHANGED <<setting, diskVars, cacheVars, pass, listed, bounds, mixed>>

BeginRebuild ==
  /\ kind = "rebuilt" /\ Walked
  /\ Found > lastMod
  /\ poll' = [poll EXCEPT !.at = "older", !.ts = Found, !.todo = {i \in Ids : poll.found[i] # 0}]
  /\ UNCHANGED <<setting, diskVars, cacheVars, seen, pass, listed, bounds, mixed>>

\* The entries are taken under a lock of their own.
TakeOldEntries ==
  /\ poll.at = "older"
  /\ poll' = [poll EXCEPT !.at = "rebuild", !.old = entries, !.met = @ \/ mixed]
  /\ UNCHANGED <<setting, diskVars, cacheVars, seen, pass, listed, bounds, mixed>>

\* Entries are looked up by the name of the file; a load of pi has put them under the
\* ids of their sessions.
Unchanged(i) == /\ poll.old[i] # NoEntry /\ poll.old[i].key = "file"
                /\ poll.found[i] <= poll.old[i].stamp

KeepEntry(i) ==
  /\ poll.at = "rebuild" /\ i \in poll.todo
  /\ Unchanged(i)
  /\ poll' = [poll EXCEPT !.todo = @ \ {i}, !.new[i] = poll.old[i]]
  /\ UNCHANGED <<setting, diskVars, cacheVars, seen, pass, listed, bounds, mixed>>

\* parseFn reads the file, and asks for its time after that; a file that is gone by
\* the one or the other is left out.
ParseChanged(i) ==
  /\ poll.at = "rebuild" /\ i \in poll.todo
  /\ ~Unchanged(i)
  /\ poll' = IF disk[i] = 0
               THEN [poll EXCEPT !.todo = @ \ {i}]
               ELSE [poll EXCEPT !.at = "stat", !.todo = @ \ {i}, !.id = i, !.ver = disk[i]]
  /\ UNCHANGED <<setting, diskVars, cacheVars, seen, pass, listed, bounds, mixed>>

StatParsed ==
  /\ poll.at = "stat"
  /\ poll' = [poll EXCEPT !.at = "rebuild", !.id = NoEntry, !.ver = 0,
                !.new[poll.id] = IF disk[poll.id] = 0 THEN NoEntry
                                 ELSE Entry(poll.ver, disk[poll.id], "file")]
  /\ UNCHANGED <<setting, diskVars, cacheVars, seen, pass, listed, bounds, mixed>>

FinishRebuild ==
  /\ poll.at = "rebuild" /\ poll.todo = {}
  /\ ReplaceEntries(poll.new)
  /\ mixed' = poll.met
  /\ Observe(poll.ts)
  /\ UNCHANGED <<setting, diskVars, pass, listed, bounds>>

-----------------------------------------------------------------------------
(* The pass: ListSessions of the adapter *)

BeginPass(polled) ==
  /\ pass.at = "idle"
  /\ IF polled THEN poll.at = "due" /\ poll' = [poll EXCEPT !.at = "pass"] /\ UNCHANGED passes
               ELSE passes < MaxPasses /\ passes' = passes + 1 /\ UNCHANGED poll
  /\ pass' = [RestingPass EXCEPT !.at = "list", !.polled = polled]
  /\ UNCHANGED <<setting, diskVars, cacheVars, seen, listed, changes, mixed>>

\* The list that List returns; with it the pass is through with this adapter.
TakeList ==
  /\ listed' = [i \in Ids |-> IF entries[i] = NoEntry THEN 0 ELSE entries[i].ver]
  /\ pass' = RestingPass
  /\ poll' = IF pass.polled THEN [poll EXCEPT !.at = "idle"] ELSE poll

ListCached ==
  /\ pass.at = "list" /\ entries # Empty
  /\ TakeList
  /\ UNCHANGED <<setting, diskVars, cacheVars, seen, bounds, mixed>>

BeginLoad ==
  /\ pass.at = "list" /\ entries = Empty
  /\ pass' = [pass EXCEPT !.at = "load", !.todo = Present, !.met = FALSE]
  /\ UNCHANGED <<setting, diskVars, cacheVars, poll, seen, listed, bounds, mixed>>

\* claude-code and codex parse a file and then ask for its time, pi the other way
\* round; in between it may be written.
ReadFirst(i) ==
  /\ pass.at = "load" /\ i \in pass.todo
  /\ pass' = IF disk[i] = 0
               THEN [pass EXCEPT !.todo = @ \ {i}]
               ELSE [pass EXCEPT !.at = "second", !.todo = @ \ {i}, !.id = i, !.first = disk[i]]
  /\ UNCHANGED <<setting, diskVars, cacheVars, poll, seen, listed, bounds, mixed>>

\* A file that is gone has the time of its last message; pi leaves it out.
ReadSecond ==
  LET now == disk[pass.id] IN
  /\ pass.at = "second"
  /\ pass' = [pass EXCEPT !.at = "load", !.id = NoEntry, !.first = 0,
       !.new[pass.id] =
          IF kind = "emptied"
            THEN Entry(pass.first, IF now = 0 THEN pass.first ELSE now, "file")
            ELSE IF now = 0 THEN NoEntry
                 ELSE Entry(now, pass.first, IF named THEN "file" ELSE "session")]
  /\ UNCHANGED <<setting, diskVars, cacheVars, poll, seen, listed, bounds, mixed>>

StoreLoaded ==
  /\ pass.at = "load" /\ pass.todo = {}
  /\ ReplaceEntries(pass.new)
  /\ mixed' = pass.met
  /\ pass' = [pass EXCEPT !.at = "relist"]
  /\ UNCHANGED <<setting, diskVars, poll, seen, listed, bounds>>

\* What was stored is listed anew, whatever it is by now.
ListLoaded ==
  /\ pass.at = "relist"
  /\ TakeList
  /\ UNCHANGED <<setting, diskVars, cacheVars, seen, bounds, mixed>>

-----------------------------------------------------------------------------

PollerStep ==
  \/ BeginPoll \/ EmptyIfOlder \/ ScanKeeps
  \/ BeginRebuild \/ TakeOldEntries \/ StatParsed \/ FinishRebuild
  \/ \E i \in Ids : WalkFile(i) \/ KeepEntry(i) \/ ParseChanged(i)
  \/ BeginPass(TRUE)

PassStep ==
  \/ ListCached \/ BeginLoad \/ ReadSecond \/ StoreLoaded \/ ListLoaded
  \/ \E i \in Ids : ReadFirst(i)

CacheNext ==
  \/ \E i \in Ids : AgentWrites(i) \/ AgentDeletes(i)
  \/ PollerStep
  \/ PassStep
  \/ BeginPass(FALSE)

\* The goroutine of the poller and that of a pass go on; a pass that waits for
\* p.mu gets it (sync.Mutex is starvation-free).
CacheFairness ==
  /\ SF_adapterVars(BeginPass(TRUE))
  /\ WF_adapterVars(PollerStep) /\ WF_adapterVars(PassStep)

CacheSpec == CacheInit /\ [][CacheNext]_adapterVars /\ CacheFairness

-----------------------------------------------------------------------------
(* Properties *)

\* When LastModified leaves the cache as it is, the cache has every file it saw as it
\* saw it, unless files changed while they were read for it.
KeptIsCurrent ==
  (Walked /\ Found <= lastMod /\ ~mixed) =>
    \A i \in Ids : (disk[i] = poll.found[i] /\ disk[i] # 0)
                     => entries[i] # NoEntry /\ entries[i].ver = disk[i]

\* After a write that the poller has not seen, and no other change, the sessions
\* listed are those on disk, as they are there; what was deleted before is gone.
UnseenWrite(c) == /\ clock = c /\ \E i \in Ids : disk[i] = c
                  /\ seen # Unseen /\ seen < c
ListSettles ==
  \A c \in {2 * n : n \in 1 .. MaxChanges + 1} :
    UnseenWrite(c) ~> (listed = disk \/ clock # c \/ mixed)

\* What a pass is served are the files as they are on disk: a kept cache is current,
\* and what is written leads to a list that shows it.
FilesAreServed == []KeptIsCurrent /\ ListSettles
=============================================================================
