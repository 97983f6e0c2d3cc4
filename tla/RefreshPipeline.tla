--------------------------- MODULE RefreshPipeline --------------------------
(***************************************************************************)
(* The session refresh pipeline: refreshSessions (internal/server/hub.go), *)
(* Pipeline.Refresh and RefreshLiveness (state.go), the Poller (poller.go) *)
(* and the HTTP handlers that start passes or change the registry under    *)
(* them (server.go), composed with the SessionHub they all share.          *)
(*                                                                         *)
(* A caller is a goroutine that calls Refresh or RefreshLiveness: the      *)
(* poller, or a job (a `go p.Refresh(...)`; the first job is the one       *)
(* NewState starts).  A pass holds p.mu from "list" to its end, and holds  *)
(* h.mu only inside the steps that read or replace the cache.  What the    *)
(* index and classification steps compute is in Indexer and Notifier; here *)
(* they are the time a pass takes after it has published, and the lookups  *)
(* they make through the hub.                                              *)
(***************************************************************************)
EXTENDS SessionHub

CONSTANTS
  Jobs,       \* goroutines started with `go p.Refresh`
  Boot,       \* the job that NewState starts
  Poller,     \* the poller goroutine
  Admins,     \* HTTP handlers that change the sources
  Ops,        \* the kinds of change they may make
  MaxOps,     \* bound: changes made
  MaxFaults,  \* bound: failed adapter or store calls
  Probes,     \* clients that poll GET /status
  Free        \* no holder of p.mu

Callers == Jobs \union {Poller}

ASSUME PipelineAssumption ==
  /\ Boot \in Jobs /\ Poller \notin Jobs
  /\ Free \notin Callers
  /\ Ops \subseteq {"add", "remove", "update", "reset"}
  /\ MaxOps \in Nat /\ MaxFaults \in Nat

VARIABLES
  lock,       \* holder of p.mu
  pc,         \* pc[p]: where caller p is
  pass,       \* pass[p]: the locals of p's pass
  indexed,    \* p.indexed
  published,  \* history: the list that the last pass published
  wiped,      \* history: a reset has emptied the cache since
  lastMod,    \* poller.lastMod, Unseen where the map has no key
  pollerLive, \* poller.liveCount
  scan,       \* the locals of the poller's current tick
  admin,      \* admin[a]: where source handler a is
  configured, \* the sources table
  ops,        \* changes made so far
  faults,     \* calls failed so far
  asked       \* clients waiting for the answer to GET /status

passVars == <<lock, pc, pass, indexed, published, wiped>>
pollVars == <<lastMod, pollerLive, scan>>
adminVars == <<admin, configured, ops>>
vars == <<hubVars, passVars, pollVars, adminVars, faults, asked>>

Unseen == -1

-----------------------------------------------------------------------------
(* Types *)

Absent == [upd |-> 0, active |-> FALSE]
Previous == [Ids -> [upd : Stamp, active : BOOLEAN]]

Pass == [kind : {"full", "liveness"}, adapters : Registry, todo : SUBSET Sources,
         prev : Previous, list : Seq(Entry), live : Nat,
         ids : SUBSET Ids, trans : SUBSET Ids]

NewPass(kind) ==
  [kind |-> kind, adapters |-> [s \in Sources |-> 0], todo |-> {},
   prev |-> [i \in Ids |-> Absent], list |-> <<>>, live |-> 0,
   ids |-> {}, trans |-> {}]

CallerState ==
  {"idle", "scan", "wait", "list", "publish", "announce", "classify"}

\* Where p.mu is held.
InPass == {"list", "publish", "announce", "classify"}

Step == {"idle", "store", "add", "close"}

TypeOK ==
  /\ HubTypeOK
  /\ lock \in Callers \union {Free}
  /\ pc \in [Callers -> CallerState]
  /\ pass \in [Callers -> Pass]
  /\ indexed \in BOOLEAN
  /\ published \in Seq(Entry)
  /\ wiped \in BOOLEAN
  /\ lastMod \in [Sources -> Stamp \union {Unseen}]
  /\ pollerLive \in Nat
  /\ scan \in [todo : SUBSET Sources, adapters : Registry, changed : BOOLEAN]
  /\ admin \in [Admins -> [op : Ops \union {"none"}, step : Step,
                           src : Sources, enabled : BOOLEAN]]
  /\ configured \in [Sources -> {"absent", "disabled", "enabled"}]
  /\ ops \in 0 .. MaxOps
  /\ faults \in 0 .. MaxFaults
  /\ asked \subseteq Probes

NoScan == [todo |-> {}, adapters |-> [s \in Sources |-> 0], changed |-> FALSE]
Resting == [op |-> "none", step |-> "idle",
            src |-> CHOOSE s \in Sources : TRUE, enabled |-> FALSE]

Init ==
  /\ HubInit
  /\ lock = Free
  /\ pc = [p \in Callers |-> IF p = Boot THEN "wait" ELSE "idle"]
  /\ pass = [p \in Callers |-> NewPass("full")]
  /\ indexed = FALSE
  /\ published = <<>>
  /\ wiped = FALSE
  /\ lastMod = [s \in Sources |-> Unseen]
  /\ pollerLive = 0
  /\ scan = NoScan
  /\ admin = [a \in Admins |-> Resting]
  /\ configured = [s \in Sources |-> IF adapters[s] # 0 THEN "enabled" ELSE "absent"]
  /\ ops = 0
  /\ faults = 0
  /\ asked = {}

\* A call on an adapter fails if the adapter is closed, if it so chooses, and
\* otherwise only out of the fault budget.
CallFails(instance) ==
  \/ instance \in closed /\ UNCHANGED faults
  \/ faults < MaxFaults /\ faults' = faults + 1

-----------------------------------------------------------------------------
(* refreshSessions *)

\* The snapshot of the previous list, keyed by id: the last duplicate wins.
PreviousOf(list) ==
  [i \in Ids |-> IF Has(list, i)
                   THEN [upd |-> list[LastAt(list, i)].upd,
                         active |-> list[LastAt(list, i)].active]
                   ELSE Absent]

\* i and its ancestors, as far as they are reachable through listed sessions.
Lineage(list, i) ==
  LET up[n \in 0 .. Cardinality(Ids)] ==
        IF n = 0 THEN {i}
        ELSE up[n - 1] \union ({Parent[j] : j \in up[n - 1] \intersect IdsOf(list)}
                                 \ {NoParent})
  IN  up[Cardinality(Ids)]

\* propagateActive: a session is active when a listed descendant is.
Propagate(list) ==
  [k \in DOMAIN list |->
     [list[k] EXCEPT !.active =
        \E j \in DOMAIN list : list[j].active /\ list[k].id \in Lineage(list, list[j].id)]]

\* Mutant of Shown: no filter.
Shown_All(list) == list

\* The filter on empty Copilot sessions, and the overrides of AllSessionNames.
\* (The order of a list means nothing: adapters are ranged over in map order.)
Shown(list) ==
  LET kept == SetToSeq({k \in DOMAIN list : list[k].shown})
  IN  [n \in DOMAIN kept |-> list[kept[n]]]

Titled(list) ==
  [k \in DOMAIN list |->
     IF names[list[k].id] = Native THEN list[k]
     ELSE [list[k] EXCEPT !.title = names[list[k].id]]]

\* Sessions that are new or whose UpdatedAt differs, then the parents of
\* changed children, in one sweep over the list.
ChangedIds(prev, list) ==
  {i \in IdsOf(list) : First(list, i).upd # prev[i].upd}
WithParents(ids, list) ==
  {i \in Ids : i \in FoldLeft(LAMBDA acc, e : IF e.id \in acc THEN acc \union {Parent[e.id]} ELSE acc,
                             ids, list)}

\* Sessions known before whose status differs.
Transitions(prev, list) ==
  {i \in IdsOf(list) : prev[i].upd # 0 /\ First(list, i).active # prev[i].active}

\* Mutant of BeginPass: p.mu is taken, but not waited for.
BeginPass_Unlocked(p) ==
  /\ pc[p] = "wait"
  /\ lock' = p
  /\ pc' = [pc EXCEPT ![p] = "list"]
  /\ pass' = [pass EXCEPT ![p] =
               [NewPass(pass[p].kind) EXCEPT !.adapters = adapters,
                                             !.todo = Registered(adapters),
                                             !.prev = PreviousOf(sessions)]]
  /\ UNCHANGED <<hubVars, indexed, published, wiped, pollVars,
                 adminVars, faults, asked>>

\* p.mu.Lock(), then the read-locked snapshot that opens refreshSessions.
BeginPass(p) ==
  /\ pc[p] = "wait"
  /\ lock = Free
  /\ lock' = p
  /\ pc' = [pc EXCEPT ![p] = "list"]
  /\ pass' = [pass EXCEPT ![p] =
               [NewPass(pass[p].kind) EXCEPT !.adapters = adapters,
                                             !.todo = Registered(adapters),
                                             !.prev = PreviousOf(sessions)]]
  /\ UNCHANGED <<hubVars, indexed, published, wiped, pollVars,
                 adminVars, faults, asked>>

\* ListSessions of one adapter, and applyLiveness on each session it returns.
ListSource(p, s) ==
  /\ pc[p] = "list"
  /\ s \in pass[p].todo
  /\ pass' = [pass EXCEPT ![p].todo = @ \ {s},
                          ![p].list = @ \o Listing(s),
                          ![p].live = @ + LiveCount(Listing(s))]
  /\ UNCHANGED <<hubVars, lock, pc, indexed, published, wiped, pollVars, adminVars, faults, asked>>

\* ListSessions fails: the source contributes nothing to this pass.
ListFails(p, s) ==
  /\ pc[p] = "list"
  /\ s \in pass[p].todo
  /\ CallFails(pass[p].adapters[s])
  /\ pass' = [pass EXCEPT ![p].todo = @ \ {s}]
  /\ UNCHANGED <<hubVars, lock, pc, indexed, published, wiped, pollVars, adminVars, asked>>

\* Locals are dropped when they are dead, here and below, to save states.
\* Propagate, filter, read the overrides from the store, and diff.
Digest(p) ==
  LET list == Titled(Shown(Propagate(pass[p].list)))
      ids == ChangedIds(pass[p].prev, list)
  IN  /\ pc[p] = "list"
      /\ pass[p].todo = {}
      /\ pc' = [pc EXCEPT ![p] = "publish"]
      /\ pass' = [pass EXCEPT ![p].adapters = [s \in Sources |-> 0],
                              ![p].prev = [i \in Ids |-> Absent],
                              ![p].list = list,
                              ![p].ids = WithParents(ids, list),
                              ![p].trans = Transitions(pass[p].prev, list)]
      /\ UNCHANGED <<hubVars, lock, indexed, published, wiped, pollVars, adminVars, faults, asked>>

\* The write-locked end of refreshSessions: h.sessions = allSessions.
Publish(p) ==
  /\ pc[p] = "publish"
  /\ sessions' = pass[p].list
  /\ published' = pass[p].list
  /\ wiped' = FALSE
  /\ pc' = [pc EXCEPT ![p] = "announce"]
  /\ UNCHANGED <<agentVars, registryVars, names, reader, namer, lock, pass,
                 indexed, pollVars, adminVars, faults, asked>>

-----------------------------------------------------------------------------
(* Pipeline *)

\* p.mu.Unlock() and the return to the caller; the poller keeps the live count.
EndPass(p, count) ==
  /\ lock' = Free
  /\ pc' = [pc EXCEPT ![p] = "idle"]
  /\ pass' = [pass EXCEPT ![p] = NewPass("full")]
  /\ pollerLive' = IF p = Poller THEN count ELSE pollerLive

\* Refresh: "update", then "session-changed" with the changed ids; then
\* IndexSessions runs (module Indexer) and leaves these variables alone.
AnnounceFull(p) ==
  /\ pc[p] = "announce"
  /\ pass[p].kind = "full"
  /\ pc' = [pc EXCEPT ![p] = "classify"]
  /\ UNCHANGED <<hubVars, lock, pass, indexed, published, wiped, pollVars,
                 adminVars, faults, asked>>

\* RefreshLiveness: nothing at all when the live count has not moved ...
LivenessUnmoved(p) ==
  /\ pc[p] = "announce"
  /\ pass[p].kind = "liveness"
  /\ pass[p].live = pollerLive
  /\ EndPass(p, pass[p].live)
  /\ UNCHANGED <<hubVars, indexed, published, wiped, lastMod, scan, adminVars, faults, asked>>

\* ... else "update", and classification of the transitions only.
AnnounceLiveness(p) ==
  /\ pc[p] = "announce"
  /\ pass[p].kind = "liveness"
  /\ pass[p].live # pollerLive
  /\ pc' = [pc EXCEPT ![p] = "classify"]
  /\ pass' = [pass EXCEPT ![p].ids = pass[p].trans]
  /\ UNCHANGED <<hubVars, lock, indexed, published, wiped, pollVars,
                 adminVars, faults, asked>>

\* ClassifyChanges looks every id up through Resolve, whose fallback appends
\* the sessions that are not in the cache (a hidden parent, a wiped list).
Classify(p) ==
  LET absent == {i \in Ids : i \in pass[p].ids /\ ~Has(sessions, i) /\ upd[i] > 0
                               /\ adapters[SourceOf[i]] # 0}
      order == SetToSeq(absent)
  IN  /\ pc[p] = "classify"
      /\ sessions' = sessions \o [k \in DOMAIN order |-> Fetch(order[k], names[order[k]])]
      /\ indexed' = (indexed \/ pass[p].kind = "full")
      /\ EndPass(p, pass[p].live)
      /\ UNCHANGED <<agentVars, registryVars, names, reader, namer, published,
                     wiped, lastMod, scan, adminVars, faults,
                     asked>>

-----------------------------------------------------------------------------
(* Poller *)

\* The timer fires; tick copies the registry.
BeginTick ==
  /\ pc[Poller] = "idle"
  /\ pc' = [pc EXCEPT ![Poller] = "scan"]
  /\ scan' = [todo |-> Registered(adapters), adapters |-> adapters, changed |-> FALSE]
  /\ UNCHANGED <<hubVars, lock, pass, indexed, published, wiped, lastMod, pollerLive, adminVars, faults, asked>>

\* LastModified of one source; the first observation is only recorded.
PollSource(s) ==
  LET known == lastMod[s] # Unseen
      moved == ~known \/ clock[s] > lastMod[s]
  IN  /\ pc[Poller] = "scan"
      /\ s \in scan.todo
      /\ lastMod' = IF moved THEN [lastMod EXCEPT ![s] = clock[s]] ELSE lastMod
      /\ scan' = [scan EXCEPT !.todo = @ \ {s}, !.changed = @ \/ (moved /\ known)]
      /\ UNCHANGED <<hubVars, passVars, pollerLive, adminVars, faults, asked>>

PollFails(s) ==
  /\ pc[Poller] = "scan"
  /\ s \in scan.todo
  /\ CallFails(scan.adapters[s])
  /\ scan' = [scan EXCEPT !.todo = @ \ {s}]
  /\ UNCHANGED <<hubVars, passVars, lastMod, pollerLive, adminVars, asked>>

\* After the scan: Refresh if `full`, else RefreshLiveness if `liveness`.
EndScanWith(full, liveness) ==
  /\ pc[Poller] = "scan"
  /\ scan.todo = {}
  /\ scan' = NoScan
  /\ pc' = [pc EXCEPT ![Poller] = IF full \/ liveness THEN "wait" ELSE "idle"]
  /\ pass' = [pass EXCEPT ![Poller] =
               NewPass(IF liveness /\ ~full THEN "liveness" ELSE "full")]
  /\ UNCHANGED <<hubVars, lock, indexed, published, wiped, lastMod,
                 pollerLive, adminVars, faults, asked>>

\* Mutants of EndScan: a change is acted on only while something is live; no
\* liveness pass.
EndScan_WhileLive == EndScanWith(scan.changed /\ pollerLive > 0, pollerLive > 0)

EndScan == EndScanWith(scan.changed, pollerLive > 0)

-----------------------------------------------------------------------------
(* The source handlers and the reset handler *)

\* `go p.Refresh(...)`.
Spawn(j) ==
  /\ pc[j] = "idle"
  /\ pc' = [pc EXCEPT ![j] = "wait"]
  /\ UNCHANGED <<lock, pass, indexed, published, wiped>>

\* A request arrives.  Remove and update start by removing the adapter; add
\* starts with the store; reset starts with the store.
BeginOp(a, op, s, enabled) ==
  /\ admin[a] = Resting
  /\ ops < MaxOps
  /\ ops' = ops + 1
  /\ \/ /\ op \in {"remove", "update"}
        /\ RemoveAdapter(s)
        /\ admin' = [admin EXCEPT ![a] = [op |-> op, step |-> "store",
                                          src |-> s, enabled |-> enabled]]
        /\ UNCHANGED configured
     \/ /\ op = "add"
        /\ admin' = [admin EXCEPT ![a] = [op |-> op, step |-> "add",
                                          src |-> s, enabled |-> enabled]]
        /\ configured' = [configured EXCEPT ![s] = IF enabled THEN "enabled" ELSE "disabled"]
        /\ UNCHANGED hubVars
     \/ /\ op = "reset"
        /\ admin' = [admin EXCEPT ![a] = [op |-> op, step |-> "close",
                                          src |-> s, enabled |-> FALSE]]
        /\ configured' = [t \in Sources |-> "absent"]
        /\ names' = [i \in Ids |-> Native]
        /\ UNCHANGED <<agentVars, sessions, registryVars, reader, namer>>
  /\ UNCHANGED <<passVars, pollVars, faults, asked>>

\* Mutant of RemoveStored: no refresh follows.
RemoveStored_NoRefresh(a, j) ==
  /\ admin[a].step = "store" /\ admin[a].op = "remove"
  /\ configured' = [configured EXCEPT ![admin[a].src] = "absent"]
  /\ admin' = [admin EXCEPT ![a] = Resting]
  /\ UNCHANGED <<hubVars, passVars, pollVars, ops, faults, asked>>

\* store.RemoveSource succeeds: the refresh goroutine starts.
RemoveStored(a, j) ==
  /\ admin[a].step = "store" /\ admin[a].op = "remove"
  /\ configured' = [configured EXCEPT ![admin[a].src] = "absent"]
  /\ admin' = [admin EXCEPT ![a] = Resting]
  /\ Spawn(j)
  /\ UNCHANGED <<hubVars, pollVars, ops, faults, asked>>

\* store.RemoveSource or UpdateSource fails: the handler returns, no refresh.
StoreFails(a) ==
  /\ admin[a].step = "store"
  /\ faults < MaxFaults
  /\ faults' = faults + 1
  /\ admin' = [admin EXCEPT ![a] = Resting]
  /\ UNCHANGED <<hubVars, passVars, pollVars, configured, ops, asked>>

\* store.UpdateSource touches only a row that exists.
UpdateStored(a) ==
  LET s == admin[a].src IN
  /\ admin[a].step = "store" /\ admin[a].op = "update"
  /\ configured' = IF configured[s] = "absent" THEN configured
                   ELSE [configured EXCEPT ![s] =
                           IF admin[a].enabled THEN "enabled" ELSE "disabled"]
  /\ admin' = [admin EXCEPT ![a].step = "add"]
  /\ UNCHANGED <<hubVars, passVars, pollVars, ops, faults, asked>>

\* The end of add and update: the adapter, if the source is to be enabled (and,
\* for an update, still in the table), then the refresh goroutine.
AddStored(a, j) ==
  LET s == admin[a].src IN
  /\ admin[a].step = "add"
  /\ IF admin[a].enabled /\ (admin[a].op = "update" => configured[s] # "absent")
       THEN AddAdapter(s)
       ELSE UNCHANGED hubVars
  /\ admin' = [admin EXCEPT ![a] = Resting]
  /\ Spawn(j)
  /\ UNCHANGED <<pollVars, configured, ops, faults, asked>>

\* The same when CreateAdapter, or the read of the row before it, fails.
AddFails(a, j) ==
  /\ admin[a].step = "add"
  /\ admin[a].enabled
  /\ faults < MaxFaults
  /\ faults' = faults + 1
  /\ admin' = [admin EXCEPT ![a] = Resting]
  /\ Spawn(j)
  /\ UNCHANGED <<hubVars, pollVars, configured, ops, asked>>

\* hub.CloseAdapters() and the "reset" event; no refresh follows.
ResetHub(a) ==
  /\ admin[a].step = "close"
  /\ CloseAdapters
  /\ wiped' = TRUE
  /\ admin' = [admin EXCEPT ![a] = Resting]
  /\ UNCHANGED <<lock, pc, pass, indexed, published, pollVars,
                 configured, ops, faults, asked>>

-----------------------------------------------------------------------------
(* GET /status: Pipeline.Indexed takes p.mu *)

StatusAsk(q) ==
  /\ q \notin asked
  /\ asked' = asked \union {q}
  /\ UNCHANGED <<hubVars, passVars, pollVars, adminVars, faults>>

StatusReply(q) ==
  /\ q \in asked
  /\ lock = Free
  /\ asked' = asked \ {q}
  /\ UNCHANGED <<hubVars, passVars, pollVars, adminVars, faults>>

-----------------------------------------------------------------------------
(* The system *)

PassStep(p) ==
  \/ \E s \in Sources : ListSource(p, s) \/ ListFails(p, s)
  \/ Digest(p) \/ Publish(p)
  \/ AnnounceFull(p) \/ LivenessUnmoved(p) \/ AnnounceLiveness(p)
  \/ Classify(p)

PollerStep ==
  \/ BeginTick
  \/ \E s \in Sources : PollSource(s) \/ PollFails(s)
  \/ EndScan

AdminStep(a) ==
  \/ \E j \in Jobs : RemoveStored(a, j) \/ AddStored(a, j) \/ AddFails(a, j)
  \/ UpdateStored(a) \/ StoreFails(a) \/ ResetHub(a)

AdminRequest(a) ==
  \E op \in Ops, s \in Sources, enabled \in BOOLEAN : BeginOp(a, op, s, enabled)

ReaderStep(r) == ResolveHit(r) \/ ResolveMiss(r) \/ ResolveAppend(r)
ReaderRequest(r) == \E i \in Ids : ResolveLookup(r, i)

NamerRequest(n) ==
  \E i \in Renamable : ClearNameStore(n, i) \/ \E t \in Titles : SetNameStore(n, i, t)

\* Steps of the hub and of the agents leave the rest alone.
HubStep ==
  /\ \/ \E i \in Ids : AgentWrites(i) \/ SessionAges(i)
     \/ \E r \in Readers : ReaderRequest(r) \/ ReaderStep(r)
     \/ \E n \in Namers : NamerRequest(n) \/ NameCache(n)
  /\ UNCHANGED <<passVars, pollVars, adminVars, faults, asked>>

Next ==
  \/ HubStep
  \/ \E p \in Callers : BeginPass(p) \/ PassStep(p)
  \/ PollerStep
  \/ \E a \in Admins : AdminRequest(a) \/ AdminStep(a)
  \/ \E q \in Probes : StatusAsk(q) \/ StatusReply(q)

\* Every goroutine that can run runs, the poll timer keeps firing, and p.mu is
\* granted to every waiter in the end (a sync.Mutex hands over to a waiter it
\* has starved for a millisecond).  Nothing is assumed of agents and requests.
ReaderTurn(r) == ReaderStep(r) /\ UNCHANGED <<passVars, pollVars, adminVars, faults, asked>>
NamerTurn(n) == NameCache(n) /\ UNCHANGED <<passVars, pollVars, adminVars, faults, asked>>
Fairness ==
  /\ \A p \in Callers : SF_vars(BeginPass(p)) /\ WF_vars(PassStep(p))
  /\ WF_vars(PollerStep)
  /\ \A a \in Admins : WF_vars(AdminStep(a))
  /\ \A r \in Readers : WF_vars(ReaderTurn(r))
  /\ \A n \in Namers : WF_vars(NamerTurn(n))
  /\ \A q \in Probes : SF_vars(StatusReply(q))

Spec == Init /\ [][Next]_vars /\ Fairness

-----------------------------------------------------------------------------
(* Safety *)

\* A pass is exclusive from its snapshot to its last classification: "index
\* passes are provably non-overlapping" (state.go, Pipeline).
PassesDoNotOverlap == \A p \in Callers : (pc[p] \in InPass) <=> (lock = p)

\* What a pass announces, indexes and classifies is what it has published: until
\* it ends, its list is still the head of the cache, whatever lookups append and
\* renames retitle, unless a reset has thrown the cache away (state.go, Refresh:
\* "the hub cache that /api/sessions serves is already populated").
SameSession(e, f) == e.id = f.id /\ e.upd = f.upd /\ e.active = f.active
HeadOf(list, cache) ==
  /\ DOMAIN list \subseteq DOMAIN cache
  /\ \A k \in DOMAIN list : SameSession(list[k], cache[k])
PassReadsItsOwnList ==
  \A p \in Callers :
    (pc[p] \in {"announce", "classify"} /\ ~wiped) => HeadOf(pass[p].list, sessions)

\* A pass never publishes an older state of a session than the pass before it
\* did, although it lists outside h.mu and publishes later.
NoOlderThan(old, list) ==
  \A j \in DOMAIN old, k \in DOMAIN list : old[j].id = list[k].id => old[j].upd <= list[k].upd
PublishedNeverRegresses ==
  [][NoOlderThan(published, published')]_published

\* Why it does not: a session is never newer than its source, no list shows a
\* session newer than it is, and what a pass has listed it has listed since the
\* pass before it published.
StampsAreOrdered == \A i \in Ids : upd[i] <= clock[SourceOf[i]]
NotFromTheFuture(list) == \A k \in DOMAIN list : list[k].upd <= upd[list[k].id]
ListsAreFresh ==
  /\ NotFromTheFuture(published)
  /\ \A p \in Callers : pc[p] \in {"list", "publish"} =>
       NotFromTheFuture(pass[p].list) /\ NoOlderThan(published, pass[p].list)
PipelineInv ==
  TypeOK /\ PassesDoNotOverlap /\ PassReadsItsOwnList /\ StampsAreOrdered /\ ListsAreFresh

\* A pass lists a session once, shows no empty Copilot session, and never lets
\* a parent rest while a listed child works (hub.go, propagateActive).
PublishedIsWellFormed ==
  \A j, k \in DOMAIN published :
    /\ published[j].id = published[k].id => j = k
    /\ published[j].shown
    /\ (published[j].active /\ Parent[published[j].id] = published[k].id)
         => published[k].active

\* When no handler is half-way and no call has failed, every enabled source in
\* the table has its adapter, and no adapter outlives its row.  (A disabled row
\* may keep one: handleAddSource upserts the row, but takes no adapter away.)
\* It is a promise of one handler at a time: nothing keeps a second request for
\* the same source out of the gap between a handler's store and registry steps,
\* and with two Admins it does not hold.
RegistryMatchesTable ==
  (faults = 0 /\ \A a \in Admins : admin[a] = Resting)
    => \A s \in Sources : /\ configured[s] = "enabled" => adapters[s] # 0
                          /\ adapters[s] # 0 => configured[s] # "absent"

-----------------------------------------------------------------------------
(* Liveness *)

Served(i, v) == Has(sessions, i) /\ First(sessions, i).upd >= v
Withdrawn(s) == adapters[s] = 0

\* A write that the poller can tell from what it has seen of its source.
Pending(i, v) ==
  LET s == SourceOf[i] IN
  /\ upd[i] = v /\ lastMod[s] # Unseen /\ lastMod[s] < v
  /\ (i \in Copilot => msgs[i])

\* Such a write reaches the cache, unless its source is withdrawn or a call fails (a
\* failed listing drops the sessions of its source until something changes).
PendingWriteIsServed ==
  [](faults = 0) => \A i \in Ids, v \in 1 .. MaxWrites :
    Pending(i, v) ~> (Served(i, v) \/ Withdrawn(SourceOf[i]))

\* The sessions of a removed or disabled source leave the cache, whatever passes
\* were under way, unless a store call fails after the adapter was taken away, or a
\* reset meets a pass, which publishes again what it has thrown away (no refresh
\* follows either).
Gone(s) == \A k \in DOMAIN sessions : SourceOf[sessions[k].id] # s
Undisturbed == [](faults = 0 /\ \A a \in Admins : admin[a].op # "reset")
WithdrawnSourceVanishes ==
  Undisturbed => \A s \in Sources : Withdrawn(s) ~> (Gone(s) \/ ~Withdrawn(s))
=============================================================================
