----------------------------- MODULE SessionHub -----------------------------
(***************************************************************************)
(* The session cache and adapter registry (internal/server/hub.go), the    *)
(* agents' data as the adapters read it, and the operations of the hub     *)
(* that run outside a refresh pass: the adapter registry, the by-id lookup *)
(* with its fallback (Resolve), and the display-name overrides.  The       *)
(* refresh pass itself is in RefreshPipeline, which EXTENDS this module.   *)
(*                                                                         *)
(* Time: a source's stamp counts its writes, a session's UpdatedAt is the  *)
(* stamp of its last write, and LastModified of a source is its stamp, so  *)
(* two writes never share a stamp.  live[i] stands for the whole age test  *)
(* of applyLiveness: it becomes TRUE at a write and FALSE when the write   *)
(* (or the open step) has left its window.                                 *)
(***************************************************************************)
EXTENDS Integers, Sequences, FiniteSets, SequencesExt

CONSTANTS
  Ids,        \* session ids
  Sources,    \* source ids
  SourceOf,   \* SourceOf[i]: the source that holds session i
  NoParent,   \* the empty ParentID
  Parent,     \* Parent[i]: i's parent session, or NoParent
  Existing,   \* sessions that exist when the server starts
  AtBoot,     \* sources that are configured and enabled when it starts
  Copilot,    \* sessions of the Copilot agent (hidden while they are empty)
  Titles,     \* display-name overrides a user may choose
  Native,     \* the title the agent gave
  Blank,      \* the empty title
  Readers,    \* goroutines that look a session up by id
  Namers,     \* handlers that set or clear a display name
  Renamable,  \* bound: sessions they rename
  MaxWrites   \* bound: writes per source

ASSUME HubAssumption ==
  /\ IsFiniteSet(Ids) /\ IsFiniteSet(Sources) /\ Sources # {}
  /\ SourceOf \in [Ids -> Sources]
  /\ NoParent \notin Ids
  /\ Parent \in [Ids -> Ids \union {NoParent}]
  /\ Copilot \subseteq Ids /\ Renamable \subseteq Ids
  /\ Existing \subseteq Ids /\ AtBoot \subseteq Sources
  /\ Native \notin Titles /\ Blank \notin Titles
  /\ MaxWrites \in Nat \ {0}

VARIABLES
  clock,      \* clock[s]: the source's modification stamp
  upd,        \* upd[i]: stamp of i's last write, 0 before its first
  live,       \* live[i]: i's last write is within its liveness window
  msgs,       \* msgs[i]: i has at least one message
  sessions,   \* h.sessions, the cached list
  adapters,   \* h.adapters: the instance registered per source, 0 if none
  created,    \* adapter instances created so far
  closed,     \* adapter instances that have been closed
  names,      \* the session-name table: override per session, or Native
  reader,     \* reader[r]: where r's Resolve call is
  namer       \* namer[n]: where n's SetName or ClearName call is

agentVars == <<clock, upd, live, msgs>>
registryVars == <<adapters, created, closed>>
hubVars == <<clock, upd, live, msgs, sessions, adapters, created, closed,
             names, reader, namer>>

-----------------------------------------------------------------------------
(* Types *)

Stamp == 0 .. MaxWrites
AnyTitle == Titles \union {Native, Blank}

\* A cached session: what the properties need of ingest.Session.
Entry == [id : Ids, upd : Stamp, active : BOOLEAN, shown : BOOLEAN, title : AnyTitle]

Registry == [Sources -> Nat]

ReaderState ==
  [at : {"idle"}]
    \union [at : {"ask"}, id : Ids, found : BOOLEAN, adapters : Registry]
    \union [at : {"append"}, entry : Entry]

NamerState ==
  [at : {"idle"}] \union [at : {"cache"}, id : Ids, title : AnyTitle]

Idle == [at |-> "idle"]

HubTypeOK ==
  /\ clock \in [Sources -> Stamp]
  /\ upd \in [Ids -> Stamp]
  /\ live \in [Ids -> BOOLEAN]
  /\ msgs \in [Ids -> BOOLEAN]
  /\ sessions \in Seq(Entry)
  /\ adapters \in Registry
  /\ created \in Nat
  /\ closed \subseteq Nat
  /\ names \in [Ids -> Titles \union {Native}]
  /\ reader \in [Readers -> ReaderState]
  /\ namer \in [Namers -> NamerState]

-----------------------------------------------------------------------------
(* Lists of sessions *)

IdsOf(list) == {list[k].id : k \in DOMAIN list}
Has(list, i) == i \in IdsOf(list)

\* The first entry of an id: the one every lookup of the hub finds.
FirstAt(list, i) == CHOOSE k \in DOMAIN list :
                      list[k].id = i /\ \A j \in 1 .. k - 1 : list[j].id # i
First(list, i) == list[FirstAt(list, i)]

\* Position of the last entry of an id: the one a map built in list order keeps.
LastAt(list, i) == CHOOSE k \in DOMAIN list :
                     list[k].id = i /\ \A j \in k + 1 .. Len(list) : list[j].id # i

\* An adapter's answer for session i, after applyLiveness.
Fetch(i, title) ==
  [id |-> i, upd |-> upd[i], active |-> live[i],
   shown |-> (i \notin Copilot \/ msgs[i]), title |-> title]

\* ListSessions of source s, in an order of its own.
Listing(s) ==
  LET ids == {i \in Ids : SourceOf[i] = s /\ upd[i] > 0}
      order == SetToSeq(ids)
  IN  [k \in DOMAIN order |-> Fetch(order[k], Native)]

LiveCount(list) == Cardinality({k \in DOMAIN list : list[k].active})

\* Registered sources, of the registry or of a copy of it.
Registered(registry) == {s \in Sources : registry[s] # 0}

\* Rename(list, i, t): the first entry of i, if any, gets title t.
Rename(list, i, t) ==
  IF Has(list, i) THEN [list EXCEPT ![FirstAt(list, i)].title = t] ELSE list

\* A session that exists at the start was last written at stamp 1, long ago or
\* just now.
HubInit ==
  /\ upd = [i \in Ids |-> IF i \in Existing THEN 1 ELSE 0]
  /\ clock = [s \in Sources |-> IF \E i \in Existing : SourceOf[i] = s THEN 1 ELSE 0]
  /\ live \in [Ids -> BOOLEAN]
  /\ \A i \in Ids : live[i] => i \in Existing
  /\ msgs = [i \in Ids |-> i \in Existing]
  /\ sessions = <<>>
  /\ adapters = [s \in Sources |-> IF s \in AtBoot THEN 1 ELSE 0]
  /\ created = 1
  /\ closed = {}
  /\ names = [i \in Ids |-> Native]
  /\ reader = [r \in Readers |-> Idle]
  /\ namer = [n \in Namers |-> Idle]

-----------------------------------------------------------------------------
(* The agents *)

\* The agent writes to session i: it is touched, and may get its first message.
AgentWrites(i) ==
  LET s == SourceOf[i] IN
  /\ clock[s] < MaxWrites
  /\ clock' = [clock EXCEPT ![s] = @ + 1]
  /\ upd' = [upd EXCEPT ![i] = clock[s] + 1]
  /\ live' = [live EXCEPT ![i] = TRUE]
  /\ \E m \in BOOLEAN :
       /\ (msgs[i] \/ i \notin Copilot) => m
       /\ msgs' = [msgs EXCEPT ![i] = m]
  /\ UNCHANGED <<sessions, registryVars, names, reader, namer>>

\* The liveness window of i's last write passes.
SessionAges(i) ==
  /\ live[i]
  /\ live' = [live EXCEPT ![i] = FALSE]
  /\ UNCHANGED <<clock, upd, msgs, sessions, registryVars, names, reader, namer>>

-----------------------------------------------------------------------------
(* The adapter registry: steps of the source handlers, each under h.mu *)

AddAdapter(s) ==
  /\ created' = created + 1
  /\ adapters' = [adapters EXCEPT ![s] = created + 1]
  /\ UNCHANGED <<agentVars, sessions, closed, names, reader, namer>>

\* Mutant of RemoveAdapter: the adapter is closed and stays registered.
RemoveAdapter_Keeps(s) ==
  /\ closed' = IF adapters[s] = 0 THEN closed ELSE closed \union {adapters[s]}
  /\ UNCHANGED <<agentVars, sessions, adapters, created, names, reader, namer>>

RemoveAdapter(s) ==
  /\ closed' = IF adapters[s] = 0 THEN closed ELSE closed \union {adapters[s]}
  /\ adapters' = [adapters EXCEPT ![s] = 0]
  /\ UNCHANGED <<agentVars, sessions, created, names, reader, namer>>

CloseAdapters ==
  /\ closed' = closed \union {adapters[s] : s \in Registered(adapters)}
  /\ adapters' = [s \in Sources |-> 0]
  /\ sessions' = <<>>
  /\ UNCHANGED <<agentVars, created, names, reader, namer>>

-----------------------------------------------------------------------------
(* Resolve *)

\* The read-locked part: first match and its adapter, and a copy of the
\* registry.  A hit with an adapter returns at once and changes nothing.
ResolveLookup(r, i) ==
  LET found == Has(sessions, i)
  IN  /\ reader[r] = Idle
      /\ ~(found /\ adapters[SourceOf[i]] # 0)
      /\ reader' = [reader EXCEPT ![r] =
                     [at |-> "ask", id |-> i, found |-> found, adapters |-> adapters]]
      /\ UNCHANGED <<agentVars, sessions, registryVars, names, namer>>

\* The unlocked part: candidate.Session(id) over the copied adapters, then the
\* display name.  A closed adapter may fail.
ResolveHit(r) ==
  LET i == reader[r].id IN
  /\ reader[r].at = "ask"
  /\ reader[r].adapters[SourceOf[i]] # 0
  /\ upd[i] > 0
  /\ reader' = [reader EXCEPT ![r] =
                 IF reader[r].found THEN Idle
                 ELSE [at |-> "append", entry |-> Fetch(i, names[i])]]
  /\ UNCHANGED <<agentVars, sessions, registryVars, names, namer>>

ResolveMiss(r) ==
  LET i == reader[r].id
      instance == reader[r].adapters[SourceOf[i]]
  IN  /\ reader[r].at = "ask"
      /\ instance = 0 \/ instance \in closed \/ upd[i] = 0
      /\ reader' = [reader EXCEPT ![r] = Idle]
      /\ UNCHANGED <<agentVars, sessions, registryVars, names, namer>>

\* Under the write lock: append, on the strength of the earlier lookup.
ResolveAppend(r) ==
  /\ reader[r].at = "append"
  /\ sessions' = Append(sessions, reader[r].entry)
  /\ reader' = [reader EXCEPT ![r] = Idle]
  /\ UNCHANGED <<agentVars, registryVars, names, namer>>

-----------------------------------------------------------------------------
(* Display names: SetName and ClearName write the table, then the cache *)

SetNameStore(n, i, t) ==
  /\ namer[n] = Idle
  /\ names' = [names EXCEPT ![i] = t]
  /\ namer' = [namer EXCEPT ![n] = [at |-> "cache", id |-> i, title |-> t]]
  /\ UNCHANGED <<agentVars, sessions, registryVars, reader>>

ClearNameStore(n, i) ==
  /\ namer[n] = Idle
  /\ Titles # {}
  /\ names' = [names EXCEPT ![i] = Native]
  /\ namer' = [namer EXCEPT ![n] = [at |-> "cache", id |-> i, title |-> Blank]]
  /\ UNCHANGED <<agentVars, sessions, registryVars, reader>>

NameCache(n) ==
  /\ namer[n].at = "cache"
  /\ sessions' = Rename(sessions, namer[n].id, namer[n].title)
  /\ namer' = [namer EXCEPT ![n] = Idle]
  /\ UNCHANGED <<agentVars, registryVars, names, reader>>
=============================================================================
