----------------------- MODULE RefreshPipeline_proofs -----------------------
(***************************************************************************)
(* The refresh pipeline, for any sessions, sources, callers, handlers and  *)
(* bounds.  First come lemmas about the operators of SessionHub (what its  *)
(* lists of sessions are made of, and what a rename leaves alone) and      *)
(* about what a pass makes of the sessions it lists; then type             *)
(* correctness; then safety: passes exclude each other, a running pass     *)
(* works on the list that the cache holds, and no published list goes back *)
(* in time.  The inductive invariant is PipelineInv; each of its parts is  *)
(* shown to be kept by every step, from those before it.  Every published  *)
(* list is well formed too (FormInv), which rests on what the recursion of *)
(* Lineage reaches.  With one handler at a time, the registry also follows *)
(* the sources table (RegistryInv).                                        *)
(***************************************************************************)
EXTENDS RefreshPipeline, SequenceLemmas

-----------------------------------------------------------------------------
(* Lists of sessions *)

\* Where a session is listed, its first entry is one of its entries.
LEMMA FirstAtProperties ==
  ASSUME NEW list \in Seq(Entry), NEW i, Has(list, i)
  PROVE  FirstAt(list, i) \in DOMAIN list /\ list[FirstAt(list, i)].id = i
<1>. DEFINE T == {k \in DOMAIN list : list[k].id = i}
<1>1. Len(list) \in Nat /\ DOMAIN list = 1 .. Len(list)
  BY LenProperties
<1>2. T \in SUBSET Nat /\ T \subseteq 0 .. Len(list) /\ T # {}
  BY <1>1 DEF Has, IdsOf
<1>3. PICK x \in T : \A y \in T : x <= y
  BY <1>1, <1>2, LeastNat
<1>4. x \in DOMAIN list /\ list[x].id = i /\ \A j \in 1 .. x - 1 : list[j].id # i
  BY <1>1, <1>3
<1>. QED BY <1>4 DEF FirstAt

LEMMA LastAtProperties ==
  ASSUME NEW list \in Seq(Entry), NEW i, Has(list, i)
  PROVE  LastAt(list, i) \in DOMAIN list /\ list[LastAt(list, i)].id = i
<1>. DEFINE T == {n \in 0 .. Len(list) : list[Len(list) - n].id = i /\ n < Len(list)}
<1>1. Len(list) \in Nat /\ DOMAIN list = 1 .. Len(list)
  BY LenProperties
<1>2. PICK k \in 1 .. Len(list) : list[k].id = i
  BY <1>1 DEF Has, IdsOf
<1>3. Len(list) - (Len(list) - k) = k /\ Len(list) - k \in 0 .. Len(list) /\ Len(list) - k < Len(list)
  BY <1>1, <1>2
<1>4. Len(list) - k \in T
  BY <1>2, <1>3
<1>5. T \in SUBSET Nat /\ T \subseteq 0 .. Len(list) /\ T # {}
  BY <1>1, <1>4
<1>6. PICK x \in T : \A y \in T : x <= y
  BY <1>1, <1>5, LeastNat
<1>7. \A j \in Len(list) - x + 1 .. Len(list) : list[j].id # i
  <2>. SUFFICES ASSUME NEW j \in Len(list) - x + 1 .. Len(list), list[j].id = i PROVE FALSE
    OBVIOUS
  <2>1. Len(list) - (Len(list) - j) = j /\ Len(list) - j \in 0 .. Len(list)
        /\ Len(list) - j < Len(list) /\ Len(list) - j < x
    BY <1>1, <1>6
  <2>2. Len(list) - j \in T
    BY <2>1
  <2>. QED BY <1>1, <1>6, <2>1, <2>2
<1>8. Len(list) - x \in DOMAIN list /\ list[Len(list) - x].id = i
  BY <1>1, <1>6
<1>. QED BY <1>7, <1>8 DEF LastAt

\* An adapter's answer is a session entry.
LEMMA FetchType ==
  ASSUME HubTypeOK, NEW i \in Ids, NEW t \in AnyTitle
  PROVE  Fetch(i, t) \in Entry
BY DEF HubTypeOK, Fetch, Entry

LEMMA ListingType ==
  ASSUME HubTypeOK, NEW s \in Sources
  PROVE  Listing(s) \in Seq(Entry)
<1>. DEFINE ids == {i \in Ids : SourceOf[i] = s /\ upd[i] > 0}
<1>1. IsFiniteSet(ids)
  BY FS_Subset, HubAssumption
<1>2. SetToSeq(ids) \in Seq(ids)
  BY <1>1, SetToSeqType
<1>. HIDE DEF ids
<1>3. /\ Len(SetToSeq(ids)) \in Nat /\ DOMAIN SetToSeq(ids) = 1 .. Len(SetToSeq(ids))
      /\ \A k \in DOMAIN SetToSeq(ids) : SetToSeq(ids)[k] \in Ids
  BY <1>2, LenProperties, ElementOfSeq DEF ids
<1>4. \A k \in DOMAIN SetToSeq(ids) : Fetch(SetToSeq(ids)[k], Native) \in Entry
  BY <1>3, FetchType DEF AnyTitle
<1>5. [k \in DOMAIN SetToSeq(ids) |-> Fetch(SetToSeq(ids)[k], Native)] \in Seq(Entry)
  BY <1>3, <1>4
<1>. QED BY <1>5 DEF Listing, ids

LEMMA LiveCountType ==
  ASSUME NEW list \in Seq(Entry)
  PROVE  LiveCount(list) \in Nat
<1>1. IsFiniteSet(DOMAIN list)
  BY LenProperties, FS_Interval
<1>2. IsFiniteSet({k \in DOMAIN list : list[k].active})
  BY <1>1, FS_Subset
<1>. QED BY <1>2, FS_CardinalityType DEF LiveCount

\* A rename changes titles only.
LEMMA RenameProperties ==
  ASSUME NEW list \in Seq(Entry), NEW i \in Ids, NEW t \in AnyTitle
  PROVE  /\ Rename(list, i, t) \in Seq(Entry)
         /\ DOMAIN Rename(list, i, t) = DOMAIN list
         /\ \A k \in DOMAIN list :
              /\ Rename(list, i, t)[k].id = list[k].id
              /\ Rename(list, i, t)[k].upd = list[k].upd
              /\ Rename(list, i, t)[k].active = list[k].active
<1>1. CASE ~Has(list, i)
  BY <1>1 DEF Rename
<1>2. CASE Has(list, i)
  <2>. DEFINE f == FirstAt(list, i)
  <2>1. f \in DOMAIN list
    BY <1>2, FirstAtProperties
  <2>2. Len(list) \in Nat /\ DOMAIN list = 1 .. Len(list) /\ \A k \in DOMAIN list : list[k] \in Entry
    BY LenProperties, ElementOfSeq
  <2>3. Rename(list, i, t) = [list EXCEPT ![f].title = t]
    BY <1>2 DEF Rename
  <2>. HIDE DEF f
  <2>4. [list[f] EXCEPT !.title = t] \in Entry
    BY <2>1, <2>2 DEF Entry
  <2>5. /\ Rename(list, i, t) = [k \in 1 .. Len(list) |->
                                   IF k = f THEN [list[f] EXCEPT !.title = t] ELSE list[k]]
    BY <2>1, <2>2, <2>3
  <2>6. Rename(list, i, t) \in Seq(Entry)
    BY <2>2, <2>4, <2>5
  <2>7. \A k \in DOMAIN list : /\ Rename(list, i, t)[k].id = list[k].id
                               /\ Rename(list, i, t)[k].upd = list[k].upd
                               /\ Rename(list, i, t)[k].active = list[k].active
    BY <2>1, <2>2, <2>5 DEF Entry
  <2>. QED BY <2>2, <2>5, <2>6, <2>7
<1>. QED BY <1>1, <1>2

-----------------------------------------------------------------------------
(* The type invariant *)

LEMMA InitHubType == HubInit => HubTypeOK
<1>. SUFFICES ASSUME HubInit PROVE HubTypeOK
  OBVIOUS
<1>. USE HubAssumption DEF HubInit, HubTypeOK
<1>1. 0 \in Stamp /\ 1 \in Stamp
  BY DEF Stamp
<1>2. clock \in [Sources -> Stamp] /\ upd \in [Ids -> Stamp] /\ live \in [Ids -> BOOLEAN]
      /\ msgs \in [Ids -> BOOLEAN]
  BY <1>1
<1>3. sessions \in Seq(Entry)
  BY EmptySeq
<1>4. adapters \in Registry /\ created \in Nat /\ closed \subseteq Nat
      /\ names \in [Ids -> Titles \union {Native}]
  BY DEF Registry
<1>5. reader \in [Readers -> ReaderState] /\ namer \in [Namers -> NamerState]
  BY DEF ReaderState, NamerState, Idle
<1>. QED BY <1>2, <1>3, <1>4, <1>5

\* A write of the agent, and the passing of its window.
LEMMA AgentStepsType ==
  ASSUME HubTypeOK, NEW i \in Ids, AgentWrites(i) \/ SessionAges(i)
  PROVE  /\ HubTypeOK' /\ sessions' = sessions
         /\ \A j \in Ids : upd[j] <= clock[SourceOf[j]] => upd[j] <= upd'[j] /\ upd'[j] <= clock'[SourceOf[j]]
<1>. USE HubAssumption DEF HubTypeOK
<1>1. CASE AgentWrites(i)
  <2>. DEFINE s == SourceOf[i]
  <2>1. s \in Sources /\ clock[s] \in Stamp /\ clock[s] + 1 \in Stamp
    BY <1>1 DEF AgentWrites, Stamp
  <2>2. clock' \in [Sources -> Stamp] /\ upd' \in [Ids -> Stamp] /\ live' \in [Ids -> BOOLEAN]
        /\ msgs' \in [Ids -> BOOLEAN]
    BY <1>1, <2>1 DEF AgentWrites
  <2>3. HubTypeOK' /\ sessions' = sessions
    BY <1>1, <2>2 DEF AgentWrites, registryVars
  <2>4. ASSUME NEW j \in Ids, upd[j] <= clock[SourceOf[j]]
        PROVE  upd[j] <= upd'[j] /\ upd'[j] <= clock'[SourceOf[j]]
    <3>1. upd[j] \in Nat /\ clock[SourceOf[j]] \in Nat /\ SourceOf[j] \in Sources
      BY DEF Stamp
    <3>2. CASE j = i
      BY <1>1, <2>1, <2>4, <3>1, <3>2 DEF AgentWrites
    <3>3. CASE j # i
      <4>1. upd'[j] = upd[j] /\ clock'[SourceOf[j]] \in {clock[SourceOf[j]], clock[SourceOf[j]] + 1}
        BY <1>1, <2>1, <3>1, <3>3 DEF AgentWrites
      <4>. QED BY <2>4, <3>1, <4>1
    <3>. QED BY <3>2, <3>3
  <2>. QED BY <2>3, <2>4
<1>2. CASE SessionAges(i)
  <2>1. HubTypeOK' /\ sessions' = sessions
    BY <1>2 DEF SessionAges, registryVars
  <2>. QED BY <1>2, <2>1 DEF SessionAges, Stamp
<1>. QED BY <1>1, <1>2

\* The registry operations of the source handlers.
LEMMA RegistryStepsType ==
  ASSUME HubTypeOK, NEW s \in Sources, AddAdapter(s) \/ RemoveAdapter(s) \/ CloseAdapters
  PROVE  HubTypeOK'
<1>. USE DEF HubTypeOK, Registry, agentVars
<1>1. CASE AddAdapter(s)
  BY <1>1 DEF AddAdapter
<1>2. CASE RemoveAdapter(s)
  BY <1>2 DEF RemoveAdapter
<1>3. CASE CloseAdapters
  BY <1>3, EmptySeq DEF CloseAdapters, Registered
<1>. QED BY <1>1, <1>2, <1>3

\* A step of a lookup: the cache stays as it is, or gains one entry at its end.
LEMMA ReaderStepsType ==
  ASSUME HubTypeOK, NEW r \in Readers,
         \/ \E i \in Ids : ResolveLookup(r, i)
         \/ ResolveHit(r) \/ ResolveMiss(r) \/ ResolveAppend(r)
  PROVE  /\ HubTypeOK'
         /\ sessions' = sessions \/ \E e \in Entry : sessions' = Append(sessions, e)
         /\ UNCHANGED <<agentVars, registryVars>>
<1>. USE DEF HubTypeOK, agentVars, registryVars
<1>1. ASSUME NEW i \in Ids, ResolveLookup(r, i) PROVE HubTypeOK' /\ sessions' = sessions
  <2>1. [at |-> "ask", id |-> i, found |-> Has(sessions, i), adapters |-> adapters] \in ReaderState
    BY DEF ReaderState, Has
  <2>. QED BY <1>1, <2>1 DEF ResolveLookup
<1>2. CASE ResolveHit(r)
  <2>1. reader[r].id \in Ids
    BY <1>2 DEF ResolveHit, ReaderState
  <2>2. Fetch(reader[r].id, names[reader[r].id]) \in Entry
    BY <2>1, FetchType DEF AnyTitle
  <2>3. Idle \in ReaderState
        /\ [at |-> "append", entry |-> Fetch(reader[r].id, names[reader[r].id])] \in ReaderState
    BY <2>2 DEF ReaderState, Idle
  <2>. QED BY <1>2, <2>3 DEF ResolveHit
<1>3. CASE ResolveMiss(r)
  BY <1>3 DEF ResolveMiss, ReaderState, Idle
<1>4. CASE ResolveAppend(r)
  <2>1. reader[r].entry \in Entry
    BY <1>4 DEF ResolveAppend, ReaderState
  <2>2. Append(sessions, reader[r].entry) \in Seq(Entry)
    BY <2>1, AppendProperties
  <2>. QED BY <1>4, <2>1, <2>2 DEF ResolveAppend, ReaderState, Idle
<1>5. UNCHANGED <<agentVars, registryVars>>
  BY DEF ResolveLookup, ResolveHit, ResolveMiss, ResolveAppend
<1>6. ResolveHit(r) \/ ResolveMiss(r) => sessions' = sessions
  BY DEF ResolveHit, ResolveMiss
<1>7. ResolveAppend(r) => \E e \in Entry : sessions' = Append(sessions, e)
  BY DEF ResolveAppend, ReaderState
<1>. QED BY <1>1, <1>2, <1>3, <1>4, <1>5, <1>6, <1>7

\* A step of a rename: the cache keeps its length, ids, stamps and statuses.
LEMMA NamerStepsType ==
  ASSUME HubTypeOK, NEW n \in Namers,
         \/ \E i \in Ids : ClearNameStore(n, i) \/ \E t \in Titles : SetNameStore(n, i, t)
         \/ NameCache(n)
  PROVE  /\ HubTypeOK'
         /\ DOMAIN sessions' = DOMAIN sessions
         /\ \A k \in DOMAIN sessions : /\ sessions'[k].id = sessions[k].id
                                       /\ sessions'[k].upd = sessions[k].upd
                                       /\ sessions'[k].active = sessions[k].active
         /\ UNCHANGED <<agentVars, registryVars>>
<1>. USE DEF HubTypeOK, agentVars, registryVars
<1>0. UNCHANGED <<agentVars, registryVars>>
  BY DEF SetNameStore, ClearNameStore, NameCache
<1>1. ASSUME NEW i \in Ids, NEW t \in Titles, SetNameStore(n, i, t)
      PROVE  HubTypeOK' /\ sessions' = sessions
  <2>1. [at |-> "cache", id |-> i, title |-> t] \in NamerState
    BY DEF NamerState, AnyTitle
  <2>. QED BY <1>1, <2>1 DEF SetNameStore
<1>2. ASSUME NEW i \in Ids, ClearNameStore(n, i) PROVE HubTypeOK' /\ sessions' = sessions
  <2>1. [at |-> "cache", id |-> i, title |-> Blank] \in NamerState
    BY DEF NamerState, AnyTitle
  <2>. QED BY <1>2, <2>1 DEF ClearNameStore
<1>3. CASE NameCache(n)
  <2>1. namer[n].id \in Ids /\ namer[n].title \in AnyTitle
    BY <1>3 DEF NameCache, NamerState
  <2>2. sessions' = Rename(sessions, namer[n].id, namer[n].title) /\ sessions \in Seq(Entry)
    BY <1>3 DEF NameCache
  <2>3. /\ sessions' \in Seq(Entry) /\ DOMAIN sessions' = DOMAIN sessions
        /\ \A k \in DOMAIN sessions : /\ sessions'[k].id = sessions[k].id
                                      /\ sessions'[k].upd = sessions[k].upd
                                      /\ sessions'[k].active = sessions[k].active
    BY <2>1, <2>2, RenameProperties
  <2>4. HubTypeOK'
    BY <1>3, <2>3 DEF NameCache, NamerState, Idle
  <2>. QED BY <1>0, <2>3, <2>4
<1>5. CASE sessions' = sessions /\ HubTypeOK'
  BY <1>0, <1>5
<1>. QED BY <1>1, <1>2, <1>3, <1>5

-----------------------------------------------------------------------------
(* What a pass makes of the sessions it has listed *)

\* `new` is made from `old`: each of its entries has the id and the stamp of one
\* of old's.
MadeFrom(old, new) ==
  \A k \in DOMAIN new : \E j \in DOMAIN old : new[k].id = old[j].id /\ new[k].upd = old[j].upd

LEMMA PropagateMakes ==
  ASSUME NEW list \in Seq(Entry)
  PROVE  Propagate(list) \in Seq(Entry) /\ MadeFrom(list, Propagate(list))
<1>1. Len(list) \in Nat /\ DOMAIN list = 1 .. Len(list) /\ \A k \in DOMAIN list : list[k] \in Entry
  BY LenProperties, ElementOfSeq
<1>. DEFINE Live(k) == \E j \in DOMAIN list :
                          list[j].active /\ list[k].id \in Lineage(list, list[j].id)
<1>. DEFINE New(k) == [list[k] EXCEPT !.active = Live(k)]
<1>2. Propagate(list) = [k \in DOMAIN list |-> New(k)]
  BY DEF Propagate
<1>3. \A k \in DOMAIN list : Live(k) \in BOOLEAN
  OBVIOUS
<1>4. \A k \in DOMAIN list : New(k) \in Entry /\ New(k).id = list[k].id /\ New(k).upd = list[k].upd
  <2>. HIDE DEF Live
  <2>. QED BY <1>1, <1>3 DEF Entry
<1>. HIDE DEF New
<1>5. Propagate(list) \in Seq(Entry)
  BY <1>1, <1>2, <1>4
<1>6. MadeFrom(list, Propagate(list))
  BY <1>2, <1>4 DEF MadeFrom
<1>. QED BY <1>5, <1>6

LEMMA ShownMakes ==
  ASSUME NEW list \in Seq(Entry)
  PROVE  Shown(list) \in Seq(Entry) /\ MadeFrom(list, Shown(list))
<1>. DEFINE kept == {k \in DOMAIN list : list[k].shown}
<1>1. Len(list) \in Nat /\ DOMAIN list = 1 .. Len(list) /\ \A k \in DOMAIN list : list[k] \in Entry
  BY LenProperties, ElementOfSeq
<1>2. IsFiniteSet(kept)
  <2>1. IsFiniteSet(DOMAIN list)
    BY <1>1, FS_Interval
  <2>. QED BY <2>1, FS_Subset
<1>3. SetToSeq(kept) \in Seq(kept)
  BY <1>2, SetToSeqType
<1>4. kept \subseteq DOMAIN list
  OBVIOUS
<1>5. Shown(list) = [n \in DOMAIN SetToSeq(kept) |-> list[SetToSeq(kept)[n]]]
  BY DEF Shown
<1>. HIDE DEF kept
<1>6. /\ Len(SetToSeq(kept)) \in Nat /\ DOMAIN SetToSeq(kept) = 1 .. Len(SetToSeq(kept))
      /\ \A n \in DOMAIN SetToSeq(kept) : SetToSeq(kept)[n] \in DOMAIN list
  BY <1>3, <1>4, LenProperties, ElementOfSeq
<1>7. Shown(list) \in Seq(Entry)
  BY <1>1, <1>5, <1>6
<1>8. MadeFrom(list, Shown(list))
  BY <1>5, <1>6 DEF MadeFrom
<1>. QED BY <1>7, <1>8

LEMMA TitledMakes ==
  ASSUME HubTypeOK, NEW list \in Seq(Entry)
  PROVE  Titled(list) \in Seq(Entry) /\ MadeFrom(list, Titled(list))
<1>1. Len(list) \in Nat /\ DOMAIN list = 1 .. Len(list) /\ \A k \in DOMAIN list : list[k] \in Entry
  BY LenProperties, ElementOfSeq
<1>. DEFINE New(k) == IF names[list[k].id] = Native THEN list[k]
                      ELSE [list[k] EXCEPT !.title = names[list[k].id]]
<1>2. Titled(list) = [k \in DOMAIN list |-> New(k)]
  BY DEF Titled
<1>3. \A k \in DOMAIN list :
        /\ New(k) \in Entry /\ New(k).id = list[k].id /\ New(k).upd = list[k].upd
  <2>. SUFFICES ASSUME NEW k \in DOMAIN list
                PROVE  /\ New(k) \in Entry /\ New(k).id = list[k].id /\ New(k).upd = list[k].upd
    OBVIOUS
  <2>1. list[k] \in Entry /\ names[list[k].id] \in AnyTitle
    BY <1>1 DEF HubTypeOK, Entry, AnyTitle
  <2>. QED BY <2>1 DEF Entry
<1>. HIDE DEF New
<1>4. Titled(list) \in Seq(Entry)
  BY <1>1, <1>2, <1>3
<1>5. MadeFrom(list, Titled(list))
  BY <1>2, <1>3 DEF MadeFrom
<1>. QED BY <1>4, <1>5

\* The list a pass publishes is made from what it has listed.
LEMMA DigestMakes ==
  ASSUME HubTypeOK, NEW list \in Seq(Entry)
  PROVE  /\ Titled(Shown(Propagate(list))) \in Seq(Entry)
         /\ MadeFrom(list, Titled(Shown(Propagate(list))))
<1>1. Propagate(list) \in Seq(Entry) /\ MadeFrom(list, Propagate(list))
  BY PropagateMakes
<1>2. Shown(Propagate(list)) \in Seq(Entry) /\ MadeFrom(Propagate(list), Shown(Propagate(list)))
  BY <1>1, ShownMakes
<1>3. /\ Titled(Shown(Propagate(list))) \in Seq(Entry)
      /\ MadeFrom(Shown(Propagate(list)), Titled(Shown(Propagate(list))))
  BY <1>2, TitledMakes
<1>4. MadeFrom(list, Titled(Shown(Propagate(list))))
  BY <1>1, <1>2, <1>3 DEF MadeFrom
<1>. QED BY <1>3, <1>4

LEMMA PreviousOfType ==
  ASSUME NEW list \in Seq(Entry)
  PROVE  PreviousOf(list) \in Previous
<1>1. \A k \in DOMAIN list : list[k] \in Entry
  BY LenProperties, ElementOfSeq
<1>2. \A i \in Ids : Has(list, i) => [upd |-> list[LastAt(list, i)].upd,
                                     active |-> list[LastAt(list, i)].active]
                                      \in [upd : Stamp, active : BOOLEAN]
  BY <1>1, LastAtProperties DEF Entry
<1>3. Absent \in [upd : Stamp, active : BOOLEAN]
  BY HubAssumption DEF Absent, Stamp
<1>. QED BY <1>2, <1>3 DEF PreviousOf, Previous

LEMMA IdsOfType ==
  ASSUME NEW list \in Seq(Entry)
  PROVE  /\ IdsOf(list) \subseteq Ids
         /\ \A i \in Ids : Has(list, i) => First(list, i).upd \in Stamp
<1>1. \A k \in DOMAIN list : list[k] \in Entry
  BY LenProperties, ElementOfSeq
<1>. QED BY <1>1, FirstAtProperties DEF IdsOf, Entry, First

-----------------------------------------------------------------------------
(* Types *)

LEMMA NewPassType ==
  ASSUME NEW kind \in {"full", "liveness"}
  PROVE  NewPass(kind) \in Pass
<1>1. [s \in Sources |-> 0] \in Registry
  BY DEF Registry
<1>2. [i \in Ids |-> Absent] \in Previous
  BY HubAssumption DEF Previous, Absent, Stamp
<1>3. <<>> \in Seq(Entry)
  BY EmptySeq
<1>. QED BY <1>1, <1>2, <1>3 DEF NewPass, Pass

LEMMA RestingType ==
  Resting \in [op : Ops \union {"none"}, step : Step, src : Sources, enabled : BOOLEAN]
BY HubAssumption DEF Resting, Step

LEMMA InitType == Init => TypeOK
<1>. SUFFICES ASSUME Init PROVE TypeOK
  OBVIOUS
<1>. USE PipelineAssumption DEF Init
<1>1. HubTypeOK
  BY InitHubType
<1>2. lock \in Callers \union {Free} /\ pc \in [Callers -> CallerState]
  BY DEF CallerState
<1>3. pass \in [Callers -> Pass]
  BY NewPassType
<1>4. indexed \in BOOLEAN /\ published \in Seq(Entry) /\ wiped \in BOOLEAN
  BY EmptySeq
<1>6. /\ lastMod \in [Sources -> Stamp \union {Unseen}]
      /\ pollerLive \in Nat
      /\ scan \in [todo : SUBSET Sources, adapters : Registry, changed : BOOLEAN]
  BY DEF NoScan, Registry
<1>7. /\ admin \in [Admins -> [op : Ops \union {"none"}, step : Step,
                               src : Sources, enabled : BOOLEAN]]
      /\ configured \in [Sources -> {"absent", "disabled", "enabled"}]
  BY RestingType
<1>8. ops \in 0 .. MaxOps /\ faults \in 0 .. MaxFaults /\ asked \subseteq Probes
  OBVIOUS
<1>. QED BY <1>1, <1>2, <1>3, <1>4, <1>6, <1>7, <1>8 DEF TypeOK

LEMMA CallFailsType ==
  ASSUME TypeOK, NEW instance, CallFails(instance)
  PROVE  faults' \in 0 .. MaxFaults
BY PipelineAssumption DEF TypeOK, CallFails

\* The parts of TypeOK that a pass can disturb, and the rest.
PassTypeOK ==
  /\ lock \in Callers \union {Free}
  /\ pc \in [Callers -> CallerState]
  /\ pass \in [Callers -> Pass]
  /\ indexed \in BOOLEAN
  /\ published \in Seq(Entry)
  /\ wiped \in BOOLEAN
PollTypeOK ==
  /\ lastMod \in [Sources -> Stamp \union {Unseen}]
  /\ pollerLive \in Nat
  /\ scan \in [todo : SUBSET Sources, adapters : Registry, changed : BOOLEAN]
AdminTypeOK ==
  /\ admin \in [Admins -> [op : Ops \union {"none"}, step : Step,
                           src : Sources, enabled : BOOLEAN]]
  /\ configured \in [Sources -> {"absent", "disabled", "enabled"}]
  /\ ops \in 0 .. MaxOps
RestTypeOK == faults \in 0 .. MaxFaults /\ asked \subseteq Probes

LEMMA TypeParts ==
  /\ TypeOK <=> HubTypeOK /\ PassTypeOK /\ PollTypeOK /\ AdminTypeOK /\ RestTypeOK
  /\ TypeOK' <=> HubTypeOK' /\ PassTypeOK' /\ PollTypeOK' /\ AdminTypeOK' /\ RestTypeOK'
BY DEF TypeOK, PassTypeOK, PollTypeOK, AdminTypeOK, RestTypeOK

\* A part whose variables do not change keeps its types.
LEMMA UnchangedTypes ==
  /\ HubTypeOK /\ UNCHANGED hubVars => HubTypeOK'
  /\ PassTypeOK /\ UNCHANGED passVars => PassTypeOK'
  /\ PollTypeOK /\ UNCHANGED pollVars => PollTypeOK'
  /\ AdminTypeOK /\ UNCHANGED adminVars => AdminTypeOK'
  /\ RestTypeOK /\ UNCHANGED <<faults, asked>> => RestTypeOK'
<1>1. HubTypeOK /\ UNCHANGED hubVars => HubTypeOK'
  BY DEF HubTypeOK, hubVars
<1>2. PassTypeOK /\ UNCHANGED passVars => PassTypeOK'
  BY DEF PassTypeOK, passVars
<1>3. PollTypeOK /\ UNCHANGED pollVars => PollTypeOK'
  BY DEF PollTypeOK, pollVars
<1>4. AdminTypeOK /\ UNCHANGED adminVars => AdminTypeOK'
  BY DEF AdminTypeOK, adminVars
<1>5. RestTypeOK /\ UNCHANGED <<faults, asked>> => RestTypeOK'
  BY DEF RestTypeOK
<1>. QED BY <1>1, <1>2, <1>3, <1>4, <1>5

\* Steps of the hub and the agents.
LEMMA HubStepType ==
  ASSUME TypeOK, HubStep
  PROVE  TypeOK'
<1>1. HubTypeOK
  BY TypeParts
<1>2. HubTypeOK'
  <2>1. ASSUME NEW i \in Ids, AgentWrites(i) \/ SessionAges(i) PROVE HubTypeOK'
    BY <1>1, <2>1, AgentStepsType
  <2>2. ASSUME NEW r \in Readers, ReaderRequest(r) \/ ReaderStep(r) PROVE HubTypeOK'
    BY <1>1, <2>2, ReaderStepsType DEF ReaderRequest, ReaderStep
  <2>3. ASSUME NEW n \in Namers, NamerRequest(n) \/ NameCache(n) PROVE HubTypeOK'
    <3>1. \/ \E i \in Ids : ClearNameStore(n, i) \/ \E t \in Titles : SetNameStore(n, i, t)
          \/ NameCache(n)
      BY <2>3, HubAssumption DEF NamerRequest
    <3>. QED BY <1>1, <3>1, NamerStepsType
  <2>. QED BY <2>1, <2>2, <2>3 DEF HubStep
<1>3. UNCHANGED <<passVars, pollVars, adminVars, faults, asked>>
  BY DEF HubStep
<1>. QED BY <1>2, <1>3, TypeParts, UnchangedTypes

\* The lookups of the classification leave the cache as it is but for new
\* entries at its end.
LEMMA ClassifyExtends ==
  ASSUME HubTypeOK, NEW p \in Callers, Classify(p)
  PROVE  \E tail \in Seq(Entry) : sessions' = sessions \o tail /\ sessions' \in Seq(Entry)
<1>. DEFINE absent == {i \in Ids : i \in pass[p].ids /\ ~Has(sessions, i) /\ upd[i] > 0
                                    /\ adapters[SourceOf[i]] # 0}
            tail == [k \in DOMAIN SetToSeq(absent) |->
                       Fetch(SetToSeq(absent)[k], names[SetToSeq(absent)[k]])]
<1>1. SetToSeq(absent) \in Seq(absent)
  <2>1. IsFiniteSet(absent)
    BY FS_Subset, HubAssumption
  <2>. HIDE DEF absent
  <2>. QED BY <2>1, SetToSeqType
<1>2. absent \subseteq Ids
  OBVIOUS
<1>. HIDE DEF absent
<1>3. /\ Len(SetToSeq(absent)) \in Nat /\ DOMAIN SetToSeq(absent) = 1 .. Len(SetToSeq(absent))
      /\ \A k \in DOMAIN SetToSeq(absent) : SetToSeq(absent)[k] \in Ids
  BY <1>1, <1>2, LenProperties, ElementOfSeq
<1>4. \A k \in DOMAIN SetToSeq(absent) :
        Fetch(SetToSeq(absent)[k], names[SetToSeq(absent)[k]]) \in Entry
  BY <1>3, FetchType DEF HubTypeOK, AnyTitle
<1>5. tail \in Seq(Entry)
  BY <1>3, <1>4
<1>6. sessions' = sessions \o tail
  BY DEF Classify, absent
<1>7. sessions \o tail \in Seq(Entry)
  <2>. HIDE DEF tail
  <2>. QED BY <1>5, ConcatProperties DEF HubTypeOK
<1>. QED BY <1>5, <1>6, <1>7

\* Steps of a pass.
LEMMA PassStepType ==
  ASSUME TypeOK, NEW p \in Callers, BeginPass(p) \/ PassStep(p)
  PROVE  TypeOK'
<1>0. HubTypeOK /\ PassTypeOK /\ PollTypeOK /\ AdminTypeOK /\ RestTypeOK
  BY TypeParts
<1>1. pass[p] \in Pass /\ pass[p].list \in Seq(Entry) /\ pass[p].live \in Nat
  BY <1>0 DEF PassTypeOK, Pass
<1>2. UNCHANGED <<adminVars, asked>> /\ AdminTypeOK'
  <2>1. UNCHANGED <<adminVars, asked>>
    BY DEF BeginPass, PassStep, ListSource, ListFails, Digest, Publish, AnnounceFull,
           LivenessUnmoved, AnnounceLiveness, Classify
  <2>. QED BY <1>0, <2>1, UnchangedTypes
<1>3. RestTypeOK'
  <2>1. faults' \in 0 .. MaxFaults
    BY <1>0, CallFailsType
    DEF RestTypeOK, BeginPass, PassStep, ListSource, ListFails, Digest, Publish, AnnounceFull,
        LivenessUnmoved, AnnounceLiveness, Classify
  <2>. QED BY <1>0, <1>2, <2>1 DEF RestTypeOK
<1>. USE DEF PassTypeOK, CallerState
<1>4. CASE BeginPass(p)
  <2>1. pass'[p] \in Pass
    <3>1. NewPass(pass[p].kind) \in Pass
      BY <1>1, NewPassType DEF Pass
    <3>2. adapters \in Registry /\ Registered(adapters) \subseteq Sources
          /\ PreviousOf(sessions) \in Previous
      BY <1>0, PreviousOfType DEF HubTypeOK, Registered
    <3>3. pass'[p] = [NewPass(pass[p].kind) EXCEPT !.adapters = adapters,
                        !.todo = Registered(adapters), !.prev = PreviousOf(sessions)]
      BY <1>0, <1>4 DEF BeginPass
    <3>. QED BY <3>1, <3>2, <3>3 DEF Pass
  <2>2. PassTypeOK'
    BY <1>0, <1>4, <2>1 DEF BeginPass
  <2>3. HubTypeOK' /\ PollTypeOK'
    BY <1>0, <1>4, UnchangedTypes DEF BeginPass
  <2>. QED BY <1>2, <1>3, <2>2, <2>3, TypeParts
<1>5. ASSUME NEW s \in Sources, ListSource(p, s) \/ ListFails(p, s) PROVE TypeOK'
  <2>1. pass'[p] \in Pass /\ pass' = [pass EXCEPT ![p] = pass'[p]]
    <3>1. CASE ListSource(p, s)
      <4>1. Listing(s) \in Seq(Entry) /\ LiveCount(Listing(s)) \in Nat
        BY <1>0, ListingType, LiveCountType
      <4>2. pass[p].list \o Listing(s) \in Seq(Entry)
        BY <1>1, <4>1, ConcatProperties
      <4>3. pass'[p] = [pass[p] EXCEPT !.todo = @ \ {s}, !.list = @ \o Listing(s),
                                       !.live = @ + LiveCount(Listing(s))]
        BY <1>0, <3>1 DEF ListSource
      <4>. DEFINE l == pass[p].list \o Listing(s)
                  n == pass[p].live + LiveCount(Listing(s))
      <4>4. pass'[p] = [pass[p] EXCEPT !.todo = pass[p].todo \ {s}, !.list = l, !.live = n]
        BY <4>3
      <4>5. n \in Nat /\ l \in Seq(Entry)
        BY <1>1, <4>1, <4>2
      <4>6. pass' = [pass EXCEPT ![p] = pass'[p]]
        BY <1>0, <3>1, <4>3 DEF ListSource
      <4>7. pass'[p] \in Pass
        <5>. HIDE DEF l, n
        <5>. QED BY <1>1, <4>4, <4>5 DEF Pass
      <4>. QED BY <4>6, <4>7
    <3>2. CASE ListFails(p, s)
      <4>1. pass'[p] = [pass[p] EXCEPT !.todo = @ \ {s}]
        BY <1>0, <3>2 DEF ListFails
      <4>2. pass' = [pass EXCEPT ![p] = pass'[p]]
        BY <1>0, <3>2, <4>1 DEF ListFails
      <4>. QED BY <1>1, <4>1, <4>2 DEF Pass
    <3>. QED BY <1>5, <3>1, <3>2
  <2>2. PassTypeOK'
    BY <1>0, <1>5, <2>1 DEF ListSource, ListFails
  <2>3. HubTypeOK' /\ PollTypeOK'
    BY <1>0, <1>5, UnchangedTypes DEF ListSource, ListFails
  <2>. QED BY <1>2, <1>3, <2>2, <2>3, TypeParts
<1>6. CASE Digest(p)
  <2>. DEFINE list == Titled(Shown(Propagate(pass[p].list)))
  <2>1. list \in Seq(Entry)
    BY <1>0, <1>1, DigestMakes
  <2>2. /\ WithParents(ChangedIds(pass[p].prev, list), list) \subseteq Ids
        /\ Transitions(pass[p].prev, list) \subseteq Ids
    BY <2>1, IdsOfType DEF WithParents, Transitions
  <2>3. [s \in Sources |-> 0] \in Registry /\ [i \in Ids |-> Absent] \in Previous
    BY HubAssumption DEF Registry, Previous, Absent, Stamp
  <2>4. pass'[p] \in Pass /\ pass' = [pass EXCEPT ![p] = pass'[p]]
    <3>1. pass'[p] = [pass[p] EXCEPT !.adapters = [s \in Sources |-> 0],
                        !.prev = [i \in Ids |-> Absent], !.list = list,
                        !.ids = WithParents(ChangedIds(pass[p].prev, list), list),
                        !.trans = Transitions(pass[p].prev, list)]
      BY <1>0, <1>6 DEF Digest
    <3>2. pass' = [pass EXCEPT ![p] = pass'[p]]
      BY <1>0, <1>6, <3>1 DEF Digest
    <3>. HIDE DEF list
    <3>. QED BY <1>1, <2>1, <2>2, <2>3, <3>1, <3>2 DEF Pass
  <2>5. PassTypeOK'
    BY <1>0, <1>6, <2>4 DEF Digest
  <2>6. HubTypeOK' /\ PollTypeOK'
    BY <1>0, <1>6, UnchangedTypes DEF Digest
  <2>. QED BY <1>2, <1>3, <2>5, <2>6, TypeParts
<1>7. CASE Publish(p)
  <2>1. HubTypeOK'
    BY <1>0, <1>1, <1>7 DEF Publish, HubTypeOK, agentVars, registryVars
  <2>2. PassTypeOK' /\ PollTypeOK'
    BY <1>0, <1>1, <1>7, UnchangedTypes DEF Publish
  <2>. QED BY <1>2, <1>3, <2>1, <2>2, TypeParts
<1>8. CASE AnnounceFull(p)
  <2>1. PassTypeOK'
    BY <1>0, <1>8 DEF AnnounceFull
  <2>2. HubTypeOK' /\ PollTypeOK'
    BY <1>0, <1>8, UnchangedTypes DEF AnnounceFull
  <2>. QED BY <1>2, <1>3, <2>1, <2>2, TypeParts
<1>9. CASE AnnounceLiveness(p)
  <2>1. pass'[p] \in Pass /\ pass' = [pass EXCEPT ![p] = pass'[p]]
    <3>1. pass'[p] = [pass[p] EXCEPT !.ids = pass[p].trans]
      BY <1>0, <1>9 DEF AnnounceLiveness
    <3>2. pass' = [pass EXCEPT ![p] = pass'[p]]
      BY <1>0, <1>9, <3>1 DEF AnnounceLiveness
    <3>. QED BY <1>1, <3>1, <3>2 DEF Pass
  <2>2. PassTypeOK'
    BY <1>0, <1>9, <2>1 DEF AnnounceLiveness
  <2>3. HubTypeOK' /\ PollTypeOK'
    BY <1>0, <1>9, UnchangedTypes DEF AnnounceLiveness
  <2>. QED BY <1>2, <1>3, <2>2, <2>3, TypeParts
<1>10. ASSUME EndPass(p, pass[p].live)
       PROVE  /\ lock' \in Callers \union {Free} /\ pc' \in [Callers -> CallerState]
              /\ pass' \in [Callers -> Pass] /\ pollerLive' \in Nat
  BY <1>0, <1>1, <1>10, NewPassType DEF EndPass, PollTypeOK
<1>11. CASE LivenessUnmoved(p)
  <2>1. PassTypeOK' /\ PollTypeOK'
    BY <1>0, <1>10, <1>11 DEF LivenessUnmoved, PollTypeOK
  <2>2. HubTypeOK'
    BY <1>0, <1>11, UnchangedTypes DEF LivenessUnmoved
  <2>. QED BY <1>2, <1>3, <2>1, <2>2, TypeParts
<1>12. CASE Classify(p)
  <2>1. PassTypeOK' /\ PollTypeOK'
    BY <1>0, <1>10, <1>12 DEF Classify, PollTypeOK
  <2>2. HubTypeOK'
    <3>1. sessions' \in Seq(Entry)
      BY <1>0, <1>12, ClassifyExtends
    <3>. QED BY <1>0, <1>12, <3>1 DEF Classify, HubTypeOK, agentVars, registryVars
  <2>. QED BY <1>2, <1>3, <2>1, <2>2, TypeParts
<1>. QED BY <1>4, <1>5, <1>6, <1>7, <1>8, <1>9, <1>11, <1>12 DEF PassStep

\* Steps of the poller outside a pass.
LEMMA PollerStepType ==
  ASSUME TypeOK, PollerStep
  PROVE  TypeOK'
<1>0. HubTypeOK /\ PassTypeOK /\ PollTypeOK /\ AdminTypeOK /\ RestTypeOK
  BY TypeParts
<1>1. UNCHANGED <<hubVars, adminVars, asked>> /\ HubTypeOK' /\ AdminTypeOK'
  <2>1. UNCHANGED <<hubVars, adminVars, asked>>
    BY DEF PollerStep, BeginTick, PollSource, PollFails, EndScan, EndScanWith
  <2>. QED BY <1>0, <2>1, UnchangedTypes
<1>2. RestTypeOK'
  <2>1. faults' \in 0 .. MaxFaults
    BY <1>0, CallFailsType
    DEF RestTypeOK, PollerStep, BeginTick, PollSource, PollFails, EndScan, EndScanWith
  <2>. QED BY <1>0, <1>1, <2>1 DEF RestTypeOK
<1>3. adapters \in Registry /\ clock \in [Sources -> Stamp]
  BY <1>0 DEF HubTypeOK
<1>4. CASE BeginTick
  <2>1. PassTypeOK'
    BY <1>0, <1>4 DEF PassTypeOK, CallerState, BeginTick
  <2>2. PollTypeOK'
    BY <1>0, <1>3, <1>4 DEF PollTypeOK, BeginTick, Registered
  <2>. QED BY <1>1, <1>2, <2>1, <2>2, TypeParts
<1>5. ASSUME NEW s \in Sources, PollSource(s) \/ PollFails(s) PROVE TypeOK'
  <2>1. PassTypeOK'
    BY <1>0, <1>5, UnchangedTypes DEF PollSource, PollFails
  <2>2. PollTypeOK'
    <3>1. CASE PollSource(s)
      <4>1. lastMod' \in [Sources -> Stamp \union {Unseen}]
        BY <1>0, <1>3, <3>1 DEF PollTypeOK, PollSource
      <4>2. scan' \in [todo : SUBSET Sources, adapters : Registry, changed : BOOLEAN]
        BY <1>0, <3>1 DEF PollTypeOK, PollSource
      <4>. QED BY <1>0, <3>1, <4>1, <4>2 DEF PollTypeOK, PollSource
    <3>2. CASE PollFails(s)
      BY <1>0, <3>2 DEF PollTypeOK, PollFails
    <3>. QED BY <1>5, <3>1, <3>2
  <2>. QED BY <1>1, <1>2, <2>1, <2>2, TypeParts
<1>6. CASE EndScan
  <2>1. PassTypeOK'
    BY <1>0, <1>6, NewPassType DEF PassTypeOK, CallerState, EndScan, EndScanWith
  <2>2. PollTypeOK'
    BY <1>0, <1>6 DEF PollTypeOK, EndScan, EndScanWith, NoScan, Registry
  <2>. QED BY <1>1, <1>2, <2>1, <2>2, TypeParts
<1>. QED BY <1>4, <1>5, <1>6 DEF PollerStep

LEMMA SpawnType ==
  ASSUME PassTypeOK, NEW j \in Jobs, Spawn(j)
  PROVE  PassTypeOK'
BY DEF PassTypeOK, CallerState, Spawn, Callers

\* Steps of the source handlers and the reset handler.
LEMMA AdminStepType ==
  ASSUME TypeOK, NEW a \in Admins, AdminRequest(a) \/ AdminStep(a)
  PROVE  TypeOK'
<1>. DEFINE Handler == [op : Ops \union {"none"}, step : Step, src : Sources, enabled : BOOLEAN]
<1>0. HubTypeOK /\ PassTypeOK /\ PollTypeOK /\ AdminTypeOK /\ RestTypeOK
  BY TypeParts
<1>1. UNCHANGED <<pollVars, asked>> /\ PollTypeOK'
  <2>1. UNCHANGED <<pollVars, asked>>
    BY DEF AdminRequest, AdminStep, BeginOp, RemoveStored, AddStored, AddFails, UpdateStored,
           StoreFails, ResetHub
  <2>. QED BY <1>0, <2>1, UnchangedTypes
<1>2. RestTypeOK'
  <2>1. faults' \in 0 .. MaxFaults
    BY <1>0, PipelineAssumption
    DEF RestTypeOK, AdminRequest, AdminStep, BeginOp, RemoveStored, AddStored, AddFails,
        UpdateStored, StoreFails, ResetHub
  <2>. QED BY <1>0, <1>1, <2>1 DEF RestTypeOK
<1>3. /\ admin \in [Admins -> Handler] /\ admin[a] \in Handler /\ admin[a].src \in Sources
      /\ Resting \in Handler
  BY <1>0, RestingType DEF AdminTypeOK
<1>4. ASSUME NEW op \in Ops, NEW s \in Sources, NEW enabled \in BOOLEAN,
             BeginOp(a, op, s, enabled)
      PROVE  TypeOK'
  <2>1. PassTypeOK'
    BY <1>0, <1>4, UnchangedTypes DEF BeginOp
  <2>2. HubTypeOK'
    <3>1. CASE op \in {"remove", "update"} /\ RemoveAdapter(s)
      BY <1>0, <3>1, RegistryStepsType
    <3>2. CASE op = "add" /\ UNCHANGED hubVars
      BY <1>0, <3>2, UnchangedTypes
    <3>3. CASE /\ names' = [i \in Ids |-> Native]
               /\ UNCHANGED <<agentVars, sessions, registryVars, reader, namer>>
      BY <1>0, <3>3 DEF HubTypeOK, agentVars, registryVars
    <3>. QED BY <1>4, <3>1, <3>2, <3>3 DEF BeginOp
  <2>3. AdminTypeOK'
    <3>1. ops' \in 0 .. MaxOps
      BY <1>0, <1>4, PipelineAssumption DEF AdminTypeOK, BeginOp
    <3>2. \E st \in Step, b \in BOOLEAN :
            admin' = [admin EXCEPT ![a] = [op |-> op, step |-> st, src |-> s, enabled |-> b]]
      BY <1>4 DEF BeginOp, Step
    <3>4. admin' \in [Admins -> Handler]
      BY <1>3, <3>2
    <3>3. configured' \in [Sources -> {"absent", "disabled", "enabled"}]
      BY <1>0, <1>4 DEF AdminTypeOK, BeginOp
    <3>. QED BY <3>1, <3>4, <3>3 DEF AdminTypeOK
  <2>. QED BY <1>1, <1>2, <2>1, <2>2, <2>3, TypeParts
<1>5. ASSUME NEW j \in Jobs, RemoveStored(a, j) PROVE TypeOK'
  <2>1. PassTypeOK' /\ HubTypeOK'
    BY <1>0, <1>5, SpawnType, UnchangedTypes DEF RemoveStored
  <2>2. AdminTypeOK'
    BY <1>0, <1>3, <1>5 DEF AdminTypeOK, RemoveStored
  <2>. QED BY <1>1, <1>2, <2>1, <2>2, TypeParts
<1>6. ASSUME NEW j \in Jobs, AddStored(a, j) PROVE TypeOK'
  <2>1. PassTypeOK'
    BY <1>0, <1>6, SpawnType DEF AddStored
  <2>2. HubTypeOK'
    BY <1>0, <1>3, <1>6, RegistryStepsType, UnchangedTypes DEF AddStored
  <2>3. AdminTypeOK'
    BY <1>0, <1>3, <1>6 DEF AdminTypeOK, AddStored
  <2>. QED BY <1>1, <1>2, <2>1, <2>2, <2>3, TypeParts
<1>7. ASSUME NEW j \in Jobs, AddFails(a, j) PROVE TypeOK'
  <2>1. PassTypeOK' /\ HubTypeOK'
    BY <1>0, <1>7, SpawnType, UnchangedTypes DEF AddFails
  <2>2. AdminTypeOK'
    BY <1>0, <1>3, <1>7 DEF AdminTypeOK, AddFails
  <2>. QED BY <1>1, <1>2, <2>1, <2>2, TypeParts
<1>8. CASE UpdateStored(a)
  <2>1. PassTypeOK' /\ HubTypeOK'
    BY <1>0, <1>8, UnchangedTypes DEF UpdateStored
  <2>2. AdminTypeOK'
    <3>1. configured' \in [Sources -> {"absent", "disabled", "enabled"}]
      BY <1>0, <1>8 DEF AdminTypeOK, UpdateStored
    <3>2. admin' \in [Admins -> Handler] /\ UNCHANGED ops
      BY <1>3, <1>8 DEF UpdateStored, Step
    <3>. QED BY <1>0, <3>1, <3>2 DEF AdminTypeOK
  <2>. QED BY <1>1, <1>2, <2>1, <2>2, TypeParts
<1>9. CASE StoreFails(a)
  <2>1. PassTypeOK' /\ HubTypeOK'
    BY <1>0, <1>9, UnchangedTypes DEF StoreFails
  <2>2. AdminTypeOK'
    BY <1>0, <1>3, <1>9 DEF AdminTypeOK, StoreFails
  <2>. QED BY <1>1, <1>2, <2>1, <2>2, TypeParts
<1>10. CASE ResetHub(a)
  <2>1. HubTypeOK'
    <3>1. PICK s \in Sources : TRUE
      BY HubAssumption
    <3>. QED BY <1>0, <1>10, <3>1, RegistryStepsType DEF ResetHub
  <2>2. PassTypeOK'
    BY <1>0, <1>10 DEF PassTypeOK, ResetHub
  <2>3. AdminTypeOK'
    BY <1>0, <1>3, <1>10 DEF AdminTypeOK, ResetHub
  <2>. QED BY <1>1, <1>2, <2>1, <2>2, <2>3, TypeParts
<1>. QED BY <1>4, <1>5, <1>6, <1>7, <1>8, <1>9, <1>10 DEF AdminRequest, AdminStep

LEMMA StatusStepType ==
  ASSUME TypeOK, NEW q \in Probes, StatusAsk(q) \/ StatusReply(q)
  PROVE  TypeOK'
BY TypeParts, UnchangedTypes DEF StatusAsk, StatusReply, RestTypeOK

LEMMA NextType ==
  ASSUME TypeOK, [Next]_vars
  PROVE  TypeOK'
<1>1. CASE UNCHANGED vars
  BY <1>1, TypeParts, UnchangedTypes DEF vars
<1>. QED BY <1>1, HubStepType, PassStepType, PollerStepType, AdminStepType, StatusStepType
         DEF Next

\* Every variable keeps its type: the lists stay sequences of sessions, the
\* counters natural numbers within their bounds, the locals of every goroutine
\* what its next step expects.
THEOREM PipelineTypes == Spec => []TypeOK
<1>1. Init => TypeOK
  BY InitType
<1>2. TypeOK /\ [Next]_vars => TypeOK'
  BY NextType
<1>. QED BY <1>1, <1>2, PTL DEF Spec

-----------------------------------------------------------------------------
(* Exclusion *)

LEMMA InitExclusion == Init => PassesDoNotOverlap
BY PipelineAssumption DEF Init, PassesDoNotOverlap, InPass

LEMMA SpawnKeepsExclusion ==
  ASSUME TypeOK, PassesDoNotOverlap, NEW j \in Jobs, Spawn(j)
  PROVE  PassesDoNotOverlap'
BY DEF TypeOK, PassesDoNotOverlap, InPass, Spawn, Callers

\* Only the steps of a pass, a spawn and the poller's own two touch lock or pc.
LEMMA NextKeepsExclusion ==
  ASSUME TypeOK, PassesDoNotOverlap, [Next]_vars
  PROVE  PassesDoNotOverlap'
<1>. USE DEF PassesDoNotOverlap, InPass
<1>0. pc \in [Callers -> CallerState] /\ Free \notin Callers /\ Poller \in Callers
  BY PipelineAssumption DEF TypeOK, Callers
<1>1. CASE UNCHANGED <<lock, pc>>
  BY <1>1
<1>2. ASSUME NEW p \in Callers, BeginPass(p) PROVE PassesDoNotOverlap'
  BY <1>0, <1>2 DEF BeginPass
<1>3. ASSUME NEW p \in Callers, PassStep(p) PROVE PassesDoNotOverlap'
  <2>1. CASE \E s \in Sources : ListSource(p, s) \/ ListFails(p, s)
    BY <2>1 DEF ListSource, ListFails
  <2>2. CASE Digest(p)
    BY <1>0, <2>2 DEF Digest
  <2>3. CASE Publish(p)
    BY <1>0, <2>3 DEF Publish
  <2>4. CASE AnnounceFull(p)
    BY <1>0, <2>4 DEF AnnounceFull
  <2>5. CASE AnnounceLiveness(p)
    BY <1>0, <2>5 DEF AnnounceLiveness
  <2>6. CASE LivenessUnmoved(p)
    BY <1>0, <2>6 DEF LivenessUnmoved, EndPass
  <2>7. CASE Classify(p)
    BY <1>0, <2>7 DEF Classify, EndPass
  <2>. QED BY <1>3, <2>1, <2>2, <2>3, <2>4, <2>5, <2>6, <2>7 DEF PassStep
<1>4. CASE PollerStep
  <2>1. CASE BeginTick
    BY <1>0, <2>1 DEF BeginTick
  <2>2. CASE \E s \in Sources : PollSource(s) \/ PollFails(s)
    BY <2>2 DEF PollSource, PollFails, passVars
  <2>3. CASE EndScan
    BY <1>0, <2>3 DEF EndScan, EndScanWith
  <2>. QED BY <1>4, <2>1, <2>2, <2>3 DEF PollerStep
<1>5. ASSUME NEW a \in Admins, AdminRequest(a) \/ AdminStep(a) PROVE PassesDoNotOverlap'
  <2>1. CASE \E j \in Jobs : RemoveStored(a, j) \/ AddStored(a, j) \/ AddFails(a, j)
    BY <2>1, SpawnKeepsExclusion DEF RemoveStored, AddStored, AddFails
  <2>2. CASE AdminRequest(a) \/ UpdateStored(a) \/ StoreFails(a) \/ ResetHub(a)
    BY <2>2 DEF AdminRequest, BeginOp, UpdateStored, StoreFails, ResetHub, passVars
  <2>. QED BY <1>5, <2>1, <2>2 DEF AdminStep
<1>6. HubStep \/ UNCHANGED vars \/ (\E q \in Probes : StatusAsk(q) \/ StatusReply(q))
        => UNCHANGED <<lock, pc>>
  BY DEF HubStep, vars, passVars, StatusAsk, StatusReply
<1>. QED BY <1>1, <1>2, <1>3, <1>4, <1>5, <1>6 DEF Next

\* Passes never overlap: from its snapshot to its last classification a pass
\* has p.mu to itself, whatever jobs, handlers and ticks come in between.
THEOREM PassExclusion == Spec => []PassesDoNotOverlap
<1>1. Init => TypeOK /\ PassesDoNotOverlap
  BY InitType, InitExclusion
<1>2. TypeOK /\ PassesDoNotOverlap /\ [Next]_vars => (TypeOK /\ PassesDoNotOverlap)'
  BY NextType, NextKeepsExclusion
<1>. QED BY <1>1, <1>2, PTL DEF Spec

-----------------------------------------------------------------------------
(* What a pass works on is what the cache holds *)

\* The cache as steps outside a pass leave it: entries keep their place.
CacheGrows ==
  /\ DOMAIN sessions \subseteq DOMAIN sessions'
  /\ \A k \in DOMAIN sessions : SameSession(sessions[k], sessions'[k])

LEMMA GrowthKeepsHead ==
  ASSUME NEW list, HeadOf(list, sessions), CacheGrows
  PROVE  HeadOf(list, sessions')
BY DEF HeadOf, CacheGrows, SameSession

LEMMA HubStepGrows ==
  ASSUME TypeOK, HubStep
  PROVE  CacheGrows
<1>1. HubTypeOK /\ sessions \in Seq(Entry)
  BY DEF TypeOK, HubTypeOK
<1>2. CASE sessions' = sessions
  BY <1>2 DEF CacheGrows, SameSession
<1>3. ASSUME NEW e \in Entry, sessions' = Append(sessions, e) PROVE CacheGrows
  BY <1>1, <1>3, AppendProperties, LenProperties DEF CacheGrows, SameSession
<1>4. ASSUME NEW i \in Ids, AgentWrites(i) \/ SessionAges(i) PROVE CacheGrows
  BY <1>1, <1>2, <1>4, AgentStepsType
<1>5. ASSUME NEW r \in Readers, ReaderRequest(r) \/ ReaderStep(r) PROVE CacheGrows
  BY <1>1, <1>2, <1>3, <1>5, ReaderStepsType DEF ReaderRequest, ReaderStep
<1>6. ASSUME NEW n \in Namers, NamerRequest(n) \/ NameCache(n) PROVE CacheGrows
  <2>1. \/ \E i \in Ids : ClearNameStore(n, i) \/ \E t \in Titles : SetNameStore(n, i, t)
        \/ NameCache(n)
    BY <1>6, HubAssumption DEF NamerRequest
  <2>. QED BY <1>1, <2>1, NamerStepsType DEF CacheGrows, SameSession
<1>. QED BY <1>4, <1>5, <1>6 DEF HubStep

LEMMA NextKeepsHead ==
  ASSUME TypeOK, PassesDoNotOverlap, PassesDoNotOverlap', PassReadsItsOwnList, [Next]_vars
  PROVE  PassReadsItsOwnList'
<1>0. pc \in [Callers -> CallerState] /\ pass \in [Callers -> Pass] /\ Poller \in Callers
      /\ sessions \in Seq(Entry)
  BY DEF TypeOK, HubTypeOK, Callers
<1>1. CASE UNCHANGED <<pc, pass, wiped>> /\ CacheGrows
  BY <1>1, GrowthKeepsHead DEF PassReadsItsOwnList
<1>2. sessions' = sessions => CacheGrows
  BY DEF CacheGrows, SameSession
<1>3. CASE HubStep
  BY <1>1, <1>3, HubStepGrows DEF HubStep, passVars
<1>4. ASSUME NEW p \in Callers, BeginPass(p) PROVE PassReadsItsOwnList'
  BY <1>0, <1>4 DEF BeginPass, hubVars, PassReadsItsOwnList, PassesDoNotOverlap, InPass
<1>5. ASSUME NEW p \in Callers, PassStep(p) PROVE PassReadsItsOwnList'
  <2>1. \A q \in Callers : q # p => pc[q] \notin InPass
    <3>1. lock = p
      BY <1>5 DEF PassStep, ListSource, ListFails, Digest, Publish, AnnounceFull, LivenessUnmoved,
                  AnnounceLiveness, Classify, PassesDoNotOverlap, InPass
    <3>. QED BY <3>1 DEF PassesDoNotOverlap
  <2>. USE DEF PassReadsItsOwnList, InPass
  <2>2. CASE \E s \in Sources : ListSource(p, s) \/ ListFails(p, s)
    BY <1>0, <2>1, <2>2 DEF ListSource, ListFails
  <2>3. CASE Digest(p)
    BY <1>0, <2>1, <2>3 DEF Digest
  <2>4. CASE Publish(p)
    BY <1>0, <2>1, <2>4 DEF Publish, HeadOf, SameSession
  <2>5. CASE AnnounceFull(p)
    BY <1>0, <2>1, <2>5 DEF AnnounceFull, hubVars
  <2>6. CASE AnnounceLiveness(p)
    BY <1>0, <2>1, <2>6 DEF AnnounceLiveness, hubVars
  <2>7. CASE LivenessUnmoved(p)
    BY <1>0, <2>1, <2>7 DEF LivenessUnmoved, EndPass
  <2>8. CASE Classify(p)
    BY <1>0, <2>1, <2>8 DEF Classify, EndPass
  <2>. QED BY <1>5, <2>2, <2>3, <2>4, <2>5, <2>6, <2>7, <2>8 DEF PassStep
<1>6. CASE PollerStep
  <2>1. CASE BeginTick
    BY <1>0, <2>1 DEF BeginTick, hubVars, PassReadsItsOwnList
  <2>2. CASE \E s \in Sources : PollSource(s) \/ PollFails(s)
    BY <1>1, <1>2, <2>2 DEF PollSource, PollFails, passVars, hubVars
  <2>3. CASE EndScan
    BY <1>0, <2>3 DEF EndScan, EndScanWith, hubVars, PassReadsItsOwnList
  <2>. QED BY <1>6, <2>1, <2>2, <2>3 DEF PollerStep
<1>7. ASSUME NEW a \in Admins, AdminRequest(a) \/ AdminStep(a) PROVE PassReadsItsOwnList'
  <2>1. ASSUME NEW j \in Jobs, Spawn(j), sessions' = sessions PROVE PassReadsItsOwnList'
    BY <1>0, <2>1 DEF Spawn, PassReadsItsOwnList, Callers
  <2>2. ASSUME NEW j \in Jobs, RemoveStored(a, j) \/ AddStored(a, j) \/ AddFails(a, j)
        PROVE  PassReadsItsOwnList'
    BY <2>1, <2>2 DEF RemoveStored, AddStored, AddFails, AddAdapter, hubVars
  <2>3. CASE AdminRequest(a) \/ UpdateStored(a) \/ StoreFails(a)
    BY <1>1, <1>2, <2>3 DEF AdminRequest, BeginOp, RemoveAdapter, UpdateStored, StoreFails,
                            passVars, hubVars
  <2>4. CASE ResetHub(a)
    BY <2>4 DEF ResetHub, PassReadsItsOwnList
  <2>. QED BY <1>7, <2>2, <2>3, <2>4 DEF AdminStep
<1>8. CASE (\E q \in Probes : StatusAsk(q) \/ StatusReply(q)) \/ UNCHANGED vars
  BY <1>1, <1>2, <1>8 DEF StatusAsk, StatusReply, vars, passVars, hubVars
<1>. QED BY <1>3, <1>4, <1>5, <1>6, <1>7, <1>8 DEF Next

\* From its publication to its end a pass announces and classifies the sessions
\* that the cache shows: its list stays the head of the cache under appends and
\* renames, unless a reset empties the cache.
THEOREM PassAgreement == Spec => []PassReadsItsOwnList
<1>. DEFINE I == TypeOK /\ PassesDoNotOverlap /\ PassReadsItsOwnList
<1>1. Init => I
  BY InitType, InitExclusion DEF Init, PassReadsItsOwnList
<1>2. I /\ [Next]_vars => I'
  BY NextType, NextKeepsExclusion, NextKeepsHead
<1>3. I => PassReadsItsOwnList
  OBVIOUS
<1>. QED BY <1>1, <1>2, <1>3, PTL DEF Spec

-----------------------------------------------------------------------------
(* No published list goes back in time *)

LEMMA InitFresh == Init => StampsAreOrdered /\ ListsAreFresh
<1>1. Init => StampsAreOrdered
  BY HubAssumption DEF Init, HubInit, StampsAreOrdered
<1>2. Init => ListsAreFresh
  BY EmptySeq DEF Init, ListsAreFresh, NotFromTheFuture, CallerState
<1>. QED BY <1>1, <1>2

LEMMA ListingIsCurrent ==
  ASSUME HubTypeOK, NEW s \in Sources
  PROVE  \A k \in DOMAIN Listing(s) :
           /\ Listing(s)[k].id \in Ids
           /\ Listing(s)[k].upd = upd[Listing(s)[k].id]
<1>. DEFINE ids == {i \in Ids : SourceOf[i] = s /\ upd[i] > 0}
<1>1. SetToSeq(ids) \in Seq(ids)
  <2>1. IsFiniteSet(ids)
    BY FS_Subset, HubAssumption
  <2>. HIDE DEF ids
  <2>. QED BY <2>1, SetToSeqType
<1>2. Listing(s) = [k \in DOMAIN SetToSeq(ids) |-> Fetch(SetToSeq(ids)[k], Native)]
  BY DEF Listing
<1>3. ids \subseteq Ids
  OBVIOUS
<1>. HIDE DEF ids
<1>4. \A k \in DOMAIN SetToSeq(ids) : SetToSeq(ids)[k] \in Ids
  BY <1>1, <1>3, LenProperties, ElementOfSeq
<1>. QED BY <1>2, <1>4 DEF Fetch

LEMMA ConcatElements ==
  ASSUME NEW l \in Seq(Entry), NEW m \in Seq(Entry), NEW k \in DOMAIN (l \o m)
  PROVE  \/ \E j \in DOMAIN l : (l \o m)[k] = l[j]
         \/ \E j \in DOMAIN m : (l \o m)[k] = m[j]
<1>1. /\ Len(l) \in Nat /\ DOMAIN l = 1 .. Len(l)
      /\ Len(m) \in Nat /\ DOMAIN m = 1 .. Len(m)
  BY LenProperties
<1>2. /\ DOMAIN (l \o m) = 1 .. Len(l) + Len(m)
      /\ (l \o m)[k] = IF k <= Len(l) THEN l[k] ELSE m[k - Len(l)]
  BY ConcatProperties, LenProperties
<1>3. CASE k <= Len(l)
  BY <1>1, <1>2, <1>3
<1>4. CASE k > Len(l)
  <2>1. k - Len(l) \in DOMAIN m /\ (l \o m)[k] = m[k - Len(l)]
    BY <1>1, <1>2, <1>4
  <2>. QED BY <2>1
<1>. QED BY <1>1, <1>2, <1>3, <1>4

\* Stamps only grow, so lists that were not from the future stay so.
LEMMA LaterIsFresh ==
  ASSUME HubTypeOK, HubTypeOK', \A i \in Ids : upd[i] <= upd'[i],
         NEW list \in Seq(Entry), NotFromTheFuture(list)
  PROVE  \A k \in DOMAIN list : list[k].upd <= upd'[list[k].id]
<1>. SUFFICES ASSUME NEW k \in DOMAIN list PROVE list[k].upd <= upd'[list[k].id]
  OBVIOUS
<1>1. list[k] \in Entry
  BY LenProperties, ElementOfSeq
<1>2. list[k].upd \in Nat /\ upd[list[k].id] \in Nat /\ upd'[list[k].id] \in Nat
      /\ upd[list[k].id] <= upd'[list[k].id]
  BY <1>1, HubAssumption DEF Entry, HubTypeOK, Stamp
<1>3. list[k].upd <= upd[list[k].id]
  BY DEF NotFromTheFuture
<1>. QED BY <1>2, <1>3

\* A list that is made from a fresh one is fresh.
LEMMA MadeIsFresh ==
  ASSUME NEW old, NEW new, MadeFrom(old, new)
  PROVE  /\ NotFromTheFuture(old) => NotFromTheFuture(new)
         /\ \A before : NoOlderThan(before, old) => NoOlderThan(before, new)
<1>1. NotFromTheFuture(old) => NotFromTheFuture(new)
  BY DEF MadeFrom, NotFromTheFuture
<1>2. \A before : NoOlderThan(before, old) => NoOlderThan(before, new)
  BY DEF MadeFrom, NoOlderThan
<1>. QED BY <1>1, <1>2

\* Listing one more source keeps a list fresh: its sessions are shown as they
\* are now, and nothing published is newer than that.
LEMMA ListingKeepsFresh ==
  ASSUME HubTypeOK, NEW s \in Sources, NEW list \in Seq(Entry), published \in Seq(Entry),
         NotFromTheFuture(published), NotFromTheFuture(list), NoOlderThan(published, list)
  PROVE  /\ NotFromTheFuture(list \o Listing(s))
         /\ NoOlderThan(published, list \o Listing(s))
<1>. DEFINE new == list \o Listing(s)
<1>1. Listing(s) \in Seq(Entry)
  BY ListingType
<1>2. \A k \in DOMAIN new : \/ \E j \in DOMAIN list : new[k] = list[j]
                            \/ \E j \in DOMAIN Listing(s) : new[k] = Listing(s)[j]
  BY <1>1, ConcatElements
<1>3. \A k \in DOMAIN Listing(s) : /\ Listing(s)[k].upd = upd[Listing(s)[k].id]
                                   /\ upd[Listing(s)[k].id] \in Int
  BY ListingIsCurrent, HubAssumption DEF HubTypeOK, Stamp
<1>. HIDE DEF new
<1>4. NotFromTheFuture(new)
  BY <1>2, <1>3 DEF NotFromTheFuture
<1>5. NoOlderThan(published, new)
  BY <1>2, <1>3 DEF NotFromTheFuture, NoOlderThan
<1>. QED BY <1>4, <1>5 DEF new

\* Only the agents move upd and clock, and they move them forward.
LEMMA StampsGrow ==
  ASSUME TypeOK, StampsAreOrdered, [Next]_vars
  PROVE  StampsAreOrdered' /\ \A i \in Ids : upd[i] <= upd'[i]
<1>0. HubTypeOK /\ upd \in [Ids -> Nat]
  BY HubAssumption DEF TypeOK, HubTypeOK, Stamp
<1>1. CASE UNCHANGED <<upd, clock>>
  BY <1>0, <1>1 DEF StampsAreOrdered
<1>2. ASSUME NEW i \in Ids, AgentWrites(i) \/ SessionAges(i)
      PROVE  StampsAreOrdered' /\ \A j \in Ids : upd[j] <= upd'[j]
  BY <1>0, <1>2, AgentStepsType DEF StampsAreOrdered
<1>3. ASSUME NEW r \in Readers, ReaderRequest(r) \/ ReaderStep(r) PROVE UNCHANGED <<upd, clock>>
  BY <1>3 DEF ReaderRequest, ReaderStep, ResolveLookup, ResolveHit, ResolveMiss, ResolveAppend,
              agentVars
<1>4. ASSUME NEW n \in Namers, NamerRequest(n) \/ NameCache(n) PROVE UNCHANGED <<upd, clock>>
  BY <1>4 DEF NamerRequest, NameCache, SetNameStore, ClearNameStore, agentVars
<1>5. ASSUME NEW p \in Callers, BeginPass(p) \/ PassStep(p) PROVE UNCHANGED <<upd, clock>>
  BY <1>5 DEF BeginPass, PassStep, ListSource, ListFails, Digest, Publish, AnnounceFull,
              LivenessUnmoved, AnnounceLiveness, Classify, hubVars, agentVars
<1>6. CASE PollerStep
  BY <1>1, <1>6 DEF PollerStep, BeginTick, PollSource, PollFails, EndScan, EndScanWith, hubVars
<1>7. ASSUME NEW a \in Admins, AdminRequest(a) \/ AdminStep(a) PROVE UNCHANGED <<upd, clock>>
  BY <1>7 DEF AdminRequest, AdminStep, BeginOp, RemoveStored, AddStored, AddFails, UpdateStored,
              StoreFails, ResetHub, AddAdapter, RemoveAdapter, CloseAdapters, hubVars, agentVars
<1>8. CASE (\E q \in Probes : StatusAsk(q) \/ StatusReply(q)) \/ UNCHANGED vars
  BY <1>1, <1>8 DEF StatusAsk, StatusReply, vars, hubVars
<1>. QED BY <1>1, <1>2, <1>3, <1>4, <1>5, <1>6, <1>7, <1>8 DEF Next, HubStep

\* ListsAreFresh about one caller.
FreshFor(p) == pc[p] \in {"list", "publish"} =>
                 NotFromTheFuture(pass[p].list) /\ NoOlderThan(published, pass[p].list)

\* A step that publishes nothing and leaves p's list alone keeps p's list fresh.
LEMMA FreshForKept ==
  ASSUME TypeOK, TypeOK', \A i \in Ids : upd[i] <= upd'[i], published' = published,
         NEW p \in Callers, FreshFor(p),
         \/ pc'[p] \notin {"list", "publish"}
         \/ pc'[p] = pc[p] /\ pass'[p] = pass[p]
  PROVE  FreshFor(p)'
<1>1. HubTypeOK /\ HubTypeOK' /\ pass[p].list \in Seq(Entry)
  BY DEF TypeOK, Pass
<1>2. CASE pc'[p] \notin {"list", "publish"}
  BY <1>2 DEF FreshFor
<1>3. CASE pc'[p] = pc[p] /\ pass'[p] = pass[p] /\ pc[p] \in {"list", "publish"}
  <2>1. NotFromTheFuture(pass[p].list) /\ NoOlderThan(published, pass[p].list)
    BY <1>3 DEF FreshFor
  <2>2. \A k \in DOMAIN pass[p].list : pass[p].list[k].upd <= upd'[pass[p].list[k].id]
    BY <1>1, <2>1, LaterIsFresh
  <2>. QED BY <1>3, <2>1, <2>2 DEF FreshFor, NotFromTheFuture, NoOlderThan
<1>. QED BY <1>2, <1>3

\* The steps that publish nothing and list nothing.
Quiet ==
  /\ published' = published
  /\ \A p \in Callers : \/ pc'[p] \notin {"list", "publish"}
                        \/ pc'[p] = pc[p] /\ pass'[p] = pass[p]

LEMMA QuietOrPass ==
  ASSUME TypeOK, [Next]_vars
  PROVE  \/ Quiet
         \/ \E p \in Callers : \/ BeginPass(p) \/ Digest(p) \/ Publish(p)
                               \/ \E s \in Sources : ListSource(p, s) \/ ListFails(p, s)
<1>. USE DEF Quiet
<1>0. pc \in [Callers -> CallerState] /\ pass \in [Callers -> Pass] /\ Poller \in Callers
  BY DEF TypeOK, Callers
<1>1. CASE UNCHANGED <<pc, pass, published>>
  BY <1>1
<1>2. ASSUME NEW p \in Callers, AnnounceFull(p) \/ AnnounceLiveness(p) PROVE Quiet
  BY <1>0, <1>2 DEF AnnounceFull, AnnounceLiveness
<1>3. ASSUME NEW p \in Callers, LivenessUnmoved(p) \/ Classify(p) PROVE Quiet
  BY <1>0, <1>3 DEF LivenessUnmoved, Classify, EndPass
<1>4. CASE PollerStep
  <2>1. CASE BeginTick
    BY <1>0, <2>1 DEF BeginTick
  <2>2. CASE \E s \in Sources : PollSource(s) \/ PollFails(s)
    BY <2>2 DEF PollSource, PollFails, passVars
  <2>3. CASE EndScan
    BY <1>0, <2>3 DEF EndScan, EndScanWith
  <2>. QED BY <1>4, <2>1, <2>2, <2>3 DEF PollerStep
<1>5. ASSUME NEW j \in Jobs, Spawn(j) PROVE Quiet
  BY <1>0, <1>5 DEF Spawn
<1>6. ASSUME NEW a \in Admins, AdminRequest(a) \/ AdminStep(a) PROVE Quiet
  <2>1. CASE \E j \in Jobs : RemoveStored(a, j) \/ AddStored(a, j) \/ AddFails(a, j)
    BY <1>5, <2>1 DEF RemoveStored, AddStored, AddFails
  <2>2. CASE AdminRequest(a) \/ UpdateStored(a) \/ StoreFails(a) \/ ResetHub(a)
    BY <2>2 DEF AdminRequest, BeginOp, UpdateStored, StoreFails, ResetHub, passVars
  <2>. QED BY <1>6, <2>1, <2>2 DEF AdminStep
<1>7. CASE HubStep \/ UNCHANGED vars \/ (\E q \in Probes : StatusAsk(q) \/ StatusReply(q))
  BY <1>1, <1>7 DEF HubStep, vars, passVars, StatusAsk, StatusReply
<1>. HIDE DEF Quiet
<1>. QED BY <1>2, <1>3, <1>4, <1>6, <1>7 DEF Next, PassStep

LEMMA NextKeepsFresh ==
  ASSUME TypeOK, TypeOK', PassesDoNotOverlap, StampsAreOrdered, ListsAreFresh, [Next]_vars
  PROVE  ListsAreFresh'
<1>1. \A i \in Ids : upd[i] <= upd'[i]
  BY StampsGrow
<1>2. /\ HubTypeOK /\ HubTypeOK' /\ published \in Seq(Entry)
      /\ pc \in [Callers -> CallerState] /\ pass \in [Callers -> Pass]
      /\ \A p \in Callers : pass[p].list \in Seq(Entry)
  BY DEF TypeOK, Pass
<1>3. NotFromTheFuture(published) /\ \A p \in Callers : FreshFor(p)
  BY DEF ListsAreFresh, FreshFor
<1>4. SUFFICES NotFromTheFuture(published)' /\ \A p \in Callers : FreshFor(p)'
  BY DEF ListsAreFresh, FreshFor
<1>5. published' = published => NotFromTheFuture(published)'
  <2>1. \A k \in DOMAIN published : published[k].upd <= upd'[published[k].id]
    BY <1>1, <1>2, <1>3, LaterIsFresh
  <2>. QED BY <2>1 DEF NotFromTheFuture
<1>6. CASE Quiet
  BY <1>1, <1>3, <1>5, <1>6, FreshForKept DEF Quiet
<1>7. ASSUME NEW p \in Callers, published' = published, FreshFor(p)',
             \A q \in Callers \ {p} : pc'[q] = pc[q] /\ pass'[q] = pass[q]
      PROVE  NotFromTheFuture(published)' /\ \A q \in Callers : FreshFor(q)'
  BY <1>1, <1>3, <1>5, <1>7, FreshForKept
<1>8. ASSUME NEW p \in Callers, BeginPass(p)
      PROVE  NotFromTheFuture(published)' /\ \A q \in Callers : FreshFor(q)'
  <2>1. pass'[p].list = <<>>
    BY <1>2, <1>8 DEF BeginPass, NewPass
  <2>2. FreshFor(p)'
    BY <2>1 DEF FreshFor, NotFromTheFuture, NoOlderThan
  <2>3. published' = published /\ \A q \in Callers \ {p} : pc'[q] = pc[q] /\ pass'[q] = pass[q]
    BY <1>2, <1>8 DEF BeginPass
  <2>. QED BY <1>7, <2>2, <2>3
<1>9. ASSUME NEW p \in Callers, NEW s \in Sources, ListSource(p, s) \/ ListFails(p, s)
      PROVE  NotFromTheFuture(published)' /\ \A q \in Callers : FreshFor(q)'
  <2>1. NotFromTheFuture(pass[p].list) /\ NoOlderThan(published, pass[p].list)
    BY <1>3, <1>9 DEF FreshFor, ListSource, ListFails
  <2>2. published' = published /\ upd' = upd
    BY <1>9 DEF ListSource, ListFails, hubVars, agentVars
  <2>5. \A q \in Callers \ {p} : pc'[q] = pc[q] /\ pass'[q] = pass[q]
    <3>1. CASE ListSource(p, s)
      BY <1>2, <3>1, Zenon DEF ListSource
    <3>2. CASE ListFails(p, s)
      BY <1>2, <3>2, Zenon DEF ListFails
    <3>. QED BY <1>9, <3>1, <3>2
  <2>6. pass'[p].list \in {pass[p].list, pass[p].list \o Listing(s)}
    <3>1. CASE ListSource(p, s)
      <4>1. pass'[p] = [pass[p] EXCEPT !.todo = @ \ {s}, !.list = @ \o Listing(s),
                                       !.live = @ + LiveCount(Listing(s))]
        BY <1>2, <3>1, Zenon DEF ListSource
      <4>2. pass'[p].list = pass[p].list \o Listing(s)
        BY <1>2, <4>1 DEF Pass
      <4>. QED BY <4>2
    <3>2. CASE ListFails(p, s)
      BY <1>2, <3>2 DEF ListFails, Pass
    <3>. QED BY <1>9, <3>1, <3>2
  <2>3. /\ NotFromTheFuture(pass[p].list \o Listing(s))
        /\ NoOlderThan(published, pass[p].list \o Listing(s))
    BY <1>2, <1>3, <2>1, ListingKeepsFresh
  <2>4. FreshFor(p)'
    BY <2>1, <2>2, <2>3, <2>6 DEF FreshFor, NotFromTheFuture, NoOlderThan
  <2>. QED BY <1>7, <2>2, <2>4, <2>5
<1>10. ASSUME NEW p \in Callers, Digest(p)
       PROVE  NotFromTheFuture(published)' /\ \A q \in Callers : FreshFor(q)'
  <2>. DEFINE old == pass[p].list
              new == Titled(Shown(Propagate(old)))
  <2>1. NotFromTheFuture(old) /\ NoOlderThan(published, old)
    BY <1>3, <1>10 DEF FreshFor, Digest
  <2>2. MadeFrom(old, new)
    BY <1>2, DigestMakes
  <2>3. published' = published /\ upd' = upd /\ pass'[p].list = new
    BY <1>2, <1>10 DEF Digest, hubVars, agentVars
  <2>6. \A q \in Callers \ {p} : pc'[q] = pc[q] /\ pass'[q] = pass[q]
    BY <1>2, <1>10, Zenon DEF Digest
  <2>. HIDE DEF old, new
  <2>4. NotFromTheFuture(new) /\ NoOlderThan(published, new)
    BY <2>1, <2>2, MadeIsFresh
  <2>5. FreshFor(p)'
    BY <2>3, <2>4 DEF FreshFor, NotFromTheFuture
  <2>. QED BY <1>7, <2>3, <2>5, <2>6
<1>11. ASSUME NEW p \in Callers, Publish(p)
       PROVE  NotFromTheFuture(published)' /\ \A q \in Callers : FreshFor(q)'
  <2>1. NotFromTheFuture(pass[p].list)
    BY <1>3, <1>11 DEF FreshFor, Publish
  <2>2. published' = pass[p].list /\ upd' = upd
    BY <1>11 DEF Publish, agentVars
  <2>3. NotFromTheFuture(published)'
    BY <2>1, <2>2 DEF NotFromTheFuture
  <2>4. \A q \in Callers : pc'[q] \notin {"list", "publish"}
    <3>1. \A q \in Callers : q # p => pc[q] \notin InPass
      BY <1>11 DEF Publish, PassesDoNotOverlap, InPass
    <3>. QED BY <1>2, <1>11, <3>1 DEF Publish, InPass
  <2>. QED BY <2>3, <2>4 DEF FreshFor
<1>. QED BY <1>6, <1>8, <1>9, <1>10, <1>11, QuietOrPass

\* PipelineInv, the inductive invariant behind the three theorems above and the
\* one below, holds for every instance (state.go, Pipeline; hub.go, refreshSessions).
THEOREM PipelineInvariant == Spec => []PipelineInv
<1>1. Init => PipelineInv
  BY InitType, InitExclusion, InitFresh DEF Init, PipelineInv, PassReadsItsOwnList
<1>2. PipelineInv /\ [Next]_vars => PipelineInv'
  BY NextType, NextKeepsExclusion, NextKeepsHead, StampsGrow, NextKeepsFresh DEF PipelineInv
<1>. QED BY <1>1, <1>2, PTL DEF Spec

\* A published list never shows an older state of a session than the list it
\* replaces, although a pass lists without h.mu and publishes later.
THEOREM PublicationIsMonotone == Spec => PublishedNeverRegresses
<1>1. PipelineInv /\ [Next]_vars => [NoOlderThan(published, published')]_published
  <2>. SUFFICES ASSUME PipelineInv, [Next]_vars, published' # published
                PROVE  NoOlderThan(published, published')
    OBVIOUS
  <2>1. PICK p \in Callers : Publish(p)
    BY QuietOrPass DEF PipelineInv, Quiet, BeginPass, Digest, ListSource, ListFails
  <2>. QED BY <2>1 DEF Publish, PipelineInv, ListsAreFresh
<1>. QED BY <1>1, PipelineInvariant, PTL DEF Spec, PublishedNeverRegresses

-----------------------------------------------------------------------------
(* The ancestors of a session *)

\* Induction up to a bound.
LEMMA UptoInd ==
  ASSUME NEW n \in Nat, NEW T, 0 \in T, \A m \in 0 .. n - 1 : m \in T => m + 1 \in T
  PROVE  0 .. n \subseteq T
<1>. SUFFICES ASSUME (0 .. n) \ T # {} PROVE FALSE
  OBVIOUS
<1>. DEFINE U == (0 .. n) \ T
<1>0. U \in SUBSET Nat /\ U \subseteq 0 .. n /\ U # {}
  OBVIOUS
<1>1. PICK x \in U : \A y \in U : x <= y
  <2>. HIDE DEF U
  <2>. QED BY <1>0, LeastNat
<1>2. x \in 1 .. n
  BY <1>1
<1>3. x - 1 \in 0 .. n - 1 /\ x - 1 \in T
  BY <1>1, <1>2
<1>4. x - 1 + 1 \in T
  BY <1>3
<1>. QED BY <1>1, <1>2, <1>4

\* The recursion of Lineage, up to n.
Climbed(list, i, n, up) ==
  up = [m \in 0 .. n |->
          IF m = 0 THEN {i}
          ELSE up[m - 1] \union ({Parent[j] : j \in up[m - 1] \intersect IdsOf(list)}
                                   \ {NoParent})]

LEMMA Climbs ==
  ASSUME NEW list, NEW i, NEW n \in Nat
  PROVE  \E up : Climbed(list, i, n, up)
<1>. DEFINE T == {m \in 0 .. n : \E up : Climbed(list, i, m, up)}
            Above(S) == S \union ({Parent[j] : j \in S \intersect IdsOf(list)} \ {NoParent})
<1>1. 0 \in T
  <2>. DEFINE g == [m \in 0 .. 0 |-> {i}]
  <2>1. \A m \in 0 .. 0 : m = 0
    OBVIOUS
  <2>2. Climbed(list, i, 0, g)
    BY <2>1 DEF Climbed
  <2>. QED BY <2>2
<1>2. ASSUME NEW m \in 0 .. n - 1, m \in T PROVE m + 1 \in T
  <2>1. PICK up : Climbed(list, i, m, up)
    BY <1>2
  <2>2. \A k \in 0 .. m : up[k] = IF k = 0 THEN {i} ELSE Above(up[k - 1])
    BY <2>1 DEF Climbed
  <2>. DEFINE g == [k \in 0 .. m + 1 |-> IF k = 0 THEN {i} ELSE Above(up[k - 1])]
  <2>3. g = [k \in 0 .. m + 1 |-> g[k]] /\ \A k \in 0 .. m + 1 : g[k] = IF k = 0 THEN {i} ELSE Above(up[k - 1])
    OBVIOUS
  <2>. HIDE DEF g, Above, T
  <2>4. \A k \in 0 .. m : g[k] = up[k]
    <3>1. m \in Nat /\ \A k \in 0 .. m : k \in 0 .. m + 1
      BY <1>2
    <3>. QED BY <2>2, <2>3, <3>1
  <2>5. \A k \in 0 .. m + 1 : k # 0 => g[k - 1] = up[k - 1]
    BY <2>4
  <2>6. \A k \in 0 .. m + 1 : g[k] = IF k = 0 THEN {i} ELSE Above(g[k - 1])
    BY <2>3, <2>5
  <2>7. Climbed(list, i, m + 1, g)
    BY <2>3, <2>6 DEF Climbed, Above
  <2>8. \E h : Climbed(list, i, m + 1, h)
    BY <2>7
  <2>. QED BY <1>2, <2>8 DEF T
<1>3. n \in T
  <2>. HIDE DEF T
  <2>. QED BY <1>1, <1>2, UptoInd
<1>. QED BY <1>3

\* A session's lineage holds the parent of every listed session it holds: each
\* turn of the recursion adds a session or ends it, and there are Cardinality(Ids).
LEMMA LineageIsClosed ==
  ASSUME NEW list \in Seq(Entry), NEW i \in Ids
  PROVE  /\ i \in Lineage(list, i)
         /\ \A j \in Lineage(list, i) \intersect IdsOf(list) :
              Parent[j] # NoParent => Parent[j] \in Lineage(list, i)
<1>. DEFINE N == Cardinality(Ids)
            Over(S) == {Parent[j] : j \in S \intersect IdsOf(list)} \ {NoParent}
            up == CHOOSE f : Climbed(list, i, N, f)
            T == {m \in 0 .. N : /\ i \in up[m] /\ up[m] \in SUBSET Ids
                                 /\ Over(up[m]) \subseteq up[m] \/ Cardinality(up[m]) > m}
<1>1. N \in Nat /\ IsFiniteSet(Ids)
  BY HubAssumption, FS_CardinalityType
<1>2. Climbed(list, i, N, up)
  <2>. HIDE DEF N
  <2>. QED BY <1>1, Climbs
<1>3. Lineage(list, i) = up[N]
  BY DEF Lineage, Climbed
<1>. HIDE DEF N, up
<1>4. /\ up[0] = {i}
      /\ \A m \in 1 .. N : up[m] = up[m - 1] \union Over(up[m - 1])
  <2>1. \A m \in 0 .. N : up[m] = IF m = 0 THEN {i} ELSE up[m - 1] \union Over(up[m - 1])
    BY <1>2 DEF Climbed
  <2>2. up[0] = {i}
    <3>1. 0 \in 0 .. N
      BY <1>1
    <3>. HIDE DEF Over
    <3>. QED BY <2>1, <3>1
  <2>3. ASSUME NEW m \in 1 .. N PROVE up[m] = up[m - 1] \union Over(up[m - 1])
    <3>1. m \in 0 .. N /\ m # 0
      BY <1>1
    <3>. HIDE DEF Over
    <3>. QED BY <2>1, <3>1
  <2>. QED BY <2>2, <2>3
<1>5. IdsOf(list) \subseteq Ids
  <2>1. \A k \in DOMAIN list : list[k] \in Entry
    BY LenProperties, ElementOfSeq
  <2>. QED BY <2>1 DEF IdsOf, Entry
<1>6. \A S \in SUBSET Ids : Over(S) \in SUBSET Ids
  BY <1>5, HubAssumption
<1>7. \A S \in SUBSET Ids : IsFiniteSet(S) /\ Cardinality(S) \in Nat
  BY <1>1, FS_Subset, FS_CardinalityType
<1>8. \A S, U \in SUBSET Ids : S \subseteq U /\ S # U => Cardinality(S) < Cardinality(U)
  BY <1>7, FS_Subset
<1>. HIDE DEF Over
<1>9. 0 \in T
  <2>1. Cardinality({i}) = 1 /\ {i} \in SUBSET Ids
    BY FS_Singleton
  <2>2. i \in up[0] /\ up[0] \in SUBSET Ids /\ Cardinality(up[0]) > 0
    BY <1>4, <2>1
  <2>3. 0 \in 0 .. N
    BY <1>1
  <2>. QED BY <2>2, <2>3
<1>10. ASSUME NEW m \in 0 .. N - 1, m \in T PROVE m + 1 \in T
  <2>1. up[m + 1] = up[m] \union Over(up[m])
    <3>1. m + 1 \in 1 .. N /\ m + 1 - 1 = m
      BY <1>1
    <3>. QED BY <1>4, <3>1
  <2>2. i \in up[m + 1] /\ up[m + 1] \in SUBSET Ids
    BY <1>6, <1>10, <2>1
  <2>3. CASE Over(up[m]) \subseteq up[m]
    <3>1. up[m + 1] = up[m]
      BY <2>1, <2>3
    <3>. QED BY <1>1, <2>2, <2>3, <3>1
  <2>4. CASE ~ (Over(up[m]) \subseteq up[m])
    <3>1. Cardinality(up[m]) > m /\ up[m] \in SUBSET Ids
      BY <1>10, <2>4
    <3>2. Cardinality(up[m]) < Cardinality(up[m + 1])
      BY <1>8, <2>1, <2>2, <2>4, <3>1
    <3>3. Cardinality(up[m + 1]) > m + 1
      BY <1>7, <2>2, <3>1, <3>2
    <3>. QED BY <1>1, <2>2, <3>3
  <2>. QED BY <2>3, <2>4
<1>11. N \in T
  <2>. HIDE DEF T
  <2>1. 0 .. N \subseteq T
    BY <1>1, <1>9, <1>10, UptoInd
  <2>. QED BY <1>1, <2>1
<1>12. Over(up[N]) \subseteq up[N]
  <2>1. Cardinality(up[N]) <= N
    BY <1>1, <1>11, FS_Subset DEF N
  <2>. QED BY <1>1, <1>7, <1>11, <2>1
<1>13. \A j \in up[N] \intersect IdsOf(list) : Parent[j] # NoParent => Parent[j] \in up[N]
  BY <1>12 DEF Over
<1>. QED BY <1>3, <1>11, <1>13

-----------------------------------------------------------------------------
(* The list a pass publishes *)

\* The parts of PublishedIsWellFormed, of any list.
Once(list) == \A j, k \in DOMAIN list : list[j].id = list[k].id => j = k
ParentsWork(list) ==
  \A j, k \in DOMAIN list :
    (list[j].active /\ Parent[list[j].id] = list[k].id) => list[k].active
WellFormed(list) == Once(list) /\ (\A k \in DOMAIN list : list[k].shown) /\ ParentsWork(list)

\* While a pass lists, no session of a source it has still to list is in its list.
ListsOnce(p) ==
  pc[p] = "list" =>
    /\ Once(pass[p].list)
    /\ \A k \in DOMAIN pass[p].list : SourceOf[pass[p].list[k].id] \notin pass[p].todo
Formed(p) == ListsOnce(p) /\ (pc[p] = "publish" => WellFormed(pass[p].list))

FormInv == WellFormed(published) /\ \A p \in Callers : Formed(p)

\* An adapter lists a session once, and sessions of its own source only.
LEMMA ListingOnce ==
  ASSUME HubTypeOK, NEW s \in Sources
  PROVE  Once(Listing(s)) /\ \A k \in DOMAIN Listing(s) : SourceOf[Listing(s)[k].id] = s
<1>. DEFINE ids == {i \in Ids : SourceOf[i] = s /\ upd[i] > 0}
            order == SetToSeq(ids)
<1>1. IsFiniteSet(ids)
  BY FS_Subset, HubAssumption
<1>2. Listing(s) = [k \in DOMAIN order |-> Fetch(order[k], Native)]
  BY DEF Listing
<1>3. \A i \in ids : SourceOf[i] = s
  OBVIOUS
<1>. HIDE DEF ids
<1>4. order \in Seq(ids) /\ IsInjective(order)
  BY <1>1, SetToSeqType
<1>5. \A k \in DOMAIN order : order[k] \in ids
  BY <1>4, LenProperties, ElementOfSeq
<1>6. \A j, k \in DOMAIN order : order[j] = order[k] => j = k
  BY <1>4 DEF IsInjective
<1>. HIDE DEF order
<1>7. DOMAIN Listing(s) = DOMAIN order /\ \A k \in DOMAIN order : Listing(s)[k].id = order[k]
  BY <1>2 DEF Fetch
<1>. QED BY <1>3, <1>5, <1>6, <1>7 DEF Once

\* Two lists without a common session make a list without duplicates.
LEMMA ConcatOnce ==
  ASSUME NEW l \in Seq(Entry), NEW m \in Seq(Entry), Once(l), Once(m),
         \A j \in DOMAIN l, k \in DOMAIN m : l[j].id # m[k].id
  PROVE  Once(l \o m)
<1>1. /\ Len(l) \in Nat /\ DOMAIN l = 1 .. Len(l)
      /\ Len(m) \in Nat /\ DOMAIN m = 1 .. Len(m)
  BY LenProperties
<1>2. /\ DOMAIN (l \o m) = 1 .. Len(l) + Len(m)
      /\ \A k \in 1 .. Len(l) + Len(m) : (l \o m)[k] = IF k <= Len(l) THEN l[k] ELSE m[k - Len(l)]
  BY ConcatProperties, LenProperties
<1>3. SUFFICES ASSUME NEW j \in 1 .. Len(l) + Len(m), NEW k \in 1 .. Len(l) + Len(m),
                      (l \o m)[j].id = (l \o m)[k].id
               PROVE  j = k
  BY <1>2 DEF Once
<1>4. CASE j <= Len(l) /\ k <= Len(l)
  <2>1. j \in DOMAIN l /\ k \in DOMAIN l /\ l[j].id = l[k].id
    BY <1>1, <1>2, <1>3, <1>4
  <2>. QED BY <2>1 DEF Once
<1>5. CASE j > Len(l) /\ k > Len(l)
  <2>1. j - Len(l) \in DOMAIN m /\ k - Len(l) \in DOMAIN m /\ m[j - Len(l)].id = m[k - Len(l)].id
    BY <1>1, <1>2, <1>3, <1>5
  <2>2. j - Len(l) = k - Len(l)
    BY <2>1 DEF Once
  <2>. QED BY <1>1, <2>2
<1>6. CASE j <= Len(l) /\ k > Len(l)
  <2>1. j \in DOMAIN l /\ k - Len(l) \in DOMAIN m /\ l[j].id = m[k - Len(l)].id
    BY <1>1, <1>2, <1>3, <1>6
  <2>. QED BY <2>1
<1>7. CASE j > Len(l) /\ k <= Len(l)
  <2>1. k \in DOMAIN l /\ j - Len(l) \in DOMAIN m /\ l[k].id = m[j - Len(l)].id
    BY <1>1, <1>2, <1>3, <1>7
  <2>. QED BY <2>1
<1>. QED BY <1>1, <1>4, <1>5, <1>6, <1>7

\* After propagateActive the listed parent of a working session works: what makes
\* the child work has the parent among its ancestors too.
LEMMA PropagateWakes ==
  ASSUME NEW list \in Seq(Entry)
  PROVE  /\ Once(list) => Once(Propagate(list))
         /\ ParentsWork(Propagate(list))
<1>. DEFINE new == Propagate(list)
            Live(k) == \E j \in DOMAIN list :
                          list[j].active /\ list[k].id \in Lineage(list, list[j].id)
<1>1. \A k \in DOMAIN list : list[k] \in Entry
  BY LenProperties, ElementOfSeq
<1>2. DOMAIN new = DOMAIN list
      /\ \A k \in DOMAIN list : new[k].id = list[k].id /\ (new[k].active <=> Live(k))
  <2>1. new = [k \in DOMAIN list |-> [list[k] EXCEPT !.active = Live(k)]]
    BY DEF Propagate
  <2>. HIDE DEF new, Live
  <2>. QED BY <1>1, <2>1 DEF Entry
<1>. HIDE DEF new
<1>3. ASSUME NEW j \in DOMAIN list, NEW k \in DOMAIN list, Live(j), Parent[list[j].id] = list[k].id
      PROVE  Live(k)
  <2>1. PICK h \in DOMAIN list : list[h].active /\ list[j].id \in Lineage(list, list[h].id)
    BY <1>3
  <2>2. list[h].id \in Ids /\ list[k].id \in Ids
    BY <1>1 DEF Entry
  <2>3. list[j].id \in IdsOf(list) /\ Parent[list[j].id] # NoParent
    BY <1>3, <2>2, HubAssumption DEF IdsOf
  <2>4. list[k].id \in Lineage(list, list[h].id)
    BY <1>3, <2>1, <2>2, <2>3, LineageIsClosed
  <2>. QED BY <2>1, <2>4
<1>. HIDE DEF Live
<1>4. ParentsWork(new)
  BY <1>2, <1>3 DEF ParentsWork
<1>5. Once(list) => Once(new)
  BY <1>2 DEF Once
<1>. QED BY <1>4, <1>5 DEF new

\* The filter and the overrides spoil nothing: statuses are settled before them.
LEMMA ShownForms ==
  ASSUME NEW list \in Seq(Entry), Once(list), ParentsWork(list)
  PROVE  WellFormed(Shown(list))
<1>. DEFINE kept == {k \in DOMAIN list : list[k].shown}
            order == SetToSeq(kept)
<1>1. IsFiniteSet(kept)
  <2>1. IsFiniteSet(DOMAIN list)
    BY LenProperties, FS_Interval
  <2>. QED BY <2>1, FS_Subset
<1>2. Shown(list) = [n \in DOMAIN order |-> list[order[n]]]
  BY DEF Shown
<1>3. \A k \in kept : k \in DOMAIN list /\ list[k].shown
  OBVIOUS
<1>. HIDE DEF kept
<1>4. order \in Seq(kept) /\ IsInjective(order)
  BY <1>1, SetToSeqType
<1>5. \A n \in DOMAIN order : order[n] \in kept
  BY <1>4, LenProperties, ElementOfSeq
<1>6. \A m, n \in DOMAIN order : order[m] = order[n] => m = n
  BY <1>4 DEF IsInjective
<1>. HIDE DEF order
<1>7. \A n \in DOMAIN order : order[n] \in DOMAIN list /\ list[order[n]].shown
  BY <1>3, <1>5
<1>8. Once(Shown(list))
  BY <1>2, <1>6, <1>7 DEF Once
<1>9. ParentsWork(Shown(list))
  BY <1>2, <1>7 DEF ParentsWork
<1>. QED BY <1>2, <1>7, <1>8, <1>9 DEF WellFormed

LEMMA TitledForms ==
  ASSUME NEW list \in Seq(Entry), WellFormed(list)
  PROVE  WellFormed(Titled(list))
<1>1. \A k \in DOMAIN list : list[k] \in Entry
  BY LenProperties, ElementOfSeq
<1>2. /\ DOMAIN Titled(list) = DOMAIN list
      /\ \A k \in DOMAIN list : /\ Titled(list)[k].id = list[k].id
                                /\ Titled(list)[k].active = list[k].active
                                /\ Titled(list)[k].shown = list[k].shown
  BY <1>1 DEF Titled, Entry
<1>. QED BY <1>2 DEF WellFormed, Once, ParentsWork

LEMMA DigestForms ==
  ASSUME NEW list \in Seq(Entry), Once(list)
  PROVE  WellFormed(Titled(Shown(Propagate(list))))
<1>1. Propagate(list) \in Seq(Entry)
  BY PropagateMakes
<1>2. Shown(Propagate(list)) \in Seq(Entry)
  BY <1>1, ShownMakes
<1>. QED BY <1>1, <1>2, PropagateWakes, ShownForms, TitledForms

LEMMA NextKeepsForm ==
  ASSUME TypeOK, TypeOK', FormInv, [Next]_vars
  PROVE  FormInv'
<1>1. /\ HubTypeOK
      /\ pc \in [Callers -> CallerState] /\ pass \in [Callers -> Pass]
      /\ \A p \in Callers : pass[p].list \in Seq(Entry)
  BY DEF TypeOK, Pass
<1>2. ASSUME NEW q \in Callers, pc'[q] \notin {"list", "publish"}
             \/ (pc'[q] = pc[q] /\ pass'[q] = pass[q])
      PROVE  Formed(q)'
  BY <1>2 DEF FormInv, Formed, ListsOnce
<1>3. CASE Quiet
  BY <1>2, <1>3 DEF Quiet, FormInv, WellFormed, Once, ParentsWork
<1>4. ASSUME NEW p \in Callers, published' = published, Formed(p)',
             \A q \in Callers \ {p} : pc'[q] = pc[q] /\ pass'[q] = pass[q]
      PROVE  FormInv'
  BY <1>2, <1>4 DEF FormInv, WellFormed, Once, ParentsWork
<1>5. ASSUME NEW p \in Callers, BeginPass(p) PROVE FormInv'
  <2>1. pass'[p].list = <<>> /\ pc'[p] = "list"
    BY <1>1, <1>5 DEF BeginPass, NewPass
  <2>2. Formed(p)'
    BY <2>1 DEF Formed, ListsOnce, Once
  <2>3. published' = published /\ \A q \in Callers \ {p} : pc'[q] = pc[q] /\ pass'[q] = pass[q]
    BY <1>1, <1>5 DEF BeginPass
  <2>. QED BY <1>4, <2>2, <2>3
<1>6. ASSUME NEW p \in Callers, NEW s \in Sources, ListSource(p, s) PROVE FormInv'
  <2>. DEFINE list == pass[p].list
  <2>1. /\ list \in Seq(Entry) /\ Once(list) /\ s \in pass[p].todo
        /\ \A k \in DOMAIN list : SourceOf[list[k].id] \notin pass[p].todo
    BY <1>1, <1>6 DEF FormInv, Formed, ListsOnce, ListSource
  <2>2. pass'[p] = [pass[p] EXCEPT !.todo = @ \ {s}, !.list = @ \o Listing(s),
                                   !.live = @ + LiveCount(Listing(s))]
    BY <1>1, <1>6, Zenon DEF ListSource
  <2>3. pass'[p].list = list \o Listing(s) /\ pass'[p].todo = pass[p].todo \ {s}
    BY <1>1, <2>2 DEF Pass
  <2>4. Listing(s) \in Seq(Entry) /\ Once(Listing(s))
        /\ \A k \in DOMAIN Listing(s) : SourceOf[Listing(s)[k].id] = s
    BY <1>1, ListingType, ListingOnce
  <2>. HIDE DEF list
  <2>5. Once(list \o Listing(s))
    BY <2>1, <2>4, ConcatOnce
  <2>6. \A k \in DOMAIN (list \o Listing(s)) :
          SourceOf[(list \o Listing(s))[k].id] \notin pass[p].todo \ {s}
    <3>. SUFFICES ASSUME NEW k \in DOMAIN (list \o Listing(s))
                  PROVE  SourceOf[(list \o Listing(s))[k].id] \notin pass[p].todo \ {s}
      OBVIOUS
    <3>1. \/ \E j \in DOMAIN list : (list \o Listing(s))[k] = list[j]
          \/ \E j \in DOMAIN Listing(s) : (list \o Listing(s))[k] = Listing(s)[j]
      BY <2>1, <2>4, ConcatElements
    <3>. QED BY <2>1, <2>4, <3>1
  <2>7. pc' = pc /\ published' = published
    BY <1>6 DEF ListSource
  <2>8. Formed(p)'
    BY ZenonT(30), <1>6, <2>3, <2>5, <2>6, <2>7 DEF Formed, ListsOnce, Once, ListSource
  <2>9. \A q \in Callers \ {p} : pc'[q] = pc[q] /\ pass'[q] = pass[q]
    BY <1>1, <1>6, Zenon DEF ListSource
  <2>. QED BY <1>4, <2>7, <2>8, <2>9
<1>7. ASSUME NEW p \in Callers, NEW s \in Sources, ListFails(p, s) PROVE FormInv'
  <2>1. pass'[p].list = pass[p].list /\ pass'[p].todo \subseteq pass[p].todo
    BY <1>1, <1>7 DEF ListFails, Pass
  <2>2. pc' = pc /\ published' = published /\ pc[p] = "list"
    BY <1>7 DEF ListFails
  <2>3. Formed(p)'
    BY <2>1, <2>2 DEF FormInv, Formed, ListsOnce, Once
  <2>4. \A q \in Callers \ {p} : pc'[q] = pc[q] /\ pass'[q] = pass[q]
    BY <1>1, <1>7, Zenon DEF ListFails
  <2>. QED BY <1>4, <2>2, <2>3, <2>4
<1>8. ASSUME NEW p \in Callers, Digest(p) PROVE FormInv'
  <2>. DEFINE old == pass[p].list
              new == Titled(Shown(Propagate(old)))
  <2>1. Once(old) /\ old \in Seq(Entry)
    BY <1>1, <1>8 DEF FormInv, Formed, ListsOnce, Digest
  <2>2. WellFormed(new)
    BY <2>1, DigestForms
  <2>3. published' = published /\ pc'[p] = "publish" /\ pass'[p].list = new
    BY <1>1, <1>8 DEF Digest
  <2>4. \A q \in Callers \ {p} : pc'[q] = pc[q] /\ pass'[q] = pass[q]
    BY <1>1, <1>8, Zenon DEF Digest
  <2>. HIDE DEF old, new
  <2>5. Formed(p)'
    BY <2>2, <2>3 DEF Formed, ListsOnce, WellFormed, Once, ParentsWork
  <2>. QED BY <1>4, <2>3, <2>4, <2>5
<1>9. ASSUME NEW p \in Callers, Publish(p) PROVE FormInv'
  <2>1. published' = pass[p].list /\ pass' = pass /\ WellFormed(pass[p].list)
    BY <1>9 DEF Publish, FormInv, Formed
  <2>2. \A q \in Callers : pc'[q] = IF q = p THEN "announce" ELSE pc[q]
    BY <1>1, <1>9 DEF Publish
  <2>3. \A q \in Callers : Formed(q)'
    BY <1>2, <2>1, <2>2
  <2>4. WellFormed(published)'
    BY <2>1 DEF WellFormed, Once, ParentsWork
  <2>. QED BY <2>3, <2>4 DEF FormInv
<1>. QED BY <1>3, <1>5, <1>6, <1>7, <1>8, <1>9, QuietOrPass

\* Every published list names a session once, shows no empty Copilot session, and
\* has no parent resting while a listed child works, for any forest of sessions
\* (hub.go, refreshSessions and propagateActive).
THEOREM PublicationIsWellFormed == Spec => []PublishedIsWellFormed
<1>1. Init => FormInv
  <2>. SUFFICES ASSUME Init PROVE FormInv
    OBVIOUS
  <2>1. published = <<>> /\ \A p \in Callers : pc[p] \in {"wait", "idle"}
    BY DEF Init
  <2>. QED BY <2>1 DEF FormInv, Formed, ListsOnce, WellFormed, Once, ParentsWork
<1>2. TypeOK /\ TypeOK' /\ FormInv /\ [Next]_vars => FormInv'
  BY NextKeepsForm
<1>3. FormInv => PublishedIsWellFormed
  BY DEF FormInv, WellFormed, Once, ParentsWork, PublishedIsWellFormed
<1>. QED BY <1>1, <1>2, <1>3, PipelineTypes, PTL DEF Spec

-----------------------------------------------------------------------------
(* The registry and the sources table, one handler at a time *)

Agrees(s) ==
  /\ configured[s] = "enabled" => adapters[s] # 0
  /\ adapters[s] # 0 => configured[s] # "absent"

\* What a handler that is half-way has done and still owes.
Halfway(a) ==
  LET h == admin[a] s == h.src IN
  /\ h.step \in {"store", "add"} => \A t \in Sources \ {s} : Agrees(t)
  /\ h.step = "store" => adapters[s] = 0
  /\ h.step = "add" => /\ configured[s] = "enabled" => h.enabled
                       /\ IF h.op = "update" THEN adapters[s] = 0
                                             ELSE configured[s] # "absent"
  /\ h.step = "close" => \A t \in Sources : configured[t] = "absent"

RegistryInv ==
  faults = 0 => /\ (\A a \in Admins : admin[a] = Resting) => \A s \in Sources : Agrees(s)
                /\ \A a \in Admins : Halfway(a)

\* Only the steps of a handler touch the table, the registry or the handlers.
LEMMA OnlyHandlersRegister ==
  ASSUME TypeOK, [Next]_vars
  PROVE  \/ UNCHANGED <<adapters, configured, admin>> /\ (faults' = 0 => faults = 0)
         \/ \E a \in Admins : AdminRequest(a) \/ AdminStep(a)
<1>. DEFINE Apart == UNCHANGED <<adapters, configured, admin>> /\ (faults' = 0 => faults = 0)
<1>0. faults \in Nat
  BY PipelineAssumption DEF TypeOK
<1>1. \A instance : CallFails(instance) => (faults' = 0 => faults = 0)
  BY <1>0 DEF CallFails
<1>2. CASE HubStep
  <2>1. UNCHANGED <<configured, admin, faults>>
    BY <1>2 DEF HubStep, adminVars
  <2>2. ASSUME NEW i \in Ids, AgentWrites(i) \/ SessionAges(i) PROVE adapters' = adapters
    BY <2>2 DEF AgentWrites, SessionAges, registryVars
  <2>3. ASSUME NEW r \in Readers, ReaderRequest(r) \/ ReaderStep(r) PROVE adapters' = adapters
    BY <2>3 DEF ReaderRequest, ReaderStep, ResolveLookup, ResolveHit, ResolveMiss, ResolveAppend,
                registryVars
  <2>4. ASSUME NEW n \in Namers, NamerRequest(n) \/ NameCache(n) PROVE adapters' = adapters
    BY <2>4 DEF NamerRequest, ClearNameStore, SetNameStore, NameCache, registryVars
  <2>. QED BY <1>2, <2>1, <2>2, <2>3, <2>4 DEF HubStep
<1>3. ASSUME NEW p \in Callers, BeginPass(p) \/ PassStep(p) PROVE Apart
  <2>1. CASE BeginPass(p)
    BY <2>1 DEF BeginPass, hubVars, adminVars
  <2>2. CASE \E s \in Sources : ListSource(p, s)
    BY <2>2 DEF ListSource, hubVars, adminVars
  <2>3. CASE \E s \in Sources : ListFails(p, s)
    BY <1>1, <2>3 DEF ListFails, hubVars, adminVars
  <2>4. CASE Digest(p)
    BY <2>4 DEF Digest, hubVars, adminVars
  <2>5. CASE Publish(p)
    BY <2>5 DEF Publish, registryVars, adminVars
  <2>6. CASE AnnounceFull(p) \/ LivenessUnmoved(p) \/ AnnounceLiveness(p)
    BY <2>6 DEF AnnounceFull, LivenessUnmoved, AnnounceLiveness, hubVars, adminVars
  <2>7. CASE Classify(p)
    BY <2>7 DEF Classify, registryVars, adminVars
  <2>. QED BY <1>3, <2>1, <2>2, <2>3, <2>4, <2>5, <2>6, <2>7 DEF PassStep
<1>4. CASE PollerStep
  <2>1. CASE BeginTick
    BY <2>1 DEF BeginTick, hubVars, adminVars
  <2>2. CASE \E t \in Sources : PollSource(t)
    BY <2>2 DEF PollSource, hubVars, adminVars
  <2>3. CASE \E t \in Sources : PollFails(t)
    BY <1>1, <2>3 DEF PollFails, hubVars, adminVars
  <2>4. CASE EndScan
    BY <2>4 DEF EndScan, EndScanWith, hubVars, adminVars
  <2>. QED BY <1>4, <2>1, <2>2, <2>3, <2>4 DEF PollerStep
<1>5. CASE UNCHANGED vars \/ (\E q \in Probes : StatusAsk(q) \/ StatusReply(q))
  BY <1>5 DEF vars, StatusAsk, StatusReply, hubVars, adminVars
<1>. QED BY <1>2, <1>3, <1>4, <1>5 DEF Next

\* A step of the one handler there is leaves the registry and the table agreeing,
\* or itself owing what makes them agree.
LEMMA HandlerKeepsRegistry ==
  ASSUME TypeOK, RegistryInv, \A x, y \in Admins : x = y,
         NEW a \in Admins, AdminRequest(a) \/ AdminStep(a)
  PROVE  RegistryInv'
<1>. DEFINE s == admin[a].src
<1>0. /\ Admins = {a} /\ faults \in Nat /\ created \in Nat /\ s \in Sources
      /\ admin \in [Admins -> [op : Ops \union {"none"}, step : Step,
                               src : Sources, enabled : BOOLEAN]]
      /\ configured \in [Sources -> {"absent", "disabled", "enabled"}]
      /\ adapters \in [Sources -> Nat]
  BY PipelineAssumption, HubAssumption DEF TypeOK, HubTypeOK, Registry
<1>1. SUFFICES ASSUME faults' = 0
               PROVE  /\ admin'[a] = Resting => \A t \in Sources : Agrees(t)'
                      /\ Halfway(a)'
  BY <1>0 DEF RegistryInv
<1>2. faults' >= faults
  BY <1>0 DEF AdminRequest, AdminStep, BeginOp, RemoveStored, StoreFails, UpdateStored,
              AddStored, AddFails, ResetHub
<1>3. faults = 0 /\ Halfway(a) /\ (admin[a] = Resting => \A t \in Sources : Agrees(t))
  BY <1>0, <1>1, <1>2 DEF RegistryInv
<1>4. Resting.step = "idle"
  BY DEF Resting
<1>5. ASSUME NEW op \in Ops, NEW t \in Sources, NEW enabled \in BOOLEAN, BeginOp(a, op, t, enabled)
      PROVE  admin'[a].step # "idle" /\ Halfway(a)'
  <2>1. \A u \in Sources : Agrees(u)
    BY <1>3, <1>5 DEF BeginOp
  <2>2. CASE op \in {"remove", "update"}
    BY <1>0, <1>5, <2>1, <2>2 DEF BeginOp, RemoveAdapter, Halfway, Agrees
  <2>3. CASE op = "add"
    BY <1>0, <1>5, <2>1, <2>3 DEF BeginOp, Halfway, Agrees, hubVars, registryVars
  <2>4. CASE op = "reset"
    BY <1>0, <1>5, <2>4 DEF BeginOp, Halfway
  <2>. QED BY <1>5, <2>2, <2>3, <2>4 DEF BeginOp
<1>6. ASSUME admin'[a] = Resting, \A t \in Sources : Agrees(t)'
      PROVE  (admin'[a] = Resting => \A t \in Sources : Agrees(t)') /\ Halfway(a)'
  BY <1>4, <1>6 DEF Halfway
<1>7. ASSUME NEW j \in Jobs, RemoveStored(a, j)
      PROVE  admin'[a] = Resting /\ \A t \in Sources : Agrees(t)'
  BY <1>0, <1>3, <1>7 DEF RemoveStored, Halfway, Agrees, hubVars
<1>8. CASE UpdateStored(a)
  BY <1>0, <1>3, <1>4, <1>8 DEF UpdateStored, Halfway, Agrees, hubVars
<1>9. ASSUME NEW j \in Jobs, AddStored(a, j)
      PROVE  admin'[a] = Resting /\ \A t \in Sources : Agrees(t)'
  <2>1. CASE admin[a].enabled /\ (admin[a].op = "update" => configured[s] # "absent")
    BY <1>0, <1>3, <1>9, <2>1 DEF AddStored, AddAdapter, Halfway, Agrees
  <2>2. CASE ~(admin[a].enabled /\ (admin[a].op = "update" => configured[s] # "absent"))
    BY <1>0, <1>3, <1>9, <2>2 DEF AddStored, Halfway, Agrees, hubVars
  <2>. QED BY <2>1, <2>2
<1>10. CASE ResetHub(a)
  <2>1. \A t \in Sources : adapters'[t] = 0 /\ configured'[t] = "absent"
    BY <1>3, <1>10 DEF ResetHub, CloseAdapters, Halfway
  <2>. QED BY <1>0, <1>6, <1>10, <2>1 DEF ResetHub, Agrees
<1>11. CASE StoreFails(a) \/ \E j \in Jobs : AddFails(a, j)
  BY <1>0, <1>1, <1>11 DEF StoreFails, AddFails
<1>. QED BY <1>4, <1>5, <1>6, <1>7, <1>8, <1>9, <1>10, <1>11 DEF AdminRequest, AdminStep

\* With one handler at a time, and no failed call, the adapters the hub holds
\* are those of the sources table whenever no handler is half-way (server.go,
\* handleAddSource, handleRemoveSource, handleUpdateSource and handleReset).
THEOREM RegistryFollowsTable ==
  ASSUME \A x, y \in Admins : x = y
  PROVE  Spec => []RegistryMatchesTable
<1>1. Init => RegistryInv
  BY DEF Init, RegistryInv, Agrees, Halfway, Resting
<1>2. TypeOK /\ RegistryInv /\ [Next]_vars => RegistryInv'
  <2>. SUFFICES ASSUME TypeOK, RegistryInv, [Next]_vars PROVE RegistryInv'
    OBVIOUS
  <2>1. CASE UNCHANGED <<adapters, configured, admin>> /\ (faults' = 0 => faults = 0)
    BY <2>1 DEF RegistryInv, Agrees, Halfway
  <2>. QED BY <2>1, OnlyHandlersRegister, HandlerKeepsRegistry
<1>3. RegistryInv => RegistryMatchesTable
  BY DEF RegistryInv, RegistryMatchesTable, Agrees
<1>. QED BY <1>1, <1>2, <1>3, PipelineTypes, PTL DEF Spec
=============================================================================
