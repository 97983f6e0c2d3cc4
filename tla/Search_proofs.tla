---------------------------- MODULE Search_proofs ----------------------------
(***************************************************************************)
(* Search, from the table that answers it to the drawer that shows it.       *)
(*                                                                         *)
(* The index is sound for any sessions, contents, scratch files, handlers, *)
(* faults and crashes: the rows of a session are one reading of it, each     *)
(* there once, and its stored hash is that of its rows.                      *)
(*                                                                         *)
(* The shell is sound for any sessions, families, lists, transcripts, tags,  *)
(* searches and number of intents: the reducer and the rendered route agree, *)
(* a jump has one target, the drawer's results are of its text, and one of   *)
(* them is selected.                                                         *)
(***************************************************************************)
EXTENDS Indexer, AppShell, SequenceLemmas

-----------------------------------------------------------------------------
(* The index *)

PassState == {"idle", "next", "plan", "files", "compare", "clear", "agent", "unscratch",
              "scratch", "store"}
SaverState == {"idle", "list", "clear", "write", "reread", "relist", "store"}

PassType == [at : PassState, todo : SUBSET Ids, titles : [Ids -> Titles], id : Ids,
             read : Content, left : SUBSET Files]
SaverType == [at : SaverState, id : Ids, left : SUBSET Files, read : Content]

IndexTypeOK ==
  /\ title \in [Ids -> Titles]
  /\ plan \in [Ids -> 0 .. MaxPlans]
  /\ said \in [Ids -> 0 .. MaxMsgs]
  /\ files \in [Ids -> FileState]
  /\ rows \in [Ids -> [Row -> Nat]]
  /\ hash \in [Ids -> Content \union {NoHash}]
  /\ doubt \in [Ids -> SUBSET {"torn", "lost", "saved"}]
  /\ pass \in PassType
  /\ saver \in [Savers -> SaverType]

\* The bag that has each row of a set once.
Exactly(set) == [r \in Row |-> IF r \in set THEN 1 ELSE 0]

\* What the pass has written of the session it rewrites.
Rewriting == {"agent", "unscratch", "scratch", "store"}
Written ==
  (IF pass.at = "agent" THEN {} ELSE AgentRows(pass.read))
    \union (IF pass.at \in {"scratch", "store"}
              THEN {ScratchRow(f, pass.read.files[f]) : f \in HasText(pass.read.files) \ pass.left}
              ELSE {})

\* A session being rewritten has no name, plan or message rows before they are
\* written; and unless a write was lost or a handler came in between, it has what
\* is written and nothing else.  Until then its hash is not trusted.
RewriteInv ==
  /\ pass.at = "agent" => \A r \in Row : r.part # "scratch" => rows[pass.id][r] = 0
  /\ pass.at = "store" => HasText(pass.read.files) = {}
  /\ pass.at = "scratch" => pass.left \subseteq HasText(pass.read.files)
  /\ pass.at \in Rewriting =>
       /\ "torn" \in doubt[pass.id]
       /\ doubt[pass.id] = {"torn"} => rows[pass.id] = Exactly(Written)

IndexInv == IndexTypeOK /\ OneReading /\ HashTellsTruth /\ RewriteInv

-----------------------------------------------------------------------------
(* Rows *)

LEMMA AgentRowsShape ==
  ASSUME NEW c \in Content
  PROVE  AgentRows(c) \subseteq Row /\ \A r \in AgentRows(c) : r.part # "scratch"
BY IndexerAssumption DEF Content, AgentRows, Row

LEMMA ScratchRowShape ==
  ASSUME NEW fs \in FileState, NEW f \in HasText(fs)
  PROVE  /\ f \in Files
         /\ ScratchRow(f, fs[f]) \in Row /\ ScratchRow(f, fs[f]).part = "scratch"
         /\ \A g, t : ScratchRow(f, fs[f]) = ScratchRow(g, t) => g = f
BY IndexerAssumption DEF FileState, HasText, ScratchRow, Row

LEMMA AddedType ==
  ASSUME NEW bag \in [Row -> Nat], NEW set
  PROVE  Added(bag, set) \in [Row -> Nat] /\ Without(bag, "scratch") \in [Row -> Nat]
BY DEF Added, Without

LEMMA AddedExactly ==
  ASSUME NEW old, NEW new, old \intersect new = {}
  PROVE  Added(Exactly(old), new) = Exactly(old \union new)
BY DEF Added, Exactly

LEMMA BlankType == Blank \in FileState /\ HasText(Blank) = {}
BY IndexerAssumption DEF Blank, FileState, HasText

LEMMA RestingTypes ==
  /\ NoContent \in Content
  /\ RestingPass \in PassType
  /\ RestingSaver \in SaverType
<1>1. NoContent \in Content
  BY IndexerAssumption, BlankType DEF NoContent, Content
<1>2. (CHOOSE i \in Ids : TRUE) \in Ids /\ (CHOOSE t \in Titles : TRUE) \in Titles
  BY IndexerAssumption
<1>3. [i \in Ids |-> CHOOSE t \in Titles : TRUE] \in [Ids -> Titles]
  BY <1>2
<1>4. "idle" \in PassState /\ "idle" \in SaverState
  BY DEF PassState, SaverState
<1>. HIDE DEF PassState, SaverState
<1>. QED BY <1>1, <1>2, <1>3, <1>4 DEF RestingPass, RestingSaver, PassType, SaverType

LEMMA ProceedType ==
  ASSUME IndexTypeOK, NEW todo \in SUBSET Ids, Proceed(todo)
  PROVE  /\ pass' \in PassType
         /\ pass'.at \in {"idle", "next"}
BY RestingTypes, IndexerAssumption DEF IndexTypeOK, Proceed, RestingPass, PassState, PassType

-----------------------------------------------------------------------------
(* Types *)

LEMMA ContentStepType ==
  ASSUME IndexTypeOK, NEW i \in Ids,
         AgentSays(i) \/ AgentPlans(i) \/ \E t \in Titles : Rename(i, t)
  PROVE  IndexTypeOK'
<1>1. CASE AgentSays(i)
  BY <1>1, IndexerAssumption DEF IndexTypeOK, AgentSays, tableVars
<1>2. CASE AgentPlans(i)
  BY <1>2, IndexerAssumption DEF IndexTypeOK, AgentPlans, tableVars
<1>3. CASE \E t \in Titles : Rename(i, t)
  BY <1>3 DEF IndexTypeOK, Rename, tableVars
<1>. QED BY <1>1, <1>2, <1>3

LEMMA WritingType ==
  ASSUME IndexTypeOK, NEW i \in Ids, NEW set, NEW lost, Writing(i, set, lost)
  PROVE  rows' \in [Ids -> [Row -> Nat]] /\ doubt' \in [Ids -> SUBSET {"torn", "lost", "saved"}]
<1>1. rows[i] \in [Row -> Nat] /\ rows \in [Ids -> [Row -> Nat]]
      /\ doubt \in [Ids -> SUBSET {"torn", "lost", "saved"}]
  BY DEF IndexTypeOK
<1>2. Added(rows[i], set \ lost) \in [Row -> Nat]
  BY <1>1, AddedType
<1>3. rows' = [rows EXCEPT ![i] = Added(rows[i], set \ lost)]
      /\ (doubt' = doubt \/ doubt' = [doubt EXCEPT ![i] = @ \union {"lost"}])
  BY DEF Writing
<1>. QED BY <1>1, <1>2, <1>3

\* Steps that read, compare and give up.
LEMMA ReadingType ==
  ASSUME IndexTypeOK,
         \/ BeginPass \/ ReadPlan \/ ReadFiles \/ Compare \/ StateFails
         \/ \E i \in Ids : ReadMessages(i) \/ MessagesFail(i)
  PROVE  IndexTypeOK' /\ UNCHANGED tableVars
<1>0. pass \in PassType /\ pass.todo \in SUBSET Ids /\ pass.titles \in [Ids -> Titles]
      /\ title \in [Ids -> Titles] /\ plan \in [Ids -> 0 .. MaxPlans]
      /\ said \in [Ids -> 0 .. MaxMsgs] /\ files \in [Ids -> FileState]
  BY DEF IndexTypeOK, PassType
<1>1. UNCHANGED <<contentVars, tableVars, saver>> /\ pass' \in PassType
  <2>. UNCHANGED <<contentVars, tableVars, saver>>
    BY DEF BeginPass, ReadMessages, MessagesFail, ReadPlan, ReadFiles, Compare, StateFails
  <2>. SUFFICES pass' \in PassType
    OBVIOUS
  <2>1. CASE BeginPass
    BY <1>0, <2>1 DEF BeginPass, PassType, PassState
  <2>2. ASSUME NEW i \in Ids, ReadMessages(i) PROVE pass' \in PassType
    <3>1. CASE said[i] = 0
      BY <2>2, <3>1, <1>0, ProceedType DEF ReadMessages, PassType
    <3>2. CASE said[i] # 0
      <4>. DEFINE c == [title |-> pass.titles[i], plan |-> 0, said |-> said[i], files |-> Blank]
      <4>1. c \in Content
        BY <1>0, BlankType, IndexerAssumption DEF Content
      <4>2. pass' = [pass EXCEPT !.at = "plan", !.todo = @ \ {i}, !.id = i, !.read = c]
        BY <2>2, <3>2, Zenon DEF ReadMessages
      <4>. HIDE DEF c
      <4>. QED BY <1>0, <4>1, <4>2 DEF PassType, PassState
    <3>. QED BY <3>1, <3>2
  <2>3. ASSUME NEW i \in Ids, MessagesFail(i) PROVE pass' \in PassType
    BY <2>3, <1>0, ProceedType DEF MessagesFail, PassType
  <2>4. CASE ReadPlan
    <3>1. CASE pass' = [pass EXCEPT !.at = "files", !.read.plan = plan[pass.id]]
      <4>1. [pass.read EXCEPT !.plan = plan[pass.id]] \in Content
        BY <1>0 DEF PassType, Content
      <4>. QED BY <1>0, <3>1, <4>1 DEF PassType, PassState
    <3>2. CASE pass' = [pass EXCEPT !.at = "files"]
      BY <1>0, <3>2 DEF PassType, PassState
    <3>. QED BY <2>4, <3>1, <3>2 DEF ReadPlan
  <2>5. CASE ReadFiles
    <3>1. CASE pass' = [pass EXCEPT !.at = "compare", !.read.files = files[pass.id]]
      <4>1. [pass.read EXCEPT !.files = files[pass.id]] \in Content
        BY <1>0 DEF PassType, Content
      <4>. QED BY <1>0, <3>1, <4>1 DEF PassType, PassState
    <3>2. CASE pass' = [pass EXCEPT !.at = "compare"]
      BY <1>0, <3>2 DEF PassType, PassState
    <3>. QED BY <2>5, <3>1, <3>2 DEF ReadFiles
  <2>6. CASE Compare
    <3>1. CASE Proceed(pass.todo)
      BY <1>0, <3>1, ProceedType DEF PassType
    <3>2. CASE pass' = [pass EXCEPT !.at = "clear"]
      BY <1>0, <3>2 DEF PassType, PassState
    <3>. QED BY <2>6, <3>1, <3>2 DEF Compare
  <2>7. CASE StateFails
    BY <2>7, <1>0, ProceedType DEF StateFails, PassType
  <2>. QED BY <2>1, <2>2, <2>3, <2>4, <2>5, <2>6, <2>7
<1>. QED BY <1>1 DEF IndexTypeOK, PassType, contentVars, tableVars

\* Steps that write.
LEMMA WritingStepType ==
  ASSUME IndexTypeOK,
         \/ ClearSession \/ WriteAgentRows \/ ClearScratch \/ StoreHash
         \/ \E f \in Files : WriteScratch(f)
  PROVE  IndexTypeOK'
<1>0. pass \in PassType /\ pass.todo \in SUBSET Ids /\ pass.id \in Ids /\ pass.read \in Content
      /\ rows \in [Ids -> [Row -> Nat]] /\ hash \in [Ids -> Content \union {NoHash}]
      /\ doubt \in [Ids -> SUBSET {"torn", "lost", "saved"}]
  BY DEF IndexTypeOK, PassType
<1>1. UNCHANGED <<contentVars, saver>>
  BY DEF ClearSession, WriteAgentRows, ClearScratch, StoreHash, WriteScratch
<1>2. /\ pass' \in PassType
      /\ rows' \in [Ids -> [Row -> Nat]] /\ hash' \in [Ids -> Content \union {NoHash}]
      /\ doubt' \in [Ids -> SUBSET {"torn", "lost", "saved"}]
  <2>1. CASE ClearSession
    BY <1>0, <2>1 DEF ClearSession, PassType, PassState
  <2>2. CASE WriteAgentRows
    BY <1>0, <2>2, WritingType DEF WriteAgentRows, PassType, PassState
  <2>3. CASE ClearScratch
    <3>1. pass' \in PassType
      BY <1>0, <2>3 DEF ClearScratch, PassType, PassState, HasText
    <3>2. rows' \in [Ids -> [Row -> Nat]]
      <4>1. Without(rows[pass.id], "scratch") \in [Row -> Nat]
        BY <1>0, AddedType
      <4>2. rows' = rows \/ rows' = [rows EXCEPT ![pass.id] = Without(rows[pass.id], "scratch")]
        BY <2>3 DEF ClearScratch
      <4>. QED BY <1>0, <4>1, <4>2
    <3>. QED BY <1>0, <2>3, <3>1, <3>2 DEF ClearScratch
  <2>4. CASE StoreHash
    <3>1. pass' \in PassType
      BY <1>0, <2>4, ProceedType DEF StoreHash, PassType
    <3>2. \/ UNCHANGED <<hash, doubt>>
          \/ /\ hash' = [hash EXCEPT ![pass.id] = pass.read]
             /\ doubt' = [doubt EXCEPT ![pass.id] = @ \ {"torn"}]
      BY <2>4 DEF StoreHash
    <3>3. hash' \in [Ids -> Content \union {NoHash}]
      BY <1>0, <3>2
    <3>4. doubt' \in [Ids -> SUBSET {"torn", "lost", "saved"}]
      BY <1>0, <3>2
    <3>5. rows' \in [Ids -> [Row -> Nat]]
      BY <1>0, <2>4 DEF StoreHash
    <3>. QED BY <3>1, <3>3, <3>4, <3>5
  <2>5. CASE \E f \in Files : WriteScratch(f)
    <3>1. PICK f \in Files : WriteScratch(f)
      BY <2>5
    <3>2. PICK lost : Writing(pass.id, {ScratchRow(f, pass.read.files[f])}, lost)
      BY <3>1 DEF WriteScratch
    <3>3. pass' = [pass EXCEPT !.left = @ \ {f}] /\ hash' = hash
      BY <3>1 DEF WriteScratch
    <3>. QED BY <1>0, <3>2, <3>3, WritingType DEF PassType
  <2>. QED BY <2>1, <2>2, <2>3, <2>4, <2>5
<1>. QED BY <1>1, <1>2 DEF IndexTypeOK, PassType, contentVars

LEMMA SaverStepType ==
  ASSUME IndexTypeOK, NEW h \in Savers,
         \/ SaverStep(h)
         \/ \E i \in Ids, f \in Files, text \in Texts \union {NoFile} : SaveFile(h, i, f, text)
  PROVE  IndexTypeOK'
<1>0. /\ saver \in [Savers -> SaverType] /\ saver[h] \in SaverType
      /\ saver[h].id \in Ids /\ saver[h].read \in Content /\ RestingSaver \in SaverType
      /\ rows \in [Ids -> [Row -> Nat]] /\ hash \in [Ids -> Content \union {NoHash}]
      /\ doubt \in [Ids -> SUBSET {"torn", "lost", "saved"}]
      /\ files \in [Ids -> FileState]
      /\ title \in [Ids -> Titles] /\ plan \in [Ids -> 0 .. MaxPlans]
      /\ said \in [Ids -> 0 .. MaxMsgs]
  BY RestingTypes DEF IndexTypeOK, SaverType
<1>1. ASSUME NEW i \in Ids, NEW f \in Files, NEW text \in Texts \union {NoFile},
             SaveFile(h, i, f, text)
      PROVE  IndexTypeOK'
  <2>1. files' \in [Ids -> FileState]
    BY <1>0, <1>1 DEF SaveFile, FileState
  <2>2. saver' \in [Savers -> SaverType]
    BY <1>0, <1>1 DEF SaveFile, SaverType, SaverState
  <2>. QED BY <1>1, <2>1, <2>2 DEF IndexTypeOK, SaveFile, SaverType, tableVars
<1>2. ASSUME SaverStep(h)
      PROVE  /\ UNCHANGED <<contentVars, pass>>
             /\ saver' \in [Savers -> SaverType]
             /\ rows' \in [Ids -> [Row -> Nat]] /\ hash' \in [Ids -> Content \union {NoHash}]
             /\ doubt' \in [Ids -> SUBSET {"torn", "lost", "saved"}]
  <2>1. CASE SaverLists(h)
    BY <1>0, <2>1 DEF SaverLists, SaverType, SaverState, Content, tableVars
  <2>2. CASE SaverFails(h)
    BY <1>0, <2>2 DEF SaverFails, tableVars
  <2>3. CASE SaverClears(h)
    <3>1. rows' \in [Ids -> [Row -> Nat]]
      BY <1>0, <2>3, AddedType DEF SaverClears
    <3>2. saver' \in [Savers -> SaverType]
      BY <1>0, <2>3 DEF SaverClears, SaverType, SaverState, HasText
    <3>. QED BY <1>0, <2>3, <3>1, <3>2 DEF SaverClears, Spoil
  <2>4. CASE \E f \in Files : SaverWrites(h, f)
    <3>1. rows' \in [Ids -> [Row -> Nat]]
      <4>1. rows' = rows \/ \E b : rows' = [rows EXCEPT ![saver[h].id] = Added(rows[saver[h].id], b)]
        BY <2>4 DEF SaverWrites
      <4>2. \A b : Added(rows[saver[h].id], b) \in [Row -> Nat]
        BY <1>0, AddedType
      <4>. QED BY <1>0, <4>1, <4>2
    <3>2. saver' \in [Savers -> SaverType]
      <4>1. PICK f \in Files : saver' = [saver EXCEPT ![h].left = @ \ {f}]
        BY <2>4 DEF SaverWrites
      <4>. QED BY <1>0, <4>1 DEF SaverType
    <3>3. UNCHANGED <<contentVars, hash, pass>> /\ Spoil(saver[h].id)
      BY <2>4 DEF SaverWrites
    <3>. QED BY <1>0, <3>1, <3>2, <3>3 DEF Spoil
  <2>5. CASE SaverRereads(h)
    <3>1. [Current(saver[h].id) EXCEPT !.files = Blank] \in Content
      BY <1>0, BlankType DEF Current, Content
    <3>. QED BY <1>0, <2>5, <3>1 DEF SaverRereads, SaverType, SaverState, tableVars
  <2>6. CASE SaverRelists(h)
    BY <1>0, <2>6 DEF SaverRelists, SaverType, SaverState, Content, tableVars
  <2>7. CASE SaverStores(h)
    <3>1. /\ UNCHANGED <<contentVars, rows, pass>> /\ saver' = [saver EXCEPT ![h] = RestingSaver]
          /\ \/ hash' = [hash EXCEPT ![saver[h].id] = saver[h].read] /\ Spoil(saver[h].id)
             \/ UNCHANGED <<hash, doubt>>
      BY <2>7 DEF SaverStores
    <3>2. hash' \in [Ids -> Content \union {NoHash}]
      BY <1>0, <3>1
    <3>3. doubt' \in [Ids -> SUBSET {"torn", "lost", "saved"}]
      <4>1. doubt' = doubt \/ doubt' = [doubt EXCEPT ![saver[h].id] = @ \union {"saved"}]
        BY <3>1 DEF Spoil
      <4>. QED BY <1>0, <4>1
    <3>4. saver' \in [Savers -> SaverType] /\ rows' \in [Ids -> [Row -> Nat]]
      BY <1>0, <3>1
    <3>. QED BY <3>1, <3>2, <3>3, <3>4
  <2>. QED BY <1>2, <2>1, <2>2, <2>3, <2>4, <2>5, <2>6, <2>7 DEF SaverStep
<1>. QED BY <1>1, <1>2 DEF IndexTypeOK, SaverType, contentVars

LEMMA IndexInitType == IndexInit => IndexTypeOK
BY IndexerAssumption, RestingTypes, BlankType DEF IndexInit, IndexTypeOK

LEMMA IndexNextType ==
  ASSUME IndexTypeOK, [IndexNext]_indexVars
  PROVE  IndexTypeOK'
<1>1. CASE Crash
  BY <1>1, RestingTypes DEF Crash, IndexTypeOK, contentVars, tableVars
<1>2. CASE UNCHANGED indexVars
  BY <1>2 DEF indexVars, IndexTypeOK, contentVars, tableVars
<1>. QED BY <1>1, <1>2, ContentStepType, ReadingType, WritingStepType, SaverStepType
         DEF IndexNext, PassStep

-----------------------------------------------------------------------------
(* What is read of a session *)

\* The name, plan and message rows of a session are those of one reading.
Readings == {[title |-> t, plan |-> v, said |-> n, files |-> Blank] :
               t \in Titles, v \in 0 .. MaxPlans, n \in 0 .. MaxMsgs}
Within(bag, c) ==
  \A r \in Row : r.part # "scratch" => bag[r] <= (IF r \in AgentRows(c) THEN 1 ELSE 0)
ReadOnce(bag) == \E c \in Readings : Within(bag, c)

LEMMA OneReadingParts == OneReading <=> \A i \in Ids : ReadOnce(rows[i])
BY DEF OneReading, ReadOnce, Readings, Within

LEMMA FewerRows ==
  ASSUME NEW old \in [Row -> Nat], NEW new \in [Row -> Nat], ReadOnce(old),
         \A r \in Row : r.part # "scratch" => new[r] <= old[r]
  PROVE  ReadOnce(new)
<1>1. PICK c \in Readings : Within(old, c)
  BY DEF ReadOnce
<1>2. Within(new, c)
  <2>. SUFFICES ASSUME NEW r \in Row, r.part # "scratch"
                PROVE  new[r] <= (IF r \in AgentRows(c) THEN 1 ELSE 0)
    BY DEF Within
  <2>1. old[r] <= (IF r \in AgentRows(c) THEN 1 ELSE 0) /\ new[r] <= old[r]
    BY <1>1 DEF Within
  <2>. QED BY <2>1
<1>. QED BY <1>2 DEF ReadOnce

LEMMA OfReading ==
  ASSUME NEW c \in Content, NEW bag \in [Row -> Nat], NEW set \in SUBSET AgentRows(c),
         \A r \in Row : r.part # "scratch" => bag[r] = 0
  PROVE  ReadOnce(Added(bag, set))
<1>. DEFINE d == [title |-> c.title, plan |-> c.plan, said |-> c.said, files |-> Blank]
<1>1. d \in Readings
  BY DEF Content, Readings
<1>2. AgentRows(d) = AgentRows(c)
  BY DEF AgentRows
<1>3. Within(Added(bag, set), d)
  <2>. SUFFICES ASSUME NEW r \in Row, r.part # "scratch"
                PROVE  Added(bag, set)[r] <= (IF r \in AgentRows(d) THEN 1 ELSE 0)
    BY DEF Within
  <2>1. Added(bag, set)[r] = IF r \in set THEN 1 ELSE 0
    BY DEF Added
  <2>. QED BY <1>2, <2>1
<1>. QED BY <1>1, <1>3 DEF ReadOnce

-----------------------------------------------------------------------------
(* Steps *)

\* A step that leaves the tables alone, and the pass or what it rewrites.
LEMMA QuietKeeps ==
  ASSUME IndexInv, IndexTypeOK', UNCHANGED tableVars, pass' = pass \/ pass'.at \notin Rewriting
  PROVE  IndexInv'
<1>1. OneReading' /\ HashTellsTruth'
  BY DEF IndexInv, tableVars, OneReading, HashTellsTruth
<1>2. RewriteInv'
  <2>1. CASE pass' = pass
    BY <2>1 DEF IndexInv, RewriteInv, tableVars, Written
  <2>2. CASE pass'.at \notin Rewriting
    BY <2>2 DEF RewriteInv, Rewriting
  <2>. QED BY <2>1, <2>2
<1>. QED BY <1>1, <1>2 DEF IndexInv

\* What a scratch handler does to session i: it spoils its hash, and touches only
\* its scratch rows.
LEMMA SpoilKeeps ==
  ASSUME IndexInv, IndexTypeOK', NEW i \in Ids, Spoil(i), pass' = pass,
         \A j \in Ids \ {i} : rows'[j] = rows[j] /\ hash'[j] = hash[j],
         \A r \in Row : r.part # "scratch" => rows'[i][r] = rows[i][r]
  PROVE  IndexInv'
<1>0. /\ \A j \in Ids : rows[j] \in [Row -> Nat] /\ rows'[j] \in [Row -> Nat]
      /\ doubt \in [Ids -> SUBSET {"torn", "lost", "saved"}] /\ pass.id \in Ids
  BY DEF IndexInv, IndexTypeOK, PassType
<1>1. doubt'[i] = doubt[i] \union {"saved"} /\ \A j \in Ids \ {i} : doubt'[j] = doubt[j]
  BY <1>0 DEF Spoil
<1>2. OneReading'
  <2>1. \A r \in Row : r.part # "scratch" => rows'[i][r] <= rows[i][r]
    BY <1>0
  <2>2. ReadOnce(rows'[i])
    BY <1>0, <2>1, FewerRows, OneReadingParts DEF IndexInv
  <2>3. \A j \in Ids : ReadOnce(rows'[j])
    BY <2>2, OneReadingParts DEF IndexInv
  <2>. QED BY <2>3 DEF OneReading, ReadOnce, Readings, Within
<1>3. HashTellsTruth'
  BY <1>1 DEF IndexInv, HashTellsTruth
<1>4. RewriteInv'
  <2>1. CASE pass.id = i
    <3>1. "saved" \in doubt'[i] /\ ("torn" \in doubt[i] => "torn" \in doubt'[i])
      BY <1>1
    <3>. QED BY <2>1, <3>1 DEF IndexInv, RewriteInv
  <2>2. CASE pass.id # i
    <3>1. Written' = Written
      BY DEF Written
    <3>. QED BY <1>0, <1>1, <2>2, <3>1 DEF IndexInv, RewriteInv
  <2>. QED BY <2>1, <2>2
<1>. QED BY <1>2, <1>3, <1>4 DEF IndexInv

\* What the pass does to the session it rewrites.
LEMMA RewriteKeeps ==
  ASSUME IndexInv, IndexTypeOK', RewriteInv', UNCHANGED hash,
         \A j \in Ids \ {pass.id} : rows'[j] = rows[j] /\ doubt'[j] = doubt[j],
         doubt'[pass.id] # {}, ReadOnce(rows'[pass.id])
  PROVE  IndexInv'
<1>1. OneReading'
  <2>1. \A j \in Ids : ReadOnce(rows'[j])
    BY OneReadingParts DEF IndexInv
  <2>. QED BY <2>1 DEF OneReading, ReadOnce, Readings, Within
<1>2. HashTellsTruth'
  BY DEF IndexInv, HashTellsTruth
<1>. QED BY <1>1, <1>2 DEF IndexInv

LEMMA ClearKeeps ==
  ASSUME IndexInv, IndexTypeOK', ClearSession
  PROVE  IndexInv'
<1>. DEFINE none == [r \in Row |-> 0]
<1>0. /\ rows \in [Ids -> [Row -> Nat]] /\ pass.id \in Ids /\ pass \in PassType
      /\ doubt \in [Ids -> SUBSET {"torn", "lost", "saved"}]
  BY DEF IndexInv, IndexTypeOK, PassType
<1>1. /\ rows'[pass.id] = none /\ doubt'[pass.id] = {"torn"} /\ hash' = hash
      /\ \A j \in Ids \ {pass.id} : rows'[j] = rows[j] /\ doubt'[j] = doubt[j]
      /\ pass'.id = pass.id /\ pass'.at = "agent"
  BY <1>0 DEF ClearSession, PassType
<1>2. RewriteInv'
  BY <1>1 DEF RewriteInv, Written, Exactly
<1>3. ReadOnce(rows'[pass.id])
  <2>1. none \in [Row -> Nat] /\ \A r \in Row : none[r] <= rows[pass.id][r]
    BY <1>0
  <2>. HIDE DEF none
  <2>. QED BY <1>0, <1>1, <2>1, FewerRows, OneReadingParts DEF IndexInv
<1>. QED BY <1>1, <1>2, <1>3, RewriteKeeps


\* A write of rows that the session has not: what has been lost is in doubt.
LEMMA WritingAdds ==
  ASSUME IndexTypeOK, NEW set, NEW lost, lost \subseteq set, Writing(pass.id, set, lost)
  PROVE  /\ rows'[pass.id] = Added(rows[pass.id], set \ lost)
         /\ \A j \in Ids \ {pass.id} : rows'[j] = rows[j] /\ doubt'[j] = doubt[j]
         /\ "torn" \in doubt[pass.id] => "torn" \in doubt'[pass.id]
         /\ doubt'[pass.id] = {"torn"} => lost = {} /\ doubt[pass.id] = {"torn"}
<1>1. rows \in [Ids -> [Row -> Nat]] /\ pass.id \in Ids
      /\ doubt \in [Ids -> SUBSET {"torn", "lost", "saved"}]
  BY DEF IndexTypeOK, PassType
<1>2. rows' = [rows EXCEPT ![pass.id] = Added(rows[pass.id], set \ lost)]
  BY DEF Writing
<1>3. CASE lost = {} /\ doubt' = doubt
  BY <1>1, <1>2, <1>3
<1>4. CASE doubt' = [doubt EXCEPT ![pass.id] = @ \union {"lost"}]
  <2>1. doubt'[pass.id] = doubt[pass.id] \union {"lost"}
    BY <1>1, <1>4
  <2>. QED BY <1>1, <1>2, <1>4, <2>1
<1>. QED BY <1>3, <1>4 DEF Writing

LEMMA AgentRowsKept ==
  ASSUME IndexInv, IndexTypeOK', WriteAgentRows
  PROVE  IndexInv'
<1>. DEFINE new == AgentRows(pass.read)
<1>0. /\ IndexTypeOK /\ pass \in PassType /\ pass.id \in Ids /\ pass.read \in Content
      /\ rows[pass.id] \in [Row -> Nat] /\ pass.at = "agent" /\ "agent" \in Rewriting
  BY DEF IndexInv, IndexTypeOK, PassType, WriteAgentRows, Rewriting
<1>1. PICK lost \in SUBSET new : Writing(pass.id, new, lost)
  BY DEF WriteAgentRows
<1>2. /\ hash' = hash /\ pass'.id = pass.id /\ pass'.read = pass.read
      /\ pass'.at = IF pass.read.files = Blank THEN "store" ELSE "unscratch"
  BY <1>0 DEF WriteAgentRows, PassType
<1>. HIDE DEF new
<1>3. /\ rows'[pass.id] = Added(rows[pass.id], new \ lost)
      /\ \A j \in Ids \ {pass.id} : rows'[j] = rows[j] /\ doubt'[j] = doubt[j]
      /\ "torn" \in doubt'[pass.id]
      /\ doubt'[pass.id] = {"torn"} => lost = {} /\ doubt[pass.id] = {"torn"}
  BY <1>0, <1>1, WritingAdds DEF IndexInv, RewriteInv
<1>4. ReadOnce(rows'[pass.id])
  <2>1. \A r \in Row : r.part # "scratch" => rows[pass.id][r] = 0
    BY <1>0 DEF IndexInv, RewriteInv
  <2>. QED BY <1>0, <1>3, <2>1, OfReading DEF new
<1>5. Written' = new
  BY <1>2, BlankType DEF Written, new
<1>6. doubt'[pass.id] = {"torn"} => rows'[pass.id] = Exactly(new)
  <2>. SUFFICES ASSUME doubt'[pass.id] = {"torn"} PROVE rows'[pass.id] = Exactly(new)
    OBVIOUS
  <2>1. rows[pass.id] = Exactly({})
    BY <1>0, <1>3 DEF IndexInv, RewriteInv, Written
  <2>2. rows'[pass.id] = Added(Exactly({}), new)
    BY <1>3, <2>1
  <2>. QED BY <2>2, AddedExactly
<1>7. RewriteInv'
  BY <1>2, <1>3, <1>5, <1>6, BlankType DEF RewriteInv
<1>. QED BY <1>2, <1>3, <1>4, <1>7, RewriteKeeps

LEMMA ScratchCleared ==
  ASSUME IndexInv, IndexTypeOK', ClearScratch
  PROVE  IndexInv'
<1>0. /\ IndexTypeOK /\ pass \in PassType /\ pass.id \in Ids /\ pass.read \in Content
      /\ rows \in [Ids -> [Row -> Nat]] /\ rows'[pass.id] \in [Row -> Nat]
      /\ pass.at = "unscratch" /\ "unscratch" \in Rewriting
  BY DEF IndexInv, IndexTypeOK, PassType, ClearScratch, Rewriting
<1>1. /\ hash' = hash /\ doubt' = doubt
      /\ pass'.id = pass.id /\ pass'.read = pass.read /\ pass'.at = "scratch"
      /\ pass'.left = HasText(pass.read.files)
  BY <1>0 DEF ClearScratch, PassType
<1>2. /\ rows'[pass.id] \in {rows[pass.id], Without(rows[pass.id], "scratch")}
      /\ \A j \in Ids \ {pass.id} : rows'[j] = rows[j]
  <2>1. rows' = rows \/ rows' = [rows EXCEPT ![pass.id] = Without(rows[pass.id], "scratch")]
    BY DEF ClearScratch
  <2>. QED BY <1>0, <2>1
<1>3. ReadOnce(rows'[pass.id])
  <2>1. \A r \in Row : r.part # "scratch" => rows'[pass.id][r] <= rows[pass.id][r]
    BY <1>0, <1>2 DEF Without
  <2>. QED BY <1>0, <2>1, FewerRows, OneReadingParts DEF IndexInv
<1>4. Written' = Written
  BY <1>0, <1>1 DEF Written
<1>5. Without(Exactly(Written), "scratch") = Exactly(Written)
  <2>1. Written = AgentRows(pass.read)
    BY <1>0 DEF Written
  <2>. QED BY <1>0, <2>1, AgentRowsShape DEF Without, Exactly
<1>6. "torn" \in doubt[pass.id]
  BY <1>0 DEF IndexInv, RewriteInv
<1>7. RewriteInv'
  BY <1>0, <1>1, <1>2, <1>4, <1>5, <1>6 DEF IndexInv, RewriteInv
<1>. QED BY <1>1, <1>2, <1>3, <1>6, <1>7, RewriteKeeps

LEMMA ScratchKept ==
  ASSUME IndexInv, IndexTypeOK', NEW f \in Files, WriteScratch(f)
  PROVE  IndexInv'
<1>. DEFINE row == ScratchRow(f, pass.read.files[f])
<1>0. /\ IndexTypeOK /\ pass \in PassType /\ pass.id \in Ids /\ pass.read \in Content
      /\ pass.read.files \in FileState /\ f \in pass.left
      /\ rows[pass.id] \in [Row -> Nat] /\ rows'[pass.id] \in [Row -> Nat]
      /\ pass.at = "scratch" /\ "scratch" \in Rewriting
  BY DEF IndexInv, IndexTypeOK, PassType, WriteScratch, Rewriting, Content
<1>1. f \in HasText(pass.read.files) /\ pass.left \subseteq HasText(pass.read.files)
  BY <1>0 DEF IndexInv, RewriteInv
<1>2. PICK lost \in SUBSET {row} : Writing(pass.id, {row}, lost)
  BY DEF WriteScratch
<1>3. /\ hash' = hash /\ pass'.id = pass.id /\ pass'.read = pass.read /\ pass'.at = "scratch"
      /\ pass'.left = pass.left \ {f}
  BY <1>0 DEF WriteScratch, PassType
<1>4. row \in Row /\ row.part = "scratch"
  BY <1>0, <1>1, ScratchRowShape
<1>5. Written' = Written \union {row}
  BY <1>0, <1>1, <1>3 DEF Written
<1>6. row \notin Written
  <2>1. row \notin AgentRows(pass.read)
    BY <1>0, <1>4, AgentRowsShape
  <2>2. \A g \in HasText(pass.read.files) \ pass.left : row # ScratchRow(g, pass.read.files[g])
    BY <1>0, <1>1, ScratchRowShape
  <2>. QED BY <1>0, <2>1, <2>2 DEF Written
<1>. HIDE DEF row
<1>7. /\ rows'[pass.id] = Added(rows[pass.id], {row} \ lost)
      /\ \A j \in Ids \ {pass.id} : rows'[j] = rows[j] /\ doubt'[j] = doubt[j]
      /\ "torn" \in doubt'[pass.id]
      /\ doubt'[pass.id] = {"torn"} => lost = {} /\ doubt[pass.id] = {"torn"}
  BY <1>0, <1>2, WritingAdds DEF IndexInv, RewriteInv
<1>8. ReadOnce(rows'[pass.id])
  <2>1. \A r \in Row : r.part # "scratch" => rows'[pass.id][r] <= rows[pass.id][r]
    BY <1>0, <1>4, <1>7 DEF Added
  <2>. QED BY <1>0, <2>1, FewerRows, OneReadingParts DEF IndexInv
<1>9. doubt'[pass.id] = {"torn"} => rows'[pass.id] = Exactly(Written \union {row})
  <2>. SUFFICES ASSUME doubt'[pass.id] = {"torn"}
                PROVE  rows'[pass.id] = Exactly(Written \union {row})
    OBVIOUS
  <2>1. rows[pass.id] = Exactly(Written)
    BY <1>0, <1>7 DEF IndexInv, RewriteInv
  <2>2. rows'[pass.id] = Added(Exactly(Written), {row})
    BY <1>7, <2>1
  <2>. QED BY <1>6, <2>2, AddedExactly
<1>10. RewriteInv'
  BY <1>0, <1>1, <1>3, <1>5, <1>7, <1>9 DEF RewriteInv
<1>. QED BY <1>3, <1>7, <1>8, <1>10, RewriteKeeps

LEMMA HashKept ==
  ASSUME IndexInv, IndexTypeOK', StoreHash
  PROVE  IndexInv'
<1>0. /\ IndexTypeOK /\ pass.id \in Ids /\ pass.todo \in SUBSET Ids
      /\ hash \in [Ids -> Content \union {NoHash}]
      /\ doubt \in [Ids -> SUBSET {"torn", "lost", "saved"}]
      /\ pass.at \in {"scratch", "store"} /\ pass.at \in Rewriting
      /\ pass.at = "scratch" => pass.left = {}
  BY DEF IndexInv, IndexTypeOK, PassType, StoreHash, Rewriting
<1>1. pass'.at \notin Rewriting
  BY <1>0, ProceedType DEF StoreHash, Rewriting
<1>2. CASE UNCHANGED <<hash, doubt>>
  BY <1>1, <1>2, QuietKeeps DEF StoreHash, tableVars
<1>3. CASE /\ hash' = [hash EXCEPT ![pass.id] = pass.read]
           /\ doubt' = [doubt EXCEPT ![pass.id] = @ \ {"torn"}]
  <2>1. rows' = rows /\ hash'[pass.id] = pass.read /\ doubt'[pass.id] = doubt[pass.id] \ {"torn"}
        /\ \A j \in Ids \ {pass.id} : hash'[j] = hash[j] /\ doubt'[j] = doubt[j]
    BY <1>0, <1>3 DEF StoreHash
  <2>2. Written = AgentRows(pass.read) \union ScratchRows(pass.read.files)
    BY <1>0 DEF IndexInv, RewriteInv, Written, ScratchRows
  <2>3. doubt'[pass.id] = {} => rows[pass.id] = RowsOf(pass.read)
    <3>. SUFFICES ASSUME doubt'[pass.id] = {} PROVE rows[pass.id] = RowsOf(pass.read)
      OBVIOUS
    <3>1. "torn" \in doubt[pass.id]
      BY <1>0 DEF IndexInv, RewriteInv
    <3>2. doubt[pass.id] = {"torn"}
      BY <2>1, <3>1
    <3>. QED BY <1>0, <2>2, <3>2 DEF IndexInv, RewriteInv, RowsOf, Exactly
  <2>4. HashTellsTruth'
    BY <2>1, <2>3 DEF IndexInv, HashTellsTruth, RowsOf
  <2>5. OneReading' /\ RewriteInv'
    BY <1>1, <2>1 DEF IndexInv, OneReading, RewriteInv, Rewriting
  <2>. QED BY <2>4, <2>5 DEF IndexInv
<1>. QED BY <1>2, <1>3 DEF StoreHash

LEMMA SaverKeeps ==
  ASSUME IndexInv, IndexTypeOK', NEW h \in Savers, SaverStep(h)
  PROVE  IndexInv'
<1>0. /\ saver[h].id \in Ids /\ saver[h].read.files \in FileState
      /\ rows \in [Ids -> [Row -> Nat]] /\ hash \in [Ids -> Content \union {NoHash}]
  BY DEF IndexInv, IndexTypeOK, SaverType, Content
<1>1. CASE SaverLists(h) \/ SaverFails(h) \/ SaverRereads(h) \/ SaverRelists(h)
  BY <1>1, QuietKeeps DEF SaverLists, SaverFails, SaverRereads, SaverRelists
<1>2. CASE SaverClears(h)
  <2>1. \A r \in Row : r.part # "scratch" => rows'[saver[h].id][r] = rows[saver[h].id][r]
    BY <1>0, <1>2 DEF SaverClears, Without
  <2>. QED BY <1>0, <1>2, <2>1, SpoilKeeps DEF SaverClears
<1>3. ASSUME NEW f \in Files, SaverWrites(h, f) PROVE IndexInv'
  <2>1. /\ Spoil(saver[h].id) /\ hash' = hash /\ pass' = pass
        /\ \/ rows' = rows
           \/ rows' = [rows EXCEPT ![saver[h].id] =
                         Added(@, {ScratchRow(f, saver[h].read.files[f])})]
    BY <1>3 DEF SaverWrites
  <2>2. \A r \in Row : r.part # "scratch" => rows'[saver[h].id][r] = rows[saver[h].id][r]
    BY <1>0, <2>1 DEF Added, ScratchRow
  <2>3. \A j \in Ids \ {saver[h].id} : rows'[j] = rows[j]
    BY <1>0, <2>1
  <2>. QED BY <1>0, <2>1, <2>2, <2>3, SpoilKeeps
<1>4. CASE SaverStores(h)
  <2>1. CASE UNCHANGED <<hash, doubt>>
    BY <1>4, <2>1, QuietKeeps DEF SaverStores, tableVars
  <2>2. CASE hash' = [hash EXCEPT ![saver[h].id] = saver[h].read] /\ Spoil(saver[h].id)
    BY <1>0, <1>4, <2>2, SpoilKeeps DEF SaverStores
  <2>. QED BY <1>4, <2>1, <2>2 DEF SaverStores
<1>. QED BY <1>1, <1>2, <1>3, <1>4 DEF SaverStep

LEMMA IndexNextKeeps ==
  ASSUME IndexInv, [IndexNext]_indexVars
  PROVE  IndexInv'
<1>1. IndexTypeOK'
  BY IndexNextType DEF IndexInv
<1>2. CASE \/ BeginPass \/ ReadPlan \/ ReadFiles \/ Compare \/ StateFails
           \/ \E i \in Ids : ReadMessages(i) \/ MessagesFail(i)
  <2>1. UNCHANGED tableVars
    BY <1>2, ReadingType DEF IndexInv
  <2>2. pass'.at \notin Rewriting
    <3>0. pass \in PassType
      BY DEF IndexInv, IndexTypeOK, PassType
    <3>1. CASE Compare \/ StateFails \/ \E i \in Ids : ReadMessages(i) \/ MessagesFail(i)
      <4>1. pass.todo \in SUBSET Ids /\ \A i \in Ids : pass.todo \ {i} \in SUBSET Ids
        BY <3>0 DEF PassType
      <4>2. \A todo \in SUBSET Ids : Proceed(todo) => pass'.at \in {"idle", "next"}
        BY ProceedType DEF IndexInv
      <4>3. ASSUME NEW i \in Ids, ReadMessages(i) PROVE pass'.at \in {"idle", "next", "plan"}
        BY <3>0, <4>1, <4>2, <4>3 DEF ReadMessages, PassType
      <4>4. ASSUME NEW i \in Ids, MessagesFail(i) PROVE pass'.at \in {"idle", "next"}
        BY <4>1, <4>2, <4>4 DEF MessagesFail
      <4>5. Compare \/ StateFails => pass'.at \in {"idle", "next", "clear"}
        BY <3>0, <4>1, <4>2 DEF Compare, StateFails, PassType
      <4>. QED BY <3>1, <4>3, <4>4, <4>5 DEF Rewriting
    <3>2. CASE BeginPass
      BY <3>0, <3>2 DEF BeginPass, PassType, Rewriting
    <3>3. CASE ReadPlan
      BY <3>0, <3>3 DEF ReadPlan, PassType, Rewriting
    <3>4. CASE ReadFiles
      BY <3>0, <3>4 DEF ReadFiles, PassType, Rewriting
    <3>. QED BY <1>2, <3>1, <3>2, <3>3, <3>4
  <2>. QED BY <1>1, <2>1, <2>2, QuietKeeps
<1>3. CASE \/ ClearSession \/ WriteAgentRows \/ ClearScratch \/ StoreHash
           \/ \E f \in Files : WriteScratch(f)
  BY <1>1, <1>3, ClearKeeps, AgentRowsKept, ScratchCleared, ScratchKept, HashKept
<1>4. CASE \E i \in Ids : AgentSays(i) \/ AgentPlans(i) \/ \E t \in Titles : Rename(i, t)
  BY <1>1, <1>4, QuietKeeps DEF AgentSays, AgentPlans, Rename
<1>5. ASSUME NEW h \in Savers, NEW i \in Ids, NEW f \in Files, NEW text \in Texts \union {NoFile},
             SaveFile(h, i, f, text)
      PROVE  IndexInv'
  BY <1>1, <1>5, QuietKeeps DEF SaveFile
<1>6. CASE Crash
  <2>1. UNCHANGED tableVars /\ pass'.at \notin Rewriting
    BY <1>6 DEF Crash, RestingPass, Rewriting
  <2>. QED BY <1>1, <2>1, QuietKeeps
<1>7. CASE UNCHANGED indexVars
  BY <1>1, <1>7, QuietKeeps DEF indexVars
<1>. QED BY <1>1, <1>2, <1>3, <1>4, <1>5, <1>6, <1>7, SaverKeeps DEF IndexNext, PassStep

\* At the start no session has a row or a hash.
LEMMA IndexInitSound == IndexInit => IndexInv
<1>. SUFFICES ASSUME IndexInit PROVE IndexInv
  OBVIOUS
<1>0. IndexTypeOK
  BY IndexInitType
<1>1. OneReading
  <2>1. rows = [i \in Ids |-> [r \in Row |-> 0]]
    BY DEF IndexInit
  <2>2. NoContent \in Readings
    <3>1. (CHOOSE t \in Titles : TRUE) \in Titles /\ 0 \in 0 .. MaxPlans /\ 0 \in 0 .. MaxMsgs
      BY IndexerAssumption
    <3>2. PICK t \in Titles : NoContent = [title |-> t, plan |-> 0, said |-> 0, files |-> Blank]
      BY <3>1 DEF NoContent
    <3>. QED BY <3>1, <3>2 DEF Readings
  <2>3. \A i \in Ids : Within(rows[i], NoContent)
    BY <2>1 DEF Within
  <2>. QED BY <2>2, <2>3, OneReadingParts DEF ReadOnce
<1>2. HashTellsTruth /\ RewriteInv
  BY DEF IndexInit, HashTellsTruth, RewriteInv, RestingPass, Rewriting
<1>. QED BY <1>0, <1>1, <1>2 DEF IndexInv

\* Whatever fails, crashes or overlaps, the rows of a session are one reading of
\* it, each of them once, and its hash is that of its rows unless a rewrite is
\* torn, has lost rows or has met a handler (indexer.go, IndexSessions).
THEOREM IndexSound == IndexSpec => []IndexIsSound
<1>1. IndexInv => IndexIsSound
  BY DEF IndexInv, IndexIsSound
<1>. QED BY <1>1, IndexInitSound, IndexNextKeeps, PTL DEF IndexSpec

-----------------------------------------------------------------------------
(* The shell *)

Fields == {"activeSessionId", "showOverview", "activeSection", "activeTab", "focusPosition",
           "focusMessageIndex", "focusMessageId", "focusMessageKey", "searchHighlightQuery",
           "filterTag"}

LEMMA InitialFields == DOMAIN initialNavigationState = Fields
  BY DEF initialNavigationState, Fields

\* What a step that navigates may count on: navigateTo either leaves a location to be
\* rendered, or the route is the one on the screen already.
LEMMA NavigateOrThere ==
  ASSUME NEW r, navigateTo(r), StaysRendered
  PROVE  /\ shown' = shown /\ applied' = applied /\ sessions' = sessions
         /\ pending' \/ (r = shown /\ pending' = pending)
  BY DEF navigateTo, StaysRendered

\* The root of a session is a session: None is only the root of None.
LEMMA RootIsSession ==
  ASSUME NEW list \in Seq(Sessions), NEW id, resolveFamilyRoot(list, id) = None
  PROVE  id = None
<1> SUFFICES ASSUME longest(list, id) # {} PROVE FALSE
  BY DEF resolveFamilyRoot
<1> DEFINE c == CHOOSE x \in longest(list, id) : TRUE
<1>1. c \in chains(list, id)
  BY DEF longest
<1>2. PICK n \in 1..Least(Cardinality(ToSet(list)), MAX_FAMILY_DEPTH + 1) : c \in [1..n -> ToSet(list)]
  BY <1>1 DEF chains
<1>3. n \in Nat \ {0} /\ Len(c) = n
  BY <1>2
<1>4. Last(c) \in ToSet(list)
  BY <1>2, <1>3 DEF Last
<1>5. ToSet(list) \subseteq Sessions
  BY DEF ToSet
<1> QED BY <1>4, <1>5, NavigationAssumption DEF resolveFamilyRoot

-----------------------------------------------------------------------------
(* The transitions of the reducer keep the fields and the single target.     *)

Shaped(n) == DOMAIN n = Fields
Single(n) == n.focusPosition # None => n.focusMessageIndex = None /\ n.focusMessageId = None

\* What the fields of a transition's result are: the session and the section matter to
\* the route, the rest to the focus.
LEMMA JumpFields ==
  ASSUME NEW n, Shaped(n), NEW t
  PROVE  /\ Shaped(jumpFields(n, t)) /\ Single(jumpFields(n, t))
         /\ jumpFields(n, t).activeSessionId = n.activeSessionId
         /\ jumpFields(n, t).activeSection = n.activeSection
  BY DEF Shaped, Single, jumpFields, Fields

LEMMA Cleared ==
  ASSUME NEW n, Shaped(n)
  PROVE  /\ Shaped(ClearFocus(n)) /\ Single(ClearFocus(n))
         /\ ClearFocus(n).activeSessionId = n.activeSessionId
         /\ ClearFocus(n).activeSection = n.activeSection
  BY DEF Shaped, Single, ClearFocus, Fields

LEMMA Selected ==
  ASSUME NEW n, Shaped(n), NEW id
  PROVE  /\ Shaped(SessionSelect(n, id)) /\ Single(SessionSelect(n, id))
         /\ SessionSelect(n, id).activeSessionId = id
         /\ SessionSelect(n, id).activeSection = n.activeSection
  BY Cleared DEF Shaped, Single, SessionSelect, Fields

LEMMA WentHome ==
  ASSUME NEW n, Shaped(n)
  PROVE  /\ Shaped(GoHome(n)) /\ Single(GoHome(n))
         /\ GoHome(n).activeSessionId = None
         /\ GoHome(n).activeSection = n.activeSection
  BY Cleared DEF Shaped, Single, GoHome, Fields

LEMMA Opened ==
  ASSUME NEW n, Shaped(n), Single(n), NEW id, NEW tab
  PROVE  /\ Shaped(Open(n, id, tab)) /\ Single(Open(n, id, tab))
         /\ Open(n, id, tab).activeSessionId = id
         /\ Open(n, id, tab).activeSection = n.activeSection
  BY DEF Shaped, Single, Open, Fields

LEMMA Bookmarked ==
  ASSUME NEW n, Shaped(n), Single(n), NEW id, NEW kind, NEW m
  PROVE  /\ Shaped(BookmarkSelect(n, id, kind, m)) /\ Single(BookmarkSelect(n, id, kind, m))
         /\ BookmarkSelect(n, id, kind, m).activeSessionId = id
         /\ BookmarkSelect(n, id, kind, m).activeSection = n.activeSection
<1> DEFINE focused == IF kind = "plan" THEN n
                      ELSE IF m # None THEN jumpFields(n, Target(m, None, None))
                      ELSE [n EXCEPT !.focusPosition = None, !.focusMessageKey = 0]
           tab == IF kind = "plan" THEN "plan" ELSE "session"
<1>1. Shaped(focused) /\ Single(focused) /\ focused.activeSection = n.activeSection
  <2>1. LET unfocused == [n EXCEPT !.focusPosition = None, !.focusMessageKey = 0]
        IN Shaped(unfocused) /\ Single(unfocused) /\ unfocused.activeSection = n.activeSection
    BY DEF Shaped, Single, Fields
  <2> QED BY <2>1, JumpFields
<1>2. BookmarkSelect(n, id, kind, m) = [Open(focused, id, tab) EXCEPT !.searchHighlightQuery = None]
  BY DEF BookmarkSelect
<1> HIDE DEF focused, tab
<1> QED BY <1>1, <1>2, Opened DEF Shaped, Single, Fields

LEMMA Notified ==
  ASSUME NEW n, Shaped(n), Single(n), NEW id, NEW t
  PROVE  /\ Shaped(NotificationSelect(n, id, t)) /\ Single(NotificationSelect(n, id, t))
         /\ NotificationSelect(n, id, t).activeSessionId = id
         /\ NotificationSelect(n, id, t).activeSection = "sessions"
<1> DEFINE focused == IF t.position # None \/ t.messageIndex # None THEN jumpFields(n, t)
                      ELSE [n EXCEPT !.focusPosition = None, !.focusMessageKey = 0]
<1>1. Shaped(focused) /\ Single(focused)
  <2>1. LET unfocused == [n EXCEPT !.focusPosition = None, !.focusMessageKey = 0]
        IN Shaped(unfocused) /\ Single(unfocused)
    BY DEF Shaped, Single, Fields
  <2> QED BY <2>1, JumpFields
<1>2. NotificationSelect(n, id, t) =
        [Open(focused, id, "session") EXCEPT !.activeSection = "sessions", !.searchHighlightQuery = None]
  BY DEF NotificationSelect
<1> HIDE DEF focused
<1> QED BY <1>1, <1>2, Opened DEF Shaped, Single, Fields

LEMMA HitSelected ==
  ASSUME NEW n, Shaped(n), Single(n), NEW id, NEW tab, NEW q, NEW i
  PROVE  /\ Shaped(SearchHitSelect(n, id, tab, q, i)) /\ Single(SearchHitSelect(n, id, tab, q, i))
         /\ SearchHitSelect(n, id, tab, q, i).activeSessionId = id
         /\ SearchHitSelect(n, id, tab, q, i).activeSection = n.activeSection
  BY Opened DEF Shaped, Single, SearchHitSelect, Fields

LEMMA DiffShown ==
  ASSUME NEW n, Shaped(n), NEW i, NEW m
  PROVE  /\ Shaped(DiffNavToMessage(n, i, m)) /\ Single(DiffNavToMessage(n, i, m))
         /\ DiffNavToMessage(n, i, m).activeSessionId = n.activeSessionId
         /\ DiffNavToMessage(n, i, m).activeSection = n.activeSection
<1> DEFINE t == IF m # None THEN Target(m, None, None) ELSE Target(None, i, None)
<1>1. DiffNavToMessage(n, i, m) = [jumpFields(n, t) EXCEPT !.activeTab = "session"]
  BY DEF DiffNavToMessage
<1> HIDE DEF t
<1> QED BY <1>1, JumpFields DEF Shaped, Single, Fields

LEMMA Stepped ==
  ASSUME NEW n, Shaped(n), n.focusPosition = None, NEW list, NEW anchor, NEW delta
  PROVE  LET m == NavSessionDelta(n, list, anchor, delta)
         IN /\ Shaped(m) /\ Single(m)
            /\ m.activeSessionId =
                 nextSessionId(list, IF anchor # None THEN anchor ELSE n.activeSessionId, delta)
            /\ m.activeSection = n.activeSection
  BY DEF Shaped, Single, NavSessionDelta, Fields

LEMMA Hydrated ==
  ASSUME NEW n, Shaped(n), Single(n), NEW r
  PROVE  /\ Shaped(Hydrate(n, r)) /\ Single(Hydrate(n, r))
         /\ Hydrate(n, r).activeSessionId = pathToRoute(r).sessionId
         /\ Hydrate(n, r).activeSection = pathToRoute(r).section
  BY DEF Shaped, Single, Hydrate, pathToRoute, Fields

-----------------------------------------------------------------------------
(* The steps of the navigation keep its invariant.                          *)

\* What pathToRoute makes of the routes that are pushed.
LEMMA RoutesRead ==
  ASSUME NEW id, NEW section
  PROVE  /\ pathToRoute(sessionRouteWithSection(id, section)).sessionId = id
         /\ pathToRoute(sessionRouteWithSection(id, section)).section = section
         /\ pathToRoute(sessionRoute(id)).sessionId = id
         /\ pathToRoute(sessionRoute(id)).section = "sessions"
         /\ pathToRoute(sectionRoute(section)).sessionId = None
         /\ pathToRoute(sectionRoute(section)).section = section
         /\ pathToRoute(HOME_ROUTE).sessionId = None
         /\ pathToRoute(HOME_ROUTE).section = "sessions"
  BY DEF pathToRoute, sessionRouteWithSection, sessionRoute, sectionRoute, HOME_ROUTE, Route

\* A step that navigates to r keeps the invariant if what it makes of the reducer
\* agrees with r wherever the reducer agreed with r before.
LEMMA Navigates ==
  ASSUME NavInv, NEW r, navigateTo(r), StaysRendered, Shaped(nav'), Single(nav'),
         r = shown /\ applied /\ ~pending =>
           /\ nav'.activeSessionId = pathToRoute(r).sessionId
           /\ nav'.activeSection = pathToRoute(r).section
  PROVE  NavInv'
<1>1. NavShape' /\ FocusIsSingle'
  BY NavigateOrThere, InitialFields DEF NavInv, NavShape, FocusIsSingle, Shaped, Single
<1>2. RouteAgreement'
  BY NavigateOrThere DEF RouteAgreement
<1> QED BY <1>1, <1>2 DEF NavInv

\* What the invariant says of the reducer.
LEMMA Reads ==
  ASSUME NavInv
  PROVE  /\ Shaped(nav) /\ Single(nav)
         /\ applied /\ ~pending =>
              /\ nav.activeSessionId = pathToRoute(shown).sessionId
              /\ nav.activeSection = pathToRoute(shown).section
  BY InitialFields DEF NavInv, NavShape, FocusIsSingle, RouteAgreement, Shaped, Single

\* A step that leaves the session and the section of the reducer and does not navigate.
LEMMA Stays ==
  ASSUME NavInv, NoNavigation, StaysRendered, Shaped(nav'), Single(nav'),
         nav'.activeSessionId = nav.activeSessionId, nav'.activeSection = nav.activeSection
  PROVE  NavInv'
<1>1. NavShape' /\ FocusIsSingle'
  BY InitialFields DEF NavInv, NavShape, FocusIsSingle, Shaped, Single, StaysRendered
<1>2. RouteAgreement'
  BY DEF NavInv, RouteAgreement, NoNavigation, StaysRendered
<1> QED BY <1>1, <1>2 DEF NavInv

LEMMA SessionSelectKeeps ==
  ASSUME NavInv, NEW id, NEW unread, NEW t, handleSessionSelect(id, unread, t), StaysRendered
  PROVE  NavInv'
<1> DEFINE n == SessionSelect(nav, id)
           r == sessionRouteWithSection(id, nav.activeSection)
<1>1. nav' = (IF unread THEN jumpFields(n, t) ELSE n) /\ navigateTo(r)
  BY DEF handleSessionSelect
<1>2. Shaped(n) /\ Single(n) /\ n.activeSessionId = id /\ n.activeSection = nav.activeSection
  BY Reads, Selected
<1> HIDE DEF n
<1>3. Shaped(nav') /\ Single(nav') /\ nav'.activeSessionId = id /\ nav'.activeSection = nav.activeSection
  BY <1>1, <1>2, JumpFields
<1>4. pathToRoute(r).sessionId = id /\ pathToRoute(r).section = nav.activeSection
  BY RoutesRead
<1> QED BY <1>1, <1>3, <1>4, Navigates

LEMMA BookmarkSelectKeeps ==
  ASSUME NavInv, NEW id, NEW kind, NEW m, handleBookmarkSelect(id, kind, m), StaysRendered
  PROVE  NavInv'
<1>1. nav' = BookmarkSelect(nav, id, kind, m) /\ navigateTo(sessionRouteWithSection(id, "bookmarks"))
  BY DEF handleBookmarkSelect
<1> QED BY <1>1, Reads, Bookmarked, RoutesRead, Navigates

LEMMA NotificationClickKeeps ==
  ASSUME NavInv, NEW id, NEW t, handleNotificationClick(id, t), StaysRendered
  PROVE  NavInv'
<1>1. nav' = NotificationSelect(nav, id, t) /\ navigateTo(sessionRoute(id))
  BY DEF handleNotificationClick
<1> QED BY <1>1, Reads, Notified, RoutesRead, Navigates

LEMMA DiffKeeps ==
  ASSUME NavInv, NEW i, NEW m, handleDiffNavigateToMessage(i, m), StaysRendered
  PROVE  NavInv'
<1>1. nav' = DiffNavToMessage(nav, i, m) /\ NoNavigation
  BY DEF handleDiffNavigateToMessage
<1> QED BY <1>1, Reads, DiffShown, Stays

LEMMA HitKeeps ==
  ASSUME NavInv, NEW id, NEW tab, NEW q, NEW i, selectSearchHit(id, tab, q, i), StaysRendered
  PROVE  NavInv'
<1>1. nav' = SearchHitSelect(nav, id, tab, q, i) /\ navigateTo(sessionRoute(id))
  BY DEF selectSearchHit
<1> QED BY <1>1, Reads, HitSelected, RoutesRead, Navigates

LEMMA SectionKeeps ==
  ASSUME NavInv, NEW section, setSection(section), StaysRendered
  PROVE  NavInv'
<1> DEFINE r == IF nav.activeSessionId # None /\ ~nav.showOverview
                THEN sessionRouteWithSection(nav.activeSessionId, section)
                ELSE sectionRoute(section)
<1>1. nav' = [nav EXCEPT !.activeSection = section] /\ navigateTo(r)
  BY DEF setSection
<1>2. Shaped(nav') /\ Single(nav') /\ nav'.activeSessionId = nav.activeSessionId /\ nav'.activeSection = section
  BY <1>1, Reads DEF Shaped, Single, Fields
<1>3. pathToRoute(r).section = section
  BY RoutesRead
<1> HIDE DEF r
<1> QED BY <1>1, <1>2, <1>3, Reads, Navigates

LEMMA HomeKeeps ==
  ASSUME NavInv, goHome, StaysRendered
  PROVE  NavInv'
<1>1. nav' = GoHome(nav) /\ navigateTo(HOME_ROUTE)
  BY DEF goHome
<1> QED BY <1>1, Reads, WentHome, RoutesRead, Navigates

LEMMA TagKeeps ==
  ASSUME NavInv, NEW name, openTag(name), StaysRendered
  PROVE  NavInv'
<1>1. nav' = [nav EXCEPT !.filterTag = name, !.activeSection = "tags"] /\ navigateTo(sectionRoute("tags"))
  BY DEF openTag
<1>2. Shaped(nav') /\ Single(nav') /\ nav'.activeSessionId = nav.activeSessionId /\ nav'.activeSection = "tags"
  BY <1>1, Reads DEF Shaped, Single, Fields
<1> QED BY <1>1, <1>2, Reads, RoutesRead, Navigates

LEMMA StepKeeps ==
  ASSUME NavInv, NEW delta, navigateSession(delta), StaysRendered
  PROVE  NavInv'
<1> DEFINE roots == rootSessions(sessions)
           anchor == resolveFamilyRoot(sessions, nav.activeSessionId)
           next == nextSessionId(roots, anchor, delta)
           left == [nav EXCEPT !.searchHighlightQuery = None, !.focusPosition = None,
                               !.showOverview = FALSE]
           r == IF next = None THEN HOME_ROUTE ELSE sessionRoute(next)
<1>1. nav' = NavSessionDelta(left, roots, anchor, delta) /\ navigateTo(r)
  BY DEF navigateSession
<1>2. /\ Shaped(left) /\ left.focusPosition = None
      /\ left.activeSessionId = nav.activeSessionId /\ left.activeSection = nav.activeSection
  BY Reads DEF Shaped, Fields
<1>3. anchor = None => nav.activeSessionId = None
  BY RootIsSession DEF NavInv, NavShape
<1> HIDE DEF left, anchor, roots
<1>4. /\ Shaped(nav') /\ Single(nav')
      /\ nav'.activeSessionId = next /\ nav'.activeSection = nav.activeSection
  BY <1>1, <1>2, <1>3, Stepped
<1>5. pathToRoute(r).sessionId = next
  BY RoutesRead
<1> HIDE DEF r
<1> QED BY <1>1, <1>4, <1>5, Reads, Navigates

LEMMA RenderedKeeps ==
  ASSUME NavInv, ApplyRoute
  PROVE  NavInv'
<1>1. nav' = Hydrate(nav, shown') /\ sessions' = sessions
  BY DEF ApplyRoute
<1>2. Shaped(nav') /\ Single(nav')
  BY <1>1, Reads, Hydrated
<1>3. RouteAgreement'
  BY <1>1, Reads, Hydrated DEF RouteAgreement
<1> QED BY <1>1, <1>2, <1>3, InitialFields DEF NavInv, NavShape, FocusIsSingle, Shaped, Single

LEMMA ListsKeep ==
  ASSUME NavInv, SessionsArrive
  PROVE  NavInv'
<1>1. sessions' \in Seq(Sessions)
  BY NavigationAssumption DEF SessionsArrive
<1> QED BY <1>1 DEF SessionsArrive, NavInv, NavShape, FocusIsSingle, RouteAgreement

LEMMA TraverseKeeps ==
  ASSUME NavInv, Traverse
  PROVE  NavInv'
  BY DEF Traverse, NavInv, NavShape, FocusIsSingle, RouteAgreement

LEMMA DropKeeps ==
  ASSUME NavInv, DropDeadJump \/ ReleaseJumpFocus
  PROVE  NavInv'
<1>1. nav' = ClearFocus(nav) /\ NoNavigation /\ StaysRendered
  BY DEF DropDeadJump, ReleaseJumpFocus
<1> QED BY <1>1, Reads, Cleared, Stays

LEMMA UnmovedKeeps ==
  ASSUME NavInv, nav' = nav, NoNavigation, StaysRendered
  PROVE  NavInv'
  BY Reads, Stays

\* Clearing the highlight, the focused position or the filter, and choosing a tab.
LEMMA InPlaceKeeps ==
  ASSUME NavInv, NoNavigation, StaysRendered,
         \/ nav' = [nav EXCEPT !.filterTag = None]
         \/ nav' = [nav EXCEPT !.searchHighlightQuery = None, !.focusPosition = None]
         \/ \E tab \in Tabs : nav' = [nav EXCEPT !.activeTab = tab]
  PROVE  NavInv'
<1>1. /\ Shaped(nav') /\ Single(nav')
      /\ nav'.activeSessionId = nav.activeSessionId /\ nav'.activeSection = nav.activeSection
  BY Reads DEF Shaped, Single, Fields
<1> QED BY <1>1, Stays

LEMMA SearchSelectKeeps ==
  ASSUME NavInv, NEW hit, NEW q, handleSearchSelect(hit, q), StaysRendered
  PROVE  NavInv'
<1>1. openTag(hit.tag) \/ selectSearchHit(hit.session, tabOf(hit), q, hit.index)
  BY DEF handleSearchSelect
<1> QED BY <1>1, TagKeeps, HitKeeps

-----------------------------------------------------------------------------
(* Each step of the shell keeps the navigation's invariant.                 *)

LEMMA PanelKeepsNav ==
  ASSUME NavInv, PanelActs \/ DebounceFires \/ PanelAnswer
  PROVE  NavInv'
<1>1. ASSUME PanelOnly PROVE NavInv'
  BY <1>1, UnmovedKeeps DEF PanelOnly
<1>2. CASE \E t \in Text : TypeInPanel(t)
  BY <1>1, <1>2 DEF TypeInPanel
<1>3. CASE ClearPanel \/ ClearRecents \/ ClearScopeInPanel
  BY <1>1, <1>3 DEF ClearPanel, ClearRecents, ClearScopeInPanel
<1>4. CASE \E d \in {1, -1} : MoveInPanel(d)
  BY <1>1, <1>4 DEF MoveInPanel
<1>5. CASE \E i \in 1..MaxSearches : PickRecent(i)
  BY <1>1, <1>5 DEF PickRecent
<1>6. CASE EnterInPanel
  <2> DEFINE hits == hitsOf(panel.of)
             i == panel.selectedIndex
  <2>1. \/ handleSearchSelect(hits[i], searchInput) /\ StaysRendered
        \/ nav' = nav /\ NoNavigation /\ StaysRendered
    BY <1>6 DEF EnterInPanel
  <2> QED BY <2>1, SearchSelectKeeps, UnmovedKeeps
<1>7. CASE ClickInPanel
  <2>1. PICK i \in DOMAIN hitsOf(panel.of) :
          handleSearchSelect(groupSearchSections(hitsOf(panel.of))[i], searchInput) /\ StaysRendered
    BY <1>7 DEF ClickInPanel
  <2> QED BY <2>1, SearchSelectKeeps
<1>8. CASE DismissPanel
  BY <1>8, UnmovedKeeps DEF DismissPanel, Frame
<1>9. CASE DebounceFires \/ PanelAnswer
  BY <1>9, UnmovedKeeps DEF DebounceFires, PanelAnswer, navVars, NoNavigation, StaysRendered
<1> QED BY <1>2, <1>3, <1>4, <1>5, <1>6, <1>7, <1>8, <1>9 DEF PanelActs

LEMMA DrawerKeepsNav ==
  ASSUME NavInv, DrawerActs \/ DrawerAnswer \/ SearchLinkEffect
  PROVE  NavInv'
<1>1. ASSUME DrawerOnly PROVE NavInv'
  BY <1>1, UnmovedKeeps DEF DrawerOnly
<1>2. CASE DrawerAnswer \/ CloseDrawer \/ ClearScopeInDrawer \/ SearchLinkEffect
  BY <1>1, <1>2 DEF DrawerAnswer, CloseDrawer, ClearScopeInDrawer, SearchLinkEffect
<1>3. CASE \E d \in {1, -1} : MoveInDrawer(d)
  BY <1>1, <1>3 DEF MoveInDrawer
<1>4. CASE SelectInDrawer
  <2>1. PICK i \in DOMAIN groupSearchSections(hitsOf(drawer.of)) :
          handleSearchSelect(groupSearchSections(hitsOf(drawer.of))[i], drawer.query) /\ StaysRendered
    BY <1>4 DEF SelectInDrawer
  <2> QED BY <2>1, SearchSelectKeeps
<1> QED BY <1>2, <1>3, <1>4 DEF DrawerActs

LEMMA FrameKeepsNav ==
  ASSUME NavInv, FrameActs
  PROVE  NavInv'
<1>1. ASSUME Frame PROVE NavInv'
  BY <1>1, UnmovedKeeps DEF Frame
<1>2. CASE OpenSearch \/ ToggleSidebar \/ CloseDialog \/ ToggleSearchKey
  BY <1>1, <1>2 DEF OpenSearch, ToggleSidebar, CloseDialog, ToggleSearchKey
<1>3. CASE \E d \in Dialogs \ {"none"} : OpenDialog(d)
  BY <1>1, <1>3 DEF OpenDialog
<1>4. CASE ConfirmPin
  BY <1>4, UnmovedKeeps DEF ConfirmPin
<1>5. ASSUME NEW section \in Sections, PickSection(section) PROVE NavInv'
  <2>1. \/ setSection(section) /\ StaysRendered
        \/ nav' = nav /\ NoNavigation /\ StaysRendered
    BY <1>5 DEF PickSection
  <2> QED BY <2>1, SectionKeeps, UnmovedKeeps
<1>6. CASE EscapeKey
  <2> DEFINE parent == IF nav.activeSessionId # None THEN Parent[nav.activeSessionId] ELSE None
  <2>1. /\ StaysRendered
        /\ \/ nav' = nav /\ NoNavigation
           \/ nav' = [nav EXCEPT !.searchHighlightQuery = None, !.focusPosition = None] /\ NoNavigation
           \/ \E u \in BOOLEAN : handleSessionSelect(parent, u, NoTarget)
    BY <1>6 DEF EscapeKey
  <2> QED BY <2>1, UnmovedKeeps, InPlaceKeeps, SessionSelectKeeps
<1>7. ASSUME NEW tab \in {"session", "plan"}, TabKey(tab) PROVE NavInv'
  <2>1. nav' = [nav EXCEPT !.activeTab = tab] /\ NoNavigation /\ StaysRendered /\ tab \in Tabs
    BY <1>7 DEF TabKey, Tabs
  <2> QED BY <2>1, InPlaceKeeps
<1>8. ASSUME NEW d \in {1, -1}, StepKey(d) PROVE NavInv'
  BY <1>8, StepKeeps DEF StepKey
<1> QED BY <1>2, <1>3, <1>4, <1>5, <1>6, <1>7, <1>8 DEF FrameActs

LEMMA NavigateKeepsNav ==
  ASSUME NavInv, Navigate
  PROVE  NavInv'
<1>1. StaysRendered
  BY DEF Navigate
<1>2. \/ \E s \in ToSet(sessions) : \/ handleSessionSelect(s, FALSE, NoTarget)
                                   \/ \E t \in Payloads(s) : handleSessionSelect(s, TRUE, t)
      \/ \E s \in ToSet(sessions), m \in {None} \cup Messages :
           \E k \in {"message", "plan"} : handleBookmarkSelect(s, k, m)
      \/ \E s \in ToSet(sessions), t \in UNION {Payloads(x) : x \in Sessions} :
           handleNotificationClick(s, t)
      \/ \E i \in Indices, m \in {None} \cup Messages : handleDiffNavigateToMessage(i, m)
      \/ goHome
  BY DEF Navigate
<1> QED BY <1>1, <1>2, SessionSelectKeeps, BookmarkSelectKeeps, NotificationClickKeeps, DiffKeeps, HomeKeeps

LEMMA NextKeepsNav ==
  ASSUME NavInv, Next
  PROVE  NavInv'
<1>1. CASE RouteIsRendered
  BY <1>1, RenderedKeeps DEF RouteIsRendered
<1>2. CASE Beside(DropDeadJump) \/ Beside(ReleaseJumpFocus)
  BY <1>2, DropKeeps DEF Beside
<1>3. CASE Beside(SessionsArrive)
  BY <1>3, ListsKeep DEF Beside
<1>4. CASE Beside(Traverse)
  BY <1>4, TraverseKeeps DEF Beside
<1>5. CASE PinAnswer
  BY <1>5, UnmovedKeeps DEF PinAnswer, navVars, NoNavigation, StaysRendered
<1>6. CASE RecentsArrive
  BY <1>6, UnmovedKeeps DEF RecentsArrive
<1>7. CASE OpenTagFromPanel
  BY <1>7, TagKeeps DEF OpenTagFromPanel
<1>8. CASE ClearInPlace
  BY <1>8, InPlaceKeeps DEF ClearInPlace
<1> QED BY <1>1, <1>2, <1>3, <1>4, <1>5, <1>6, <1>7, <1>8,
           PanelKeepsNav, DrawerKeepsNav, FrameKeepsNav, NavigateKeepsNav DEF Next, Effects

-----------------------------------------------------------------------------
(* The drawer.                                                              *)

\* The drawer is left alone, loses its results, or is closed with them in it.
LEMMA DrawerLeft ==
  ASSUME DrawerInv,
         \/ drawer' = drawer
         \/ drawer' = ClosedDrawer
         \/ drawer' = [drawer EXCEPT !.of = None]
         \/ drawer' = [drawer EXCEPT !.open = FALSE]
  PROVE  DrawerInv'
  BY DEF DrawerInv, ResultsMatchQuery, ClosedDrawer

LEMMA AnswerKeepsDrawer ==
  ASSUME DrawerInv, DrawerAnswer
  PROVE  DrawerInv'
<1>1. CASE drawer' = [open |-> TRUE, query |-> inflight.q, of |-> inflight]
  BY <1>1 DEF DrawerInv, ResultsMatchQuery
<1>2. CASE drawer' = [drawer EXCEPT !.of = None]
  BY <1>2, DrawerLeft
<1> QED BY <1>1, <1>2 DEF DrawerAnswer

LEMMA PanelKeepsDrawer ==
  ASSUME DrawerInv, PanelActs \/ DebounceFires \/ PanelAnswer
  PROVE  DrawerInv'
<1>1. CASE \E t \in Text : TypeInPanel(t)
  BY <1>1, DrawerLeft DEF TypeInPanel, PanelOnly, drawerVars
<1>2. CASE ClearPanel \/ ClearRecents \/ ClearScopeInPanel
  BY <1>2, DrawerLeft DEF ClearPanel, ClearRecents, ClearScopeInPanel, PanelOnly, drawerVars
<1>3. CASE \E d \in {1, -1} : MoveInPanel(d)
  BY <1>3, DrawerLeft DEF MoveInPanel, PanelOnly, drawerVars
<1>4. CASE \E i \in 1..MaxSearches : PickRecent(i)
  BY <1>4, DrawerLeft DEF PickRecent, PanelOnly, drawerVars
<1>5. CASE EnterInPanel
  <2>1. drawer' = drawer \/ drawer' = [drawer EXCEPT !.open = FALSE]
    BY <1>5 DEF EnterInPanel, handleSearchSelect, handleSearchOpenDrawer, drawerVars
  <2> QED BY <2>1, DrawerLeft
<1>6. CASE ClickInPanel
  <2>1. drawer' = [drawer EXCEPT !.open = FALSE]
    BY <1>6 DEF ClickInPanel, handleSearchSelect
  <2> QED BY <2>1, DrawerLeft
<1>7. CASE DismissPanel \/ DebounceFires \/ PanelAnswer
  BY <1>7, DrawerLeft DEF DismissPanel, DebounceFires, PanelAnswer, drawerVars
<1> QED BY <1>1, <1>2, <1>3, <1>4, <1>5, <1>6, <1>7 DEF PanelActs

LEMMA DrawerKeepsDrawer ==
  ASSUME DrawerInv, DrawerActs \/ SearchLinkEffect
  PROVE  DrawerInv'
<1>1. CASE CloseDrawer
  BY <1>1, DrawerLeft DEF CloseDrawer
<1>2. CASE \E d \in {1, -1} : MoveInDrawer(d)
  BY <1>2, DrawerLeft DEF MoveInDrawer
<1>3. CASE ClearScopeInDrawer
  BY <1>3, DrawerLeft DEF ClearScopeInDrawer
<1>4. CASE SelectInDrawer
  BY <1>4, DrawerLeft DEF SelectInDrawer, handleSearchSelect
<1>5. CASE SearchLinkEffect
  BY <1>5, DrawerLeft DEF SearchLinkEffect, handleSearchOpenDrawer
<1> QED BY <1>1, <1>2, <1>3, <1>4, <1>5 DEF DrawerActs

LEMMA FrameKeepsDrawer ==
  ASSUME DrawerInv, FrameActs
  PROVE  DrawerInv'
<1>1. ASSUME NotSearch PROVE DrawerInv'
  BY <1>1, DrawerLeft DEF NotSearch, drawerVars
<1>2. CASE ToggleSidebar \/ CloseDialog \/ ConfirmPin
  BY <1>1, <1>2 DEF ToggleSidebar, CloseDialog, ConfirmPin
<1>3. CASE \/ \E d \in Dialogs \ {"none"} : OpenDialog(d)
           \/ \E section \in Sections : PickSection(section)
  BY <1>1, <1>3 DEF OpenDialog, PickSection
<1>4. CASE \/ \E tab \in {"session", "plan"} : TabKey(tab)
           \/ \E d \in {1, -1} : StepKey(d)
  BY <1>1, <1>4 DEF TabKey, StepKey
<1>5. CASE OpenSearch
  BY <1>5, DrawerLeft DEF OpenSearch, drawerVars
<1>6. CASE ToggleSearchKey \/ EscapeKey
  BY <1>6, DrawerLeft DEF ToggleSearchKey, EscapeKey
<1> QED BY <1>2, <1>3, <1>4, <1>5, <1>6 DEF FrameActs

LEMMA NextKeepsDrawer ==
  ASSUME DrawerInv, Next
  PROVE  DrawerInv'
<1>1. ASSUME NotSearch PROVE DrawerInv'
  BY <1>1, DrawerLeft DEF NotSearch, drawerVars
<1>2. CASE \/ Beside(DropDeadJump) \/ Beside(ReleaseJumpFocus)
           \/ Beside(SessionsArrive) \/ Beside(Traverse)
  BY <1>1, <1>2 DEF Beside
<1>3. CASE PinAnswer \/ Navigate \/ OpenTagFromPanel \/ ClearInPlace
  BY <1>1, <1>3 DEF PinAnswer, Navigate, OpenTagFromPanel, ClearInPlace
<1>4. CASE RouteIsRendered \/ RecentsArrive
  BY <1>4, DrawerLeft DEF RouteIsRendered, RecentsArrive, drawerVars
<1> QED BY <1>2, <1>3, <1>4, AnswerKeepsDrawer, PanelKeepsDrawer, DrawerKeepsDrawer,
           FrameKeepsDrawer DEF Next, Effects

-----------------------------------------------------------------------------
(* The search: its texts, the results in their sections and the selection.  *)

Highlight(n) == n.searchHighlightQuery

\* A transition of the reducer keeps the highlight, clears it or sets the hit's text.
LEMMA Highlights ==
  ASSUME NEW n, Shaped(n), NEW id, NEW tab, NEW kind, NEW m, NEW i, NEW t, NEW q, NEW list,
         NEW anchor, NEW delta, NEW r
  PROVE  /\ Highlight(jumpFields(n, t)) = Highlight(n)
         /\ Highlight(ClearFocus(n)) = Highlight(n)
         /\ Highlight(SessionSelect(n, id)) = None
         /\ Highlight(GoHome(n)) = None
         /\ Highlight(BookmarkSelect(n, id, kind, m)) = None
         /\ Highlight(NotificationSelect(n, id, t)) = None
         /\ Highlight(DiffNavToMessage(n, i, m)) = Highlight(n)
         /\ Highlight(SearchHitSelect(n, id, tab, q, i)) = q
         /\ Highlight(NavSessionDelta(n, list, anchor, delta)) = None
         /\ Highlight(Hydrate(n, r)) = Highlight(n)
<1>1. Highlight(jumpFields(n, t)) = Highlight(n) /\ Highlight(ClearFocus(n)) = Highlight(n)
  BY DEF Shaped, Fields, Highlight, jumpFields, ClearFocus
<1>2. Highlight(SessionSelect(n, id)) = None /\ Highlight(GoHome(n)) = None
  BY Cleared DEF Shaped, Fields, Highlight, SessionSelect, GoHome
<1>3. \A x, y, z : Shaped(x) => Shaped([x EXCEPT !.showOverview = FALSE, !.activeSessionId = y, !.activeTab = z])
  BY DEF Shaped, Fields
<1>4. \A x, y, z : Shaped(x) => Shaped(Open(x, y, z))
  BY <1>3 DEF Open
<1>5. Shaped([n EXCEPT !.focusPosition = None, !.focusMessageKey = 0])
  BY DEF Shaped, Fields
<1>6. \A x : Shaped(x) => Highlight([x EXCEPT !.searchHighlightQuery = None]) = None
  BY DEF Shaped, Fields, Highlight
<1>7. Highlight(BookmarkSelect(n, id, kind, m)) = None
  BY <1>4, <1>5, <1>6, JumpFields DEF BookmarkSelect
<1>8. Highlight(NotificationSelect(n, id, t)) = None
  <2> DEFINE focused == IF t.position # None \/ t.messageIndex # None THEN jumpFields(n, t)
                        ELSE [n EXCEPT !.focusPosition = None, !.focusMessageKey = 0]
  <2>1. Shaped(Open(focused, id, "session"))
    BY <1>4, <1>5, JumpFields
  <2>2. NotificationSelect(n, id, t) =
          [Open(focused, id, "session") EXCEPT !.activeSection = "sessions", !.searchHighlightQuery = None]
    BY DEF NotificationSelect
  <2> HIDE DEF focused
  <2> QED BY <2>1, <2>2 DEF Shaped, Fields, Highlight
<1>9. Highlight(DiffNavToMessage(n, i, m)) = Highlight(n)
  <2> DEFINE x == IF m # None THEN Target(m, None, None) ELSE Target(None, i, None)
  <2>1. Shaped(jumpFields(n, x)) /\ Highlight(jumpFields(n, x)) = Highlight(n)
    BY JumpFields DEF Shaped, Fields, Highlight, jumpFields
  <2>2. DiffNavToMessage(n, i, m) = [jumpFields(n, x) EXCEPT !.activeTab = "session"]
    BY DEF DiffNavToMessage
  <2> HIDE DEF x
  <2> QED BY <2>1, <2>2 DEF Shaped, Fields, Highlight
<1>10. Highlight(SearchHitSelect(n, id, tab, q, i)) = q
  BY <1>4 DEF Shaped, Fields, Highlight, SearchHitSelect
<1>11. Highlight(NavSessionDelta(n, list, anchor, delta)) = None
  BY DEF Shaped, Fields, Highlight, NavSessionDelta
<1>12. Highlight(Hydrate(n, r)) = Highlight(n)
  BY DEF Shaped, Fields, Highlight, Hydrate
<1> QED BY <1>1, <1>2, <1>7, <1>8, <1>9, <1>10, <1>11, <1>12

\* So a step leaves the highlight, clears it, or sets it to a text of a search.
Highlighted ==
  Highlight(nav)' \in {None, Highlight(nav), searchInput, drawer.query}

LEMMA SelectHighlights ==
  ASSUME NavInv, NEW hit, NEW q \in {searchInput, drawer.query}, handleSearchSelect(hit, q)
  PROVE  Highlighted
<1>1. CASE openTag(hit.tag)
  BY <1>1, Reads DEF openTag, Highlighted, Highlight, Shaped, Fields
<1>2. CASE selectSearchHit(hit.session, tabOf(hit), q, hit.index)
  <2>1. nav' = SearchHitSelect(nav, hit.session, tabOf(hit), q, hit.index)
    BY <1>2 DEF selectSearchHit
  <2>2. Highlight(nav)' = q
    BY <2>1, Reads, Highlights DEF Highlight
  <2> QED BY <2>2 DEF Highlighted
<1> QED BY <1>1, <1>2 DEF handleSearchSelect

LEMMA PanelHighlights ==
  ASSUME NavInv, PanelActs \/ DebounceFires \/ PanelAnswer
  PROVE  Highlighted
<1>1. ASSUME nav' = nav PROVE Highlighted
  BY <1>1 DEF Highlighted, Highlight
<1>2. CASE \E t \in Text : TypeInPanel(t)
  BY <1>1, <1>2 DEF TypeInPanel, PanelOnly
<1>3. CASE ClearPanel \/ ClearRecents \/ ClearScopeInPanel
  BY <1>1, <1>3 DEF ClearPanel, ClearRecents, ClearScopeInPanel, PanelOnly
<1>4. CASE \E d \in {1, -1} : MoveInPanel(d)
  BY <1>1, <1>4 DEF MoveInPanel, PanelOnly
<1>5. CASE \E i \in 1..MaxSearches : PickRecent(i)
  BY <1>1, <1>5 DEF PickRecent, PanelOnly
<1>6. CASE EnterInPanel
  <2>1. \/ handleSearchSelect(hitsOf(panel.of)[panel.selectedIndex], searchInput)
        \/ nav' = nav
    BY <1>6 DEF EnterInPanel
  <2> QED BY <1>1, <2>1, SelectHighlights
<1>7. CASE ClickInPanel
  BY <1>7, SelectHighlights DEF ClickInPanel
<1>8. CASE DismissPanel \/ DebounceFires \/ PanelAnswer
  BY <1>1, <1>8 DEF DismissPanel, Frame, DebounceFires, PanelAnswer, navVars
<1> QED BY <1>2, <1>3, <1>4, <1>5, <1>6, <1>7, <1>8 DEF PanelActs

LEMMA FrameHighlights ==
  ASSUME NavInv, FrameActs
  PROVE  Highlighted
<1>1. ASSUME nav' = nav PROVE Highlighted
  BY <1>1 DEF Highlighted, Highlight
<1>2. CASE OpenSearch \/ ToggleSidebar \/ CloseDialog \/ ToggleSearchKey
  BY <1>1, <1>2 DEF OpenSearch, ToggleSidebar, CloseDialog, ToggleSearchKey, Frame
<1>3. CASE \/ \E d \in Dialogs \ {"none"} : OpenDialog(d)
           \/ ConfirmPin
  BY <1>1, <1>3 DEF OpenDialog, ConfirmPin, Frame
<1>4. ASSUME NEW section \in Sections, PickSection(section) PROVE Highlighted
  <2>1. nav' = [nav EXCEPT !.activeSection = section] \/ nav' = nav
    BY <1>4 DEF PickSection, setSection
  <2> QED BY <1>1, <2>1, Reads DEF Highlighted, Highlight, Shaped, Fields
<1>5. CASE EscapeKey
  <2> DEFINE parent == IF nav.activeSessionId # None THEN Parent[nav.activeSessionId] ELSE None
  <2>1. \/ nav' = nav
        \/ nav' = [nav EXCEPT !.searchHighlightQuery = None, !.focusPosition = None]
        \/ \E u \in BOOLEAN : handleSessionSelect(parent, u, NoTarget)
    BY <1>5 DEF EscapeKey
  <2>2. CASE nav' = [nav EXCEPT !.searchHighlightQuery = None, !.focusPosition = None]
    BY <2>2, Reads DEF Highlighted, Highlight, Shaped, Fields
  <2>3. ASSUME NEW u, handleSessionSelect(parent, u, NoTarget) PROVE Highlighted
    <3> DEFINE n == SessionSelect(nav, parent)
    <3>1. nav' = (IF u THEN jumpFields(n, NoTarget) ELSE n)
      BY <2>3 DEF handleSessionSelect
    <3>2. Shaped(n) /\ Highlight(n) = None
      BY Reads, Selected, Highlights
    <3> HIDE DEF n
    <3>3. Highlight(jumpFields(n, NoTarget)) = None
      BY <3>2, Highlights
    <3> QED BY <3>1, <3>2, <3>3 DEF Highlighted, Highlight
  <2> QED BY <1>1, <2>1, <2>2, <2>3
<1>6. ASSUME NEW tab, TabKey(tab) PROVE Highlighted
  BY <1>6, Reads DEF TabKey, Highlighted, Highlight, Shaped, Fields
<1>7. ASSUME NEW d \in {1, -1}, StepKey(d) PROVE Highlighted
  <2> DEFINE left == [nav EXCEPT !.searchHighlightQuery = None, !.focusPosition = None,
                                 !.showOverview = FALSE]
  <2>1. \E list, anchor : nav' = NavSessionDelta(left, list, anchor, d)
    BY <1>7 DEF StepKey, navigateSession
  <2>2. Shaped(left)
    BY Reads DEF Shaped, Fields
  <2> HIDE DEF left
  <2> QED BY <2>1, <2>2, Highlights DEF Highlighted, Highlight
<1> QED BY <1>2, <1>3, <1>4, <1>5, <1>6, <1>7 DEF FrameActs

LEMMA NextHighlights ==
  ASSUME NavInv, Next
  PROVE  Highlighted
<1>1. ASSUME nav' = nav PROVE Highlighted
  BY <1>1 DEF Highlighted, Highlight
<1>2. CASE RouteIsRendered
  BY <1>2, Reads, Highlights DEF RouteIsRendered, ApplyRoute, Highlighted, Highlight
<1>3. CASE Beside(DropDeadJump) \/ Beside(ReleaseJumpFocus)
  BY <1>3, Reads, Highlights DEF Beside, DropDeadJump, ReleaseJumpFocus, Highlighted, Highlight
<1>4. CASE Beside(SessionsArrive) \/ Beside(Traverse) \/ PinAnswer \/ RecentsArrive
  BY <1>1, <1>4 DEF Beside, SessionsArrive, Traverse, PinAnswer, RecentsArrive, navVars
<1>5. CASE DrawerAnswer \/ SearchLinkEffect \/ CloseDrawer \/ ClearScopeInDrawer
  BY <1>1, <1>5 DEF DrawerAnswer, SearchLinkEffect, CloseDrawer, ClearScopeInDrawer, DrawerOnly
<1>6. CASE \E d \in {1, -1} : MoveInDrawer(d)
  BY <1>1, <1>6 DEF MoveInDrawer, DrawerOnly
<1>7. CASE SelectInDrawer
  BY <1>7, SelectHighlights DEF SelectInDrawer
<1>8. CASE OpenTagFromPanel \/ ClearInPlace
  BY <1>8, Reads DEF OpenTagFromPanel, openTag, ClearInPlace, Highlighted, Highlight, Shaped, Fields
<1>9. CASE Navigate
  <2>1. \/ \E s : \/ handleSessionSelect(s, FALSE, NoTarget)
                  \/ \E t : handleSessionSelect(s, TRUE, t)
        \/ \E s, m, k : handleBookmarkSelect(s, k, m)
        \/ \E s, t : handleNotificationClick(s, t)
        \/ \E i, m : handleDiffNavigateToMessage(i, m)
        \/ goHome
    BY <1>9 DEF Navigate
  <2>2. ASSUME NEW s, NEW u, NEW t, handleSessionSelect(s, u, t) PROVE Highlighted
    <3> DEFINE n == SessionSelect(nav, s)
    <3>1. nav' = (IF u THEN jumpFields(n, t) ELSE n)
      BY <2>2 DEF handleSessionSelect
    <3>2. Shaped(n) /\ Highlight(n) = None
      BY Reads, Selected, Highlights
    <3> HIDE DEF n
    <3>3. Highlight(jumpFields(n, t)) = None
      BY <3>2, Highlights
    <3> QED BY <3>1, <3>2, <3>3 DEF Highlighted, Highlight
  <2>3. ASSUME \/ \E s, m, k : handleBookmarkSelect(s, k, m)
               \/ \E s, t : handleNotificationClick(s, t)
               \/ \E i, m : handleDiffNavigateToMessage(i, m)
               \/ goHome
        PROVE Highlighted
    BY <2>3, Reads, Highlights DEF handleBookmarkSelect, handleNotificationClick,
         handleDiffNavigateToMessage, goHome, Highlighted, Highlight
  <2> QED BY <2>1, <2>2, <2>3
<1> QED BY <1>2, <1>3, <1>4, <1>5, <1>6, <1>7, <1>8, <1>9,
           PanelHighlights, FrameHighlights DEF Next, Effects, DrawerActs

\* The history: what is pushed or replaced has no text of its own.
LEMMA Members ==
  ASSUME NEW S, NEW s \in Seq(S)
  PROVE  s \in Seq(ToSet(s)) /\ ToSet(s) \subseteq S
<1>1. Len(s) \in Nat /\ DOMAIN s = 1..Len(s) /\ \A i \in 1..Len(s) : s[i] \in S
  BY LenProperties, ElementOfSeq
<1>2. s = [i \in 1..Len(s) |-> s[i]]
  BY SeqDef
<1>3. ToSet(s) = {s[i] : i \in 1..Len(s)}
  BY <1>1 DEF ToSet
<1>4. s \in [1..Len(s) -> ToSet(s)]
  BY <1>2, <1>3
<1> QED BY <1>1, <1>3, <1>4, IsSequence

\* A history of a set of routes whose texts are texts.
LEMMA HistoryOf ==
  ASSUME NEW S, entries' \in Seq(S), \A route \in S : route.q \in Text,
         at' \in DOMAIN entries', shown'.q \in Text
  PROVE  HistoryInv'
<1>1. entries' \in Seq(ToSet(entries')) /\ ToSet(entries') \subseteq S
  BY Members
<1> QED BY <1>1 DEF HistoryInv, Text

LEMMA NavigatesHistory ==
  ASSUME HistoryInv, NEW r, r.q = None, navigateTo(r), StaysRendered
  PROVE  HistoryInv'
<1>1. shown' = shown /\ shown.q \in Text
  BY DEF StaysRendered, HistoryInv
<1>2. CASE UNCHANGED <<entries, at>>
  BY <1>1, <1>2 DEF HistoryInv, Text
<1>3. CASE entries' = Append(SubSeq(entries, 1, at), r) /\ at' = at + 1
  <2> DEFINE S == ToSet(entries) \cup {r}
             before == SubSeq(entries, 1, at)
  <2>1. entries \in Seq(S) /\ \A route \in S : route.q \in Text
    <3>1. entries \in Seq(ToSet(entries)) /\ ToSet(entries) \subseteq S
      BY DEF HistoryInv
    <3>2. entries \in Seq(S)
      BY <3>1, SeqDef
    <3> QED BY <3>2 DEF HistoryInv, Text
  <2>2. at \in 1..Len(entries) /\ Len(entries) \in Nat
    BY <2>1, LenProperties DEF HistoryInv
  <2> HIDE DEF S
  <2>3. before \in Seq(S) /\ Len(before) = at
    BY <2>1, <2>2, SubSeqProperties
  <2>4. r \in S
    BY DEF S
  <2> HIDE DEF before
  <2>5. Append(before, r) \in Seq(S) /\ Len(Append(before, r)) = at + 1
    BY <2>3, <2>4, AppendProperties
  <2>6. entries' = Append(before, r)
    BY <1>3 DEF before
  <2>7. at + 1 \in DOMAIN Append(before, r)
    BY <2>2, <2>5, LenProperties
  <2> QED BY <1>1, <1>3, <2>1, <2>5, <2>6, <2>7, HistoryOf
<1> QED BY <1>2, <1>3 DEF navigateTo

LEMMA StaysInHistory ==
  ASSUME HistoryInv, UNCHANGED <<entries, at, shown>>
  PROVE  HistoryInv'
  BY DEF HistoryInv, Text

\* An entry is replaced by the overview's.
LEMMA ReplacesInHistory ==
  ASSUME HistoryInv, entries' = [entries EXCEPT ![at] = HOME_ROUTE], at' = at,
         shown' \in {shown, Location}
  PROVE  HistoryInv'
<1> DEFINE S == ToSet(entries) \cup {HOME_ROUTE}
<1>1. entries \in Seq(ToSet(entries)) /\ \A route \in S : route.q \in Text
  BY DEF HistoryInv, HOME_ROUTE, Route, Text
<1>2. Len(entries) \in Nat /\ DOMAIN entries = 1..Len(entries)
  BY <1>1, LenProperties
<1>3. \A i \in 1..Len(entries) : entries[i] \in ToSet(entries)
  BY <1>1, ElementOfSeq
<1>4. entries' \in [1..Len(entries) -> S] /\ HOME_ROUTE \in S
  BY <1>2, <1>3 DEF HistoryInv
<1>5. shown'.q \in Text
  BY <1>1, <1>2, <1>3 DEF HistoryInv, Location
<1> HIDE DEF S
<1>6. entries' \in Seq(S) /\ Len(entries') = Len(entries)
  BY <1>2, <1>4, IsSequence
<1>7. at' \in DOMAIN entries'
  BY <1>2, <1>4 DEF HistoryInv
<1> QED BY <1>1, <1>5, <1>6, <1>7, HistoryOf

LEMMA PushedHaveNoText ==
  /\ HOME_ROUTE.q = None
  /\ \A id, section : /\ sessionRouteWithSection(id, section).q = None
                      /\ sessionRoute(id).q = None
                      /\ sectionRoute(section).q = None
  BY DEF HOME_ROUTE, sessionRouteWithSection, sessionRoute, sectionRoute, Route

LEMMA SelectKeepsHistory ==
  ASSUME HistoryInv, NEW hit, NEW q, handleSearchSelect(hit, q), StaysRendered
  PROVE  HistoryInv'
<1>1. \E r : navigateTo(r) /\ r.q = None
  BY PushedHaveNoText DEF handleSearchSelect, openTag, selectSearchHit
<1> QED BY <1>1, NavigatesHistory

LEMMA FrameKeepsHistory ==
  ASSUME HistoryInv, FrameActs
  PROVE  HistoryInv'
<1>1. ASSUME NoNavigation, StaysRendered PROVE HistoryInv'
  BY <1>1, StaysInHistory DEF NoNavigation, StaysRendered
<1>2. ASSUME StaysRendered, \E r : navigateTo(r) /\ r.q = None PROVE HistoryInv'
  BY <1>2, NavigatesHistory
<1>3. CASE OpenSearch \/ ToggleSidebar \/ CloseDialog \/ ToggleSearchKey
  BY <1>1, <1>3 DEF OpenSearch, ToggleSidebar, CloseDialog, ToggleSearchKey, Frame
<1>4. CASE \/ \E d \in Dialogs \ {"none"} : OpenDialog(d)
           \/ ConfirmPin
           \/ \E tab \in {"session", "plan"} : TabKey(tab)
  BY <1>1, <1>4 DEF OpenDialog, ConfirmPin, TabKey, Frame
<1>5. ASSUME NEW section \in Sections, PickSection(section) PROVE HistoryInv'
  BY <1>1, <1>2, <1>5, PushedHaveNoText DEF PickSection, setSection
<1>6. CASE EscapeKey
  <2>1. StaysRendered /\ (NoNavigation \/ \E s, u : handleSessionSelect(s, u, NoTarget))
    BY <1>6 DEF EscapeKey
  <2> QED BY <1>1, <1>2, <2>1, PushedHaveNoText DEF handleSessionSelect
<1>7. ASSUME NEW d \in {1, -1}, StepKey(d) PROVE HistoryInv'
  BY <1>2, <1>7, PushedHaveNoText DEF StepKey, navigateSession
<1> QED BY <1>3, <1>4, <1>5, <1>6, <1>7 DEF FrameActs

LEMMA PanelKeepsHistory ==
  ASSUME HistoryInv, PanelActs \/ DrawerActs
  PROVE  HistoryInv'
<1>1. ASSUME NoNavigation, StaysRendered PROVE HistoryInv'
  BY <1>1, StaysInHistory DEF NoNavigation, StaysRendered
<1>2. CASE \E t \in Text : TypeInPanel(t)
  BY <1>1, <1>2 DEF TypeInPanel, PanelOnly
<1>3. CASE ClearPanel \/ ClearRecents \/ ClearScopeInPanel
  BY <1>1, <1>3 DEF ClearPanel, ClearRecents, ClearScopeInPanel, PanelOnly
<1>4. CASE \E d \in {1, -1} : MoveInPanel(d)
  BY <1>1, <1>4 DEF MoveInPanel, PanelOnly
<1>5. CASE \E i \in 1..MaxSearches : PickRecent(i)
  BY <1>1, <1>5 DEF PickRecent, PanelOnly
<1>6. CASE EnterInPanel
  <2>1. /\ StaysRendered
        /\ \/ handleSearchSelect(hitsOf(panel.of)[panel.selectedIndex], searchInput)
           \/ NoNavigation
    BY <1>6 DEF EnterInPanel
  <2> QED BY <1>1, <2>1, SelectKeepsHistory
<1>7. CASE ClickInPanel
  BY <1>7, SelectKeepsHistory DEF ClickInPanel
<1>8. CASE DismissPanel
  BY <1>1, <1>8 DEF DismissPanel, Frame
<1>9. CASE CloseDrawer \/ ClearScopeInDrawer \/ \E d \in {1, -1} : MoveInDrawer(d)
  BY <1>1, <1>9 DEF CloseDrawer, ClearScopeInDrawer, MoveInDrawer, DrawerOnly
<1>10. CASE SelectInDrawer
  BY <1>10, SelectKeepsHistory DEF SelectInDrawer
<1> QED BY <1>2, <1>3, <1>4, <1>5, <1>6, <1>7, <1>8, <1>9, <1>10 DEF PanelActs, DrawerActs

LEMMA NextKeepsHistory ==
  ASSUME HistoryInv, Next
  PROVE  HistoryInv'
<1>1. ASSUME UNCHANGED <<entries, at, shown>> PROVE HistoryInv'
  BY <1>1, StaysInHistory
<1>2. CASE RouteIsRendered
  <2>1. ApplyRoute
    BY <1>2 DEF RouteIsRendered
  <2>2. CASE stale(Location, sessions)
    BY <2>1, <2>2, ReplacesInHistory DEF ApplyRoute
  <2>3. CASE ~stale(Location, sessions)
    <3>1. UNCHANGED <<entries, at>> /\ shown' = entries[at]
      BY <2>1, <2>3 DEF ApplyRoute, Location
    <3>2. entries[at] \in ToSet(entries)
      BY DEF HistoryInv, ToSet
    <3> QED BY <3>1, <3>2 DEF HistoryInv, Text
  <2> QED BY <2>2, <2>3
<1>3. CASE Beside(SessionsArrive)
  <2>1. /\ UNCHANGED <<at, shown>>
        /\ entries' = [entries EXCEPT ![at] = HOME_ROUTE] \/ entries' = entries
    BY <1>3 DEF Beside, SessionsArrive
  <2> QED BY <1>1, <2>1, ReplacesInHistory
<1>4. CASE Beside(Traverse)
  BY <1>4 DEF Beside, Traverse, HistoryInv, Text
<1>5. CASE \/ Beside(DropDeadJump) \/ Beside(ReleaseJumpFocus) \/ DrawerAnswer \/ SearchLinkEffect
           \/ RecentsArrive \/ ClearInPlace
  BY <1>1, <1>5 DEF Beside, DropDeadJump, ReleaseJumpFocus, DrawerAnswer, SearchLinkEffect,
       RecentsArrive, ClearInPlace, DrawerOnly, NoNavigation, StaysRendered
<1>6. CASE DebounceFires \/ PanelAnswer \/ PinAnswer
  BY <1>1, <1>6 DEF DebounceFires, PanelAnswer, PinAnswer, navVars
<1>7. CASE OpenTagFromPanel
  <2>1. StaysRendered /\ navigateTo(sectionRoute("tags")) /\ sectionRoute("tags").q = None
    BY <1>7, PushedHaveNoText DEF OpenTagFromPanel, openTag
  <2> QED BY <2>1, NavigatesHistory
<1>8. CASE Navigate
  <2>1. /\ StaysRendered
        /\ \/ \E s, u, t : handleSessionSelect(s, u, t)
           \/ \E s, m, k : handleBookmarkSelect(s, k, m)
           \/ \E s, t : handleNotificationClick(s, t)
           \/ \E i, m : handleDiffNavigateToMessage(i, m)
           \/ goHome
    BY <1>8 DEF Navigate
  <2>2. NoNavigation \/ \E r : navigateTo(r) /\ r.q = None
    BY <2>1, PushedHaveNoText DEF handleSessionSelect, handleBookmarkSelect,
         handleNotificationClick, handleDiffNavigateToMessage, goHome
  <2> QED BY <1>1, <2>1, <2>2, NavigatesHistory DEF NoNavigation, StaysRendered
<1> QED BY <1>2, <1>3, <1>4, <1>5, <1>6, <1>7, <1>8, FrameKeepsHistory, PanelKeepsHistory DEF Next, Effects

\* The results: whoever hits has a row in the drawer.
LEMMA HitsOf ==
  ASSUME NEW search, search # None => search.q \in Queries
  PROVE  hitsOf(search) \in Seq(Hits)
<1>1. CASE search = None
  BY <1>1 DEF hitsOf
<1>2. CASE search # None
  <2> DEFINE list == Found[search.q]
             t == [i \in DOMAIN list |-> search.scope \in {None, list[i].session}]
  <2>1. list \in Seq(Hits)
    BY <1>2, ShellAssumption
  <2>2. hitsOf(search) = FlattenSeq([i \in DOMAIN list |-> IF t[i] THEN <<list[i]>> ELSE <<>>])
    BY <1>2 DEF hitsOf, Where
  <2> HIDE DEF list, t
  <2> QED BY <2>1, <2>2, WhereKeeps
<1> QED BY <1>1, <1>2

LEMMA SectionsOf ==
  ASSUME NEW hits \in Seq(Hits), hits # <<>>
  PROVE  groupSearchSections(hits) \in Seq(Hits) /\ Len(groupSearchSections(hits)) > 0
<1> DEFINE of(kinds) == Where(hits, LAMBDA h : h.kind \in kinds)
<1>1. Len(hits) \in Nat \ {0} /\ DOMAIN hits = 1..Len(hits) /\ hits[1] \in Hits
  BY LenProperties, EmptySeq, ElementOfSeq
<1>2. ASSUME NEW kinds
      PROVE  of(kinds) \in Seq(Hits) /\ (hits[1].kind \in kinds => Len(of(kinds)) > 0)
  <2> DEFINE t == [i \in DOMAIN hits |-> hits[i].kind \in kinds]
  <2>1. of(kinds) = FlattenSeq([i \in DOMAIN hits |-> IF t[i] THEN <<hits[i]>> ELSE <<>>])
    BY DEF Where
  <2>2. hits[1].kind \in kinds => \E i \in DOMAIN hits : t[i]
    <3>1. 1 \in DOMAIN hits /\ t[1] = (hits[1].kind \in kinds)
      BY <1>1
    <3> HIDE DEF t
    <3> QED BY <3>1
  <2> HIDE DEF t, of
  <2>3. of(kinds) \in Seq(Hits) /\ (hits[1].kind \in kinds => of(kinds) # <<>>)
    BY <2>1, <2>2, WhereKeeps
  <2> QED BY <2>3, LenProperties, EmptySeq
<1> DEFINE tags == of({"tag"}) names == of({"name"}) plans == of({"plan"})
           messages == of({"message", "messages"}) inFiles == of({"scratch"})
<1>3. groupSearchSections(hits) = tags \o names \o plans \o messages \o inFiles
  BY DEF groupSearchSections
<1>4. \/ Len(tags) > 0 \/ Len(names) > 0 \/ Len(plans) > 0 \/ Len(messages) > 0 \/ Len(inFiles) > 0
  <2> HIDE DEF of
  <2>1. hits[1].kind \in Kinds
    BY <1>1 DEF Hits
  <2> QED BY <1>2, <2>1 DEF Kinds
<1>5. tags \in Seq(Hits) /\ names \in Seq(Hits) /\ plans \in Seq(Hits) /\ messages \in Seq(Hits)
      /\ inFiles \in Seq(Hits)
  <2> HIDE DEF of
  <2> QED BY <1>2
<1> HIDE DEF of, tags, names, plans, messages, inFiles
<1>6. /\ Len(tags) \in Nat /\ Len(names) \in Nat /\ Len(plans) \in Nat /\ Len(messages) \in Nat
      /\ Len(inFiles) \in Nat
  BY <1>5, LenProperties
<1> DEFINE two == tags \o names
           three == two \o plans
           four == three \o messages
           five == four \o inFiles
<1>7. two \in Seq(Hits) /\ Len(two) = Len(tags) + Len(names)
  BY <1>5, ConcatProperties
<1> HIDE DEF two
<1>8. three \in Seq(Hits) /\ Len(three) = Len(two) + Len(plans)
  BY <1>5, <1>7, ConcatProperties
<1> HIDE DEF three
<1>9. four \in Seq(Hits) /\ Len(four) = Len(three) + Len(messages)
  BY <1>5, <1>8, ConcatProperties
<1> HIDE DEF four
<1>10. five \in Seq(Hits) /\ Len(five) = Len(four) + Len(inFiles)
  BY <1>5, <1>9, ConcatProperties
<1>11. groupSearchSections(hits) = five
  BY <1>3 DEF two, three, four
<1> HIDE DEF five
<1> QED BY <1>4, <1>6, <1>7, <1>8, <1>9, <1>10, <1>11

\* The first row is one of the drawer's rows whenever there are hits, and an arrow from
\* a row ends on a row.
LEMMA RowsOfHits ==
  ASSUME NEW search, search # None => search.q \in Queries, hitsOf(search) # <<>>
  PROVE  LET n == Len(groupSearchSections(hitsOf(search)))
         IN n \in Nat \ {0} /\ DOMAIN groupSearchSections(hitsOf(search)) = 1..n
<1> DEFINE hits == hitsOf(search)
<1>1. hits \in Seq(Hits)
  BY HitsOf
<1> HIDE DEF hits
<1>2. hits # <<>>
  BY DEF hits
<1>3. groupSearchSections(hits) \in Seq(Hits) /\ Len(groupSearchSections(hits)) > 0
  BY <1>1, <1>2, SectionsOf
<1> QED BY <1>3, LenProperties DEF hits

\* A recent search is put before the others, of which there are at most MaxSearches.
LEMMA RecentOnes ==
  ASSUME recents \in Seq(Queries), NEW q \in Queries
  PROVE  withSearch(q) \in Seq(Queries)
<1> DEFINE t == [i \in DOMAIN recents |-> recents[i] # q]
           others == Where(recents, LAMBDA s : s # q)
           list == <<q>> \o others
           n == IF Len(list) < MaxSearches THEN Len(list) ELSE MaxSearches
<1>1. others = FlattenSeq([i \in DOMAIN recents |-> IF t[i] THEN <<recents[i]>> ELSE <<>>])
  BY DEF Where
<1> HIDE DEF t
<1>2. others \in Seq(Queries)
  BY <1>1, WhereKeeps
<1> HIDE DEF others
<1>3. list \in Seq(Queries) /\ Len(list) \in Nat
  <2>1. <<q>> \in Seq(Queries)
    OBVIOUS
  <2> QED BY <1>2, <2>1, ConcatProperties, LenProperties
<1>4. withSearch(q) = SubSeq(list, 1, n)
  BY DEF withSearch, others
<1> HIDE DEF list
<1>5. n \in 0..Len(list)
  BY <1>3, ShellAssumption
<1> HIDE DEF n
<1>6. SubSeq(list, 1, n) \in Seq(Queries)
  <2>1. CASE n = 0
    BY <1>3, <2>1
  <2>2. CASE n # 0
    BY <1>3, <1>5, <2>2, SubSeqProperties
  <2> QED BY <2>1, <2>2
<1> QED BY <1>4, <1>6

\* What the invariant says of the search beside the highlight and the history.
SoughtInv ==
  /\ searchInput \in Text /\ drawer.query \in Text
  /\ recents \in Seq(Queries)
  /\ linkDue => IsLink(shown)
  /\ \A search \in {drawer.of, inflight} \ {None} : search.q \in Queries
  /\ SelectionIsShown

LEMMA SoughtIs == TextInv /\ SelectionIsShown <=> SoughtInv /\ Highlight(nav) \in Text
  BY DEF TextInv, SoughtInv, Highlight

\* The drawer stays as it is, or goes.
Undisturbed ==
  \/ UNCHANGED <<drawer, selected>>
  \/ drawer' = [drawer EXCEPT !.open = FALSE]
  \/ drawer' = ClosedDrawer

\* The recent searches stay, or are searches again.
RecentsKept == recents' = recents \/ recents' \in Seq(Queries)

\* The search under way stays, or is for a text.
SearchKept == inflight' = inflight \/ \E q \in Queries : \E scope : inflight' = [q |-> q, scope |-> scope]

\* The link effect runs only for a link.
LinkKept ==
  /\ shown' = shown
  /\ linkDue' = linkDue \/ linkDue' = IsLink(shown)

\* A step that does no more than that keeps the invariant.
LEMMA Sought ==
  ASSUME SoughtInv, DrawerInv, Undisturbed, searchInput' \in Text, RecentsKept, SearchKept, LinkKept
  PROVE  SoughtInv'
<1>1. DOMAIN drawer = {"open", "query", "of"} /\ drawer.query \in Text
      /\ (drawer.of # None => drawer.of.q \in Queries)
  BY DEF SoughtInv, DrawerInv
<1>2. drawer'.query \in Text /\ (drawer'.of # None => drawer'.of.q \in Queries)
  BY <1>1 DEF Undisturbed, ClosedDrawer
<1>3. SelectionIsShown'
  <2>1. CASE UNCHANGED <<drawer, selected>>
    BY <2>1 DEF SoughtInv, SelectionIsShown
  <2>2. CASE ~drawer'.open
    BY <2>2 DEF SelectionIsShown
  <2> QED BY <1>1, <2>1, <2>2 DEF Undisturbed, ClosedDrawer
<1>4. recents' \in Seq(Queries)
  BY DEF SoughtInv, RecentsKept
<1>5. inflight' # None => inflight'.q \in Queries
  BY DEF SoughtInv, SearchKept
<1>6. linkDue' => IsLink(shown')
  BY DEF SoughtInv, LinkKept
<1> QED BY <1>2, <1>3, <1>4, <1>5, <1>6 DEF SoughtInv, Text

LEMMA SelectKeepsTexts ==
  ASSUME SoughtInv, DrawerInv, shown' = shown, UNCHANGED searchInput,
         NEW hit, NEW q \in Text, handleSearchSelect(hit, q)
  PROVE  SoughtInv'
<1>1. Undisturbed /\ SearchKept
  BY DEF handleSearchSelect, Undisturbed, SearchKept
<1>2. RecentsKept /\ LinkKept
  <2>1. CASE q = None
    BY <2>1 DEF handleSearchSelect, RecentsKept, LinkKept
  <2>2. CASE q # None
    <3>1. recents' = withSearch(q) /\ linkDue' = IsLink(shown)
      BY <2>2 DEF handleSearchSelect, setSearches
    <3>2. recents' \in Seq(Queries)
      BY <2>2, <3>1, RecentOnes DEF Text, SoughtInv
    <3> QED BY <3>1, <3>2 DEF RecentsKept, LinkKept
  <2> QED BY <2>1, <2>2
<1> QED BY <1>1, <1>2, Sought DEF SoughtInv

LEMMA OpenDrawerKeepsTexts ==
  ASSUME SoughtInv, DrawerInv, shown' = shown, UNCHANGED searchInput,
         NEW q \in Queries, handleSearchOpenDrawer(q)
  PROVE  SoughtInv'
<1>1. Undisturbed /\ SearchKept
  BY DEF handleSearchOpenDrawer, Undisturbed, SearchKept, runSearch
<1>2. recents' = withSearch(q) /\ linkDue' = IsLink(shown)
  BY DEF handleSearchOpenDrawer, setSearches
<1>3. recents' \in Seq(Queries)
  BY <1>2, RecentOnes DEF SoughtInv
<1> QED BY <1>1, <1>2, <1>3, Sought DEF SoughtInv, RecentsKept, LinkKept

LEMMA PanelKeepsTexts ==
  ASSUME SoughtInv, DrawerInv, PanelActs \/ DebounceFires \/ PanelAnswer
  PROVE  SoughtInv'
<1>1. ASSUME UNCHANGED <<drawerVars, shown>>, searchInput' \in Text, RecentsKept, LinkKept
      PROVE  SoughtInv'
  BY <1>1, Sought DEF drawerVars, Undisturbed, SearchKept
<1>2. searchInput \in Text /\ recents \in Seq(Queries)
  BY DEF SoughtInv
<1>3. ASSUME PanelOnly PROVE UNCHANGED <<drawerVars, shown>>
  BY <1>3 DEF PanelOnly, StaysRendered
<1>4. CASE \E t \in Text : TypeInPanel(t)
  BY <1>1, <1>3, <1>4 DEF TypeInPanel, RecentsKept, LinkKept
<1>5. CASE ClearPanel
  BY <1>1, <1>3, <1>5 DEF ClearPanel, RecentsKept, LinkKept, Text
<1>6. CASE \E d \in {1, -1} : MoveInPanel(d)
  BY <1>1, <1>2, <1>3, <1>6 DEF MoveInPanel, searchVars, RecentsKept, LinkKept
<1>7. CASE \E i \in 1..MaxSearches : PickRecent(i)
  <2>1. PICK i \in DOMAIN recents : PickRecent(i)
    BY <1>7 DEF PickRecent
  <2>2. recents[i] \in Text
    BY <1>2, <2>1, ElementOfSeq, LenProperties DEF Text
  <2> QED BY <1>1, <1>3, <2>1, <2>2 DEF PickRecent, RecentsKept, LinkKept
<1>8. CASE ClearRecents
  <2>1. <<>> \in Seq(Queries)
    OBVIOUS
  <2> QED BY <1>1, <1>2, <1>3, <1>8, <2>1 DEF ClearRecents, setSearches, RecentsKept, LinkKept
<1>9. CASE ClearScopeInPanel
  BY <1>1, <1>2, <1>3, <1>9 DEF ClearScopeInPanel, setScope, RecentsKept, LinkKept
<1>10. CASE DismissPanel
  BY <1>1, <1>2, <1>10 DEF DismissPanel, ClosesPanel, Frame, StaysRendered, RecentsKept, LinkKept
<1>11. CASE DebounceFires \/ PanelAnswer
  BY <1>1, <1>2, <1>11 DEF DebounceFires, PanelAnswer, navVars, searchVars, RecentsKept, LinkKept
<1>12. CASE EnterInPanel
  <2>1. UNCHANGED <<shown, searchInput>>
    BY <1>12 DEF EnterInPanel, ClosesPanel, StaysRendered
  <2>2. \/ handleSearchSelect(hitsOf(panel.of)[panel.selectedIndex], searchInput)
        \/ searchInput # None /\ handleSearchOpenDrawer(searchInput)
        \/ UNCHANGED <<drawerVars, recents, linkDue>>
    BY <1>12 DEF EnterInPanel
  <2>3. CASE searchInput # None /\ handleSearchOpenDrawer(searchInput)
    BY <1>2, <2>1, <2>3, OpenDrawerKeepsTexts DEF Text
  <2>4. CASE UNCHANGED <<drawerVars, recents, linkDue>>
    BY <1>1, <1>2, <2>1, <2>4 DEF RecentsKept, LinkKept
  <2> QED BY <1>2, <2>1, <2>2, <2>3, <2>4, SelectKeepsTexts
<1>13. CASE ClickInPanel
  <2>1. UNCHANGED <<shown, searchInput>>
    BY <1>13 DEF ClickInPanel, ClosesPanel, StaysRendered
  <2>2. \E hit : handleSearchSelect(hit, searchInput)
    BY <1>13 DEF ClickInPanel
  <2> QED BY <1>2, <2>1, <2>2, SelectKeepsTexts
<1> QED BY <1>4, <1>5, <1>6, <1>7, <1>8, <1>9, <1>10, <1>11, <1>12, <1>13 DEF PanelActs

\* An answer selects the first of its hits.
LEMMA AnswerKeepsTexts ==
  ASSUME SoughtInv, DrawerInv, DrawerAnswer
  PROVE  SoughtInv'
<1>1. /\ UNCHANGED <<searchInput, recents, linkDue, shown>>
      /\ inflight' = None /\ selected' = 1 /\ inflight # None /\ inflight.q \in Queries
  BY DEF DrawerAnswer, DrawerOnly, StaysRendered, SoughtInv
<1>2. /\ drawer'.query \in Text
      /\ drawer'.of # None => drawer'.of.q \in Queries
  <2>1. CASE drawer' = [open |-> TRUE, query |-> inflight.q, of |-> inflight]
    BY <1>1, <2>1 DEF Text
  <2>2. CASE drawer' = [drawer EXCEPT !.of = None]
    BY <2>2 DEF SoughtInv, DrawerInv
  <2> QED BY <2>1, <2>2 DEF DrawerAnswer
<1>3. PICK of : of = drawer'.of
  OBVIOUS
<1>4. hitsOf(of) # <<>> => 1 \in DOMAIN groupSearchSections(hitsOf(of))
  BY <1>2, <1>3, RowsOfHits
<1>5. SelectionIsShown'
  BY <1>1, <1>3, <1>4 DEF SelectionIsShown
<1>6. searchInput' \in Text /\ recents' \in Seq(Queries) /\ (linkDue' => IsLink(shown'))
  BY <1>1 DEF SoughtInv
<1> QED BY <1>1, <1>2, <1>5, <1>6 DEF SoughtInv, Text

\* The arrows stay among the hits.
LEMMA MoveKeepsTexts ==
  ASSUME SoughtInv, NEW delta \in {1, -1}, MoveInDrawer(delta)
  PROVE  SoughtInv'
<1>1. UNCHANGED <<searchInput, drawer, inflight, recents, linkDue, shown>> /\ drawer.open
  BY DEF MoveInDrawer, DrawerOnly, StaysRendered
<1>2. SelectionIsShown'
  <2> DEFINE n == Len(groupSearchSections(hitsOf(drawer.of)))
             i == selected + delta
  <2>1. SUFFICES ASSUME hitsOf(drawer.of) # <<>>
                 PROVE  selected' \in DOMAIN groupSearchSections(hitsOf(drawer.of))
    BY <1>1 DEF SelectionIsShown
  <2>2. n \in Nat \ {0} /\ DOMAIN groupSearchSections(hitsOf(drawer.of)) = 1..n
    BY <2>1, RowsOfHits DEF SoughtInv
  <2>3. selected \in 1..n
    BY <1>1, <2>1, <2>2 DEF SoughtInv, SelectionIsShown
  <2>4. selected' = IF delta = 1 THEN IF i < n THEN i ELSE n ELSE IF i > 1 THEN i ELSE 1
    BY DEF MoveInDrawer
  <2> HIDE DEF n
  <2> QED BY <2>2, <2>3, <2>4
<1> QED BY <1>1, <1>2 DEF SoughtInv, Text, IsLink

LEMMA DrawerKeepsTexts ==
  ASSUME SoughtInv, DrawerInv, HistoryInv, DrawerActs \/ SearchLinkEffect
  PROVE  SoughtInv'
<1>1. searchInput \in Text /\ recents \in Seq(Queries) /\ drawer.query \in Text /\ shown.q \in Text
  BY DEF SoughtInv, HistoryInv
<1>2. CASE CloseDrawer
  <2>1. /\ Undisturbed /\ SearchKept /\ RecentsKept /\ LinkKept /\ searchInput' = searchInput
    BY <1>2 DEF CloseDrawer, DrawerOnly, StaysRendered, Undisturbed, SearchKept, RecentsKept, LinkKept
  <2> QED BY <1>1, <2>1, Sought
<1>3. CASE \E d \in {1, -1} : MoveInDrawer(d)
  BY <1>3, MoveKeepsTexts
<1>4. CASE ClearScopeInDrawer
  <2>1. /\ Undisturbed /\ RecentsKept /\ LinkKept /\ searchInput' = searchInput
    BY <1>4 DEF ClearScopeInDrawer, DrawerOnly, StaysRendered, setScope, Undisturbed, RecentsKept, LinkKept
  <2>2. SearchKept
    BY <1>1, <1>4 DEF ClearScopeInDrawer, runSearch, SearchKept, Text
  <2> QED BY <1>1, <2>1, <2>2, Sought
<1>5. CASE SelectInDrawer
  <2>1. UNCHANGED <<shown, searchInput>> /\ \E hit : handleSearchSelect(hit, drawer.query)
    BY <1>5 DEF SelectInDrawer, StaysRendered
  <2> QED BY <1>1, <2>1, SelectKeepsTexts
<1>6. CASE SearchLinkEffect
  <2>1. UNCHANGED <<shown, searchInput>> /\ handleSearchOpenDrawer(shown.q)
    BY <1>6 DEF SearchLinkEffect, DrawerOnly, StaysRendered
  <2>2. shown.q \in Queries
    BY <1>1, <1>6 DEF SearchLinkEffect, SoughtInv, IsLink, Text
  <2> QED BY <2>1, <2>2, OpenDrawerKeepsTexts
<1> QED BY <1>2, <1>3, <1>4, <1>5, <1>6 DEF DrawerActs

LEMMA FrameKeepsTexts ==
  ASSUME SoughtInv, DrawerInv, Highlight(nav) \in Text, FrameActs
  PROVE  SoughtInv'
<1>1. ASSUME NotSearch, StaysRendered PROVE SoughtInv'
  BY <1>1, Sought DEF NotSearch, drawerVars, searchVars, StaysRendered, SoughtInv, Undisturbed,
       SearchKept, RecentsKept, LinkKept
<1>2. searchInput \in Text
  BY DEF SoughtInv
<1>3. CASE ToggleSidebar \/ CloseDialog \/ ConfirmPin
  BY <1>1, <1>3 DEF ToggleSidebar, CloseDialog, ConfirmPin, Frame
<1>4. CASE \/ \E d \in Dialogs \ {"none"} : OpenDialog(d)
           \/ \E section \in Sections : PickSection(section)
  BY <1>1, <1>4 DEF OpenDialog, PickSection, Frame
<1>5. CASE \/ \E tab \in {"session", "plan"} : TabKey(tab)
           \/ \E d \in {1, -1} : StepKey(d)
  BY <1>1, <1>5 DEF TabKey, StepKey
<1>6. ASSUME NEW text \in Text, NEW scope, OpenPanel(text, scope), shown' = shown
      PROVE  searchInput' \in Text /\ RecentsKept /\ LinkKept
  BY <1>6 DEF OpenPanel, setScope, RecentsKept, LinkKept
<1>7. CASE OpenSearch
  <2>1. PICK text \in Text : \E scope : OpenPanel(text, scope)
    BY <1>2, <1>7 DEF OpenSearch, Highlight
  <2>2. shown' = shown /\ Undisturbed /\ SearchKept
    BY <1>7 DEF OpenSearch, Frame, StaysRendered, drawerVars, Undisturbed, SearchKept
  <2> QED BY <1>6, <2>1, <2>2, Sought
<1>8. CASE ToggleSearchKey
  <2>1. shown' = shown /\ Undisturbed /\ SearchKept
    BY <1>8 DEF ToggleSearchKey, Frame, StaysRendered, Undisturbed, SearchKept
  <2>2. searchInput' \in Text /\ RecentsKept /\ LinkKept
    <3>1. CASE searchOpen
      BY <1>2, <1>8, <2>1, <3>1 DEF ToggleSearchKey, RecentsKept, LinkKept
    <3>2. CASE ~searchOpen
      BY <1>2, <1>6, <1>8, <2>1, <3>2 DEF ToggleSearchKey
    <3> QED BY <3>1, <3>2
  <2> QED BY <2>1, <2>2, Sought
<1>9. CASE EscapeKey
  <2>1. /\ shown' = shown /\ Undisturbed /\ SearchKept /\ RecentsKept /\ LinkKept
        /\ searchInput' = searchInput
    BY <1>9 DEF EscapeKey, StaysRendered, Undisturbed, SearchKept, RecentsKept, LinkKept
  <2> QED BY <1>2, <2>1, Sought
<1> QED BY <1>3, <1>4, <1>5, <1>7, <1>8, <1>9 DEF FrameActs

LEMMA NextKeepsTexts ==
  ASSUME SoughtInv, DrawerInv, HistoryInv, Highlight(nav) \in Text, Next
  PROVE  SoughtInv'
<1>1. ASSUME NotSearch, shown' = shown PROVE SoughtInv'
  BY <1>1, Sought DEF NotSearch, drawerVars, searchVars, SoughtInv, Undisturbed,
       SearchKept, RecentsKept, LinkKept
<1>2. CASE \/ Beside(DropDeadJump) \/ Beside(ReleaseJumpFocus)
           \/ Beside(SessionsArrive) \/ Beside(Traverse)
  BY <1>1, <1>2 DEF Beside, DropDeadJump, ReleaseJumpFocus, SessionsArrive, Traverse, StaysRendered
<1>3. CASE PinAnswer \/ Navigate \/ OpenTagFromPanel \/ ClearInPlace
  BY <1>1, <1>3 DEF PinAnswer, Navigate, OpenTagFromPanel, ClearInPlace, navVars, StaysRendered
<1>4. CASE RouteIsRendered
  <2>1. UNCHANGED <<drawerVars, searchInput, recents>> /\ (linkDue' => IsLink(shown'))
    BY <1>4 DEF RouteIsRendered, SoughtInv
  <2> QED BY <2>1 DEF SoughtInv, SelectionIsShown, drawerVars, Text
<1>5. CASE RecentsArrive
  <2>1. PICK q \in Queries : setSearches(<<q>>)
    BY <1>5 DEF RecentsArrive
  <2>2. <<q>> \in Seq(Queries)
    OBVIOUS
  <2>3. /\ Undisturbed /\ SearchKept /\ RecentsKept /\ LinkKept /\ searchInput' = searchInput
    BY <1>5, <2>1, <2>2 DEF RecentsArrive, setSearches, drawerVars, StaysRendered, Undisturbed,
         SearchKept, RecentsKept, LinkKept
  <2> QED BY <2>3, Sought DEF SoughtInv
<1> QED BY <1>1, <1>2, <1>3, <1>4, <1>5, PanelKeepsTexts, AnswerKeepsTexts, DrawerKeepsTexts,
           FrameKeepsTexts DEF Next, Effects

-----------------------------------------------------------------------------
(* The address.                                                             *)

\* The step is an intent of the user, leaves the address, or leaves a dead link.
Addressed ==
  \/ intents' = intents + 1
  \/ /\ intents' = intents
     /\ \/ UNCHANGED <<entries, at>>
        \/ sessions' # <<>> /\ (LeavesDeadLink(Location) \/ LeavesDeadLink(shown))

LEMMA EffectsAddress ==
  ASSUME Effects \/ Beside(SessionsArrive)
  PROVE  Addressed
<1>1. CASE RouteIsRendered
  <2>1. ApplyRoute
    BY <1>1 DEF RouteIsRendered
  <2>2. CASE stale(Location, sessions)
    BY <2>1, <2>2 DEF ApplyRoute, Addressed, stale, LeavesDeadLink
  <2>3. CASE ~stale(Location, sessions)
    BY <2>1, <2>3 DEF ApplyRoute, Addressed
  <2> QED BY <2>2, <2>3
<1>2. CASE SearchLinkEffect \/ Beside(DropDeadJump)
  BY <1>2 DEF SearchLinkEffect, DrawerOnly, Beside, DropDeadJump, NoNavigation, Addressed
<1>3. CASE Beside(SessionsArrive)
  <2>1. PICK list \in Lists :
          /\ sessions' = list /\ UNCHANGED <<at, shown, intents>>
          /\ stale(shown, list) \/ UNCHANGED entries
    BY <1>3 DEF Beside, SessionsArrive
  <2> QED BY <2>1 DEF Addressed, stale, LeavesDeadLink
<1> QED BY <1>1, <1>2, <1>3 DEF Effects

LEMMA IntentsAddress ==
  ASSUME PanelActs \/ DrawerActs \/ FrameActs
  PROVE  Addressed
<1>1. ASSUME Intent PROVE Addressed
  BY <1>1 DEF Intent, Addressed
<1>2. CASE PanelActs
  BY <1>1, <1>2 DEF PanelActs, PanelOnly, TypeInPanel, ClearPanel, MoveInPanel, PickRecent,
       ClearRecents, ClearScopeInPanel, EnterInPanel, ClickInPanel, DismissPanel
<1>3. CASE DrawerActs
  BY <1>1, <1>3 DEF DrawerActs, CloseDrawer, MoveInDrawer, ClearScopeInDrawer, SelectInDrawer
<1>4. CASE FrameActs
  BY <1>1, <1>4 DEF FrameActs, OpenSearch, ToggleSidebar, PickSection, OpenDialog, CloseDialog,
       ConfirmPin, ToggleSearchKey, EscapeKey, TabKey, StepKey
<1> QED BY <1>2, <1>3, <1>4

LEMMA NextAddresses ==
  ASSUME Next
  PROVE  Addressed
<1>1. ASSUME Intent PROVE Addressed
  BY <1>1 DEF Intent, Addressed
<1>2. CASE DebounceFires \/ PanelAnswer \/ PinAnswer
  BY <1>2 DEF DebounceFires, PanelAnswer, PinAnswer, navVars, Addressed
<1>3. CASE DrawerAnswer
  BY <1>3 DEF DrawerAnswer, DrawerOnly, NoNavigation, Addressed
<1>4. CASE RecentsArrive \/ Navigate \/ OpenTagFromPanel \/ ClearInPlace
  BY <1>1, <1>4 DEF RecentsArrive, Navigate, OpenTagFromPanel, ClearInPlace
<1>5. CASE Beside(Traverse) \/ Beside(ReleaseJumpFocus)
  BY <1>1, <1>5 DEF Beside, Traverse, ReleaseJumpFocus
<1> QED BY <1>2, <1>3, <1>4, <1>5, EffectsAddress, IntentsAddress DEF Next, Effects

-----------------------------------------------------------------------------
(* The theorems.                                                            *)

LEMMA InitHolds == Init => ShellInv
<1> SUFFICES ASSUME Init PROVE ShellInv
  OBVIOUS
<1>1. NavInv
  <2>1. sessions \in Seq(Sessions)
    BY DEF Init
  <2> QED BY <2>1 DEF Init, NavInv, NavShape, FocusIsSingle, RouteAgreement, initialNavigationState
<1>2. DrawerInv
  BY DEF Init, DrawerInv, ResultsMatchQuery
<1>3. HistoryInv
  <2>1. PICK r \in Entrances : entries = <<r>> /\ at = 1 /\ shown = r
    BY DEF Init
  <2>2. r.q \in Text
    BY <2>1, ShellAssumption DEF Routes, Text
  <2>3. entries \in Seq({r}) /\ DOMAIN entries = {1} /\ ToSet(entries) = {r}
    BY <2>1 DEF ToSet
  <2> QED BY <2>1, <2>2, <2>3 DEF HistoryInv
<1>4. TextInv /\ SelectionIsShown
  BY DEF Init, TextInv, SelectionIsShown, Text, initialNavigationState
<1> QED BY <1>1, <1>2, <1>3, <1>4 DEF ShellInv, SearchInv

LEMMA StutterHolds ==
  ASSUME ShellInv, UNCHANGED vars
  PROVE  ShellInv'
<1>1. UNCHANGED <<nav, sessions, shown, applied, pending, drawer>>
  BY DEF vars, navVars, drawerVars
<1>2. NavInv' /\ DrawerInv'
  BY <1>1 DEF ShellInv, NavInv, NavShape, FocusIsSingle, RouteAgreement, DrawerInv, ResultsMatchQuery
<1>3. UNCHANGED <<entries, at, searchInput, recents, linkDue, inflight, selected>>
  BY DEF vars, navVars, drawerVars, searchVars
<1>4. HistoryInv'
  BY <1>1, <1>3, StaysInHistory DEF ShellInv, SearchInv
<1>5. TextInv' /\ SelectionIsShown'
  BY <1>1, <1>3 DEF ShellInv, SearchInv, TextInv, SelectionIsShown, Text
<1> QED BY <1>2, <1>4, <1>5 DEF ShellInv, SearchInv

LEMMA NextKeepsSearch ==
  ASSUME ShellInv, Next
  PROVE  SearchInv'
<1>1. NavInv /\ DrawerInv /\ HistoryInv /\ SoughtInv /\ Highlight(nav) \in Text
  BY SoughtIs DEF ShellInv, SearchInv
<1>2. HistoryInv' /\ SoughtInv'
  BY <1>1, NextKeepsHistory, NextKeepsTexts
<1>3. Highlight(nav)' \in Text
  BY <1>1, NextHighlights DEF Highlighted, SoughtInv, Text
<1>4. TextInv' /\ SelectionIsShown'
  BY <1>2, <1>3 DEF SoughtInv, TextInv, Highlight
<1> QED BY <1>2, <1>4 DEF SearchInv

\* In every behaviour of the shell the reducer, the rendered route and the drawer are in
\* the states the three properties need: no step, whoever takes it, leads out of them.
THEOREM ShellInvariant == Spec => []ShellInv
<1>1. ShellInv /\ [Next]_vars => ShellInv'
  BY NextKeepsNav, NextKeepsDrawer, NextKeepsSearch, StutterHolds DEF ShellInv
<1> QED BY InitHolds, <1>1, PTL DEF Spec

\* The reducer and the URL name the same session and section once the location is
\* rendered (useRouteSync, useNavigation), for any lists, routes and order of events.
THEOREM UrlIsTruth == Spec => []RouteAgreement
<1>1. ShellInv => RouteAgreement
  BY DEF ShellInv, NavInv
<1> QED BY ShellInvariant, <1>1, PTL

\* A jump with a position has no raw index and no raw id to fall back to
\* (navigationReducer), for any transcripts and payloads.
THEOREM OneTarget == Spec => []FocusIsSingle
<1>1. ShellInv => FocusIsSingle
  BY DEF ShellInv, NavInv
<1> QED BY ShellInvariant, <1>1, PTL

\* The results in the drawer are those of the text in its title (useSearchState), for
\* any hits, searches and recent searches.
THEOREM TitledResults == Spec => []ResultsMatchQuery
<1>1. ShellInv => ResultsMatchQuery
  BY DEF ShellInv, DrawerInv
<1> QED BY ShellInvariant, <1>1, PTL

\* Enter in the drawer has a hit to open whenever there are hits (SearchResultsDrawer's
\* selectedIndex, groupSearchSections), for any hits in any order of their kinds.
THEOREM HitIsSelected == Spec => []SelectionIsShown
<1>1. ShellInv => SelectionIsShown
  BY DEF ShellInv, SearchInv
<1> QED BY ShellInvariant, <1>1, PTL

\* Nothing but the user's intents and the dead links changes the address
\* (useRouteSync), for any lists, entrances and histories.
THEOREM AddressIsKept == Spec => OnlyDeadLinksAreReplaced
<1> DEFINE Leaves == Location' # Location /\ intents' = intents
                       => sessions' # <<>> /\ (LeavesDeadLink(Location) \/ LeavesDeadLink(shown))
<1>1. Init => intents \in Nat
  BY DEF Init
<1>2. intents \in Nat /\ [Next]_vars => (intents \in Nat)' /\ [Leaves]_vars
  <2> SUFFICES ASSUME intents \in Nat, [Next]_vars PROVE intents' \in Nat /\ [Leaves]_vars
    OBVIOUS
  <2>1. CASE Next
    <3>1. Addressed
      BY <2>1, NextAddresses
    <3> QED BY <3>1 DEF Addressed, Location
  <2>2. CASE UNCHANGED vars
    BY <2>2 DEF vars, navVars
  <2> QED BY <2>1, <2>2
<1> QED BY <1>1, <1>2, PTL DEF Spec, OnlyDeadLinksAreReplaced
===============================================================================
