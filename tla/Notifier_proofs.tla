-------------------------- MODULE Notifier_proofs ---------------------------
(***************************************************************************)
(* No question is announced twice while its notification stands, and none  *)
(* after a pass has gone past it, for any sessions, messages, settings,    *)
(* cap, prune, failures, crashes and message lists cut short.              *)
(***************************************************************************)
EXTENDS Notifier, SequenceTheorems, TLAPS

Message == [key : Key, time : Nat]
Settings == [enabled : BOOLEAN, since : Nat, scope : Scopes]
PassType ==
  [at : {"idle", "session", "insert", "emit"}, skip : SUBSET Ids, todo : SUBSET Ids,
   settings : Settings, id : Ids, read : Seq(Message), cands : SUBSET Nat, any : BOOLEAN]

TypeOK ==
  /\ msgs \in [Ids -> Seq(Message)]
  /\ now \in Nat
  /\ settings \in Settings
  /\ seen \in [Ids -> Nat]
  /\ notes \in Seq(Key)
  /\ pass \in PassType
  /\ emitted \in [Key -> Nat]
  /\ written \in 0 .. MaxMsgs

\* A message is in one place, and no key is used before it is given.
KeysAreUnique ==
  /\ \A i \in Ids : \A n \in DOMAIN msgs[i] : msgs[i][n].key <= written
  /\ \A i, j \in Ids : \A n \in DOMAIN msgs[i], m \in DOMAIN msgs[j] :
       msgs[i][n].key = msgs[j][m].key => i = j /\ n = m

\* What a pass has gone past is not beyond the cursor.
CursorCovers ==
  /\ over \subseteq 1 .. written
  /\ \A i \in Ids : \A n \in DOMAIN msgs[i] : msgs[i][n].key \in over => n <= seen[i]

\* The list a pass has in hand: its messages are where they were or gone, those
\* that came after it are new, and no pass has gone past the candidates.
InHand == {"insert", "emit"}
ListInHand ==
  pass.at \in InHand =>
    /\ \A m \in DOMAIN pass.read : pass.read[m].key <= written
    /\ \A i \in Ids : \A n \in DOMAIN msgs[i], m \in DOMAIN pass.read :
         msgs[i][n].key = pass.read[m].key => i = pass.id /\ n = m
    /\ \A n \in DOMAIN msgs[pass.id] : n > Len(pass.read) => msgs[pass.id][n].key \notin over
    /\ pass.cands \subseteq DOMAIN pass.read
    /\ \A m \in pass.cands : pass.read[m].key \notin over

\* What was announced stands or was deleted; what is about to be announced for the
\* second time was deleted.
AnnouncedStands ==
  /\ \A k \in Key : emitted[k] > 0 => k \in ToSet(notes) \union deleted
  /\ pass.at = "emit" =>
       \A n \in pass.cands : NextCandidate(n) =>
         /\ pass.read[n].key \in ToSet(notes) \union deleted
         /\ emitted[pass.read[n].key] > 0 => pass.read[n].key \in deleted

CursorInv == KeysAreUnique /\ CursorCovers /\ ListInHand
NotifierInv == TypeOK /\ CursorInv /\ AnnouncedOnce /\ AnnouncedStands

-----------------------------------------------------------------------------
(* Types *)

LEMMA RestingType == RestingPass \in PassType /\ RestingPass.at = "idle"
<1>1. (CHOOSE i \in Ids : TRUE) \in Ids /\ (CHOOSE s \in Scopes : TRUE) \in Scopes
  BY NotifierAssumption
<1>2. DefaultSettings \in Settings
  BY <1>1 DEF DefaultSettings, Settings
<1>3. <<>> \in Seq(Message)
  BY EmptySeq
<1>. QED BY <1>1, <1>2, <1>3 DEF RestingPass, PassType

LEMMA InitType == Init => TypeOK
<1>. SUFFICES ASSUME Init PROVE TypeOK
  OBVIOUS
<1>1. DefaultSettings \in Settings
  BY RestingType, NotifierAssumption DEF DefaultSettings, Settings
<1>2. \A S : <<>> \in Seq(S)
  BY EmptySeq
<1>. QED BY <1>1, <1>2, RestingType, NotifierAssumption DEF Init, TypeOK, Key

\* The user and the agents.
LEMMA OutsideType ==
  ASSUME TypeOK,
         \/ \E i \in Ids : AgentAsks(i) \/ AgentCuts(i) \/ View(i) \/ ViewExpires(i)
         \/ \E enabled \in BOOLEAN, scope \in Scopes : SaveSettings(enabled, scope)
         \/ ClearNotifications
  PROVE  TypeOK'
<1>1. ASSUME NEW i \in Ids, AgentAsks(i) PROVE TypeOK'
  <2>1. written + 1 \in Key /\ written' = written + 1 /\ written' \in 0 .. MaxMsgs
    BY <1>1, NotifierAssumption DEF TypeOK, AgentAsks, Key
  <2>2. PICK time \in {NoTime, now} :
          msgs' = [msgs EXCEPT ![i] = Append(msgs[i], [key |-> written + 1, time |-> time])]
    BY <1>1 DEF AgentAsks
  <2>3. [key |-> written + 1, time |-> time] \in Message
    BY <2>1 DEF TypeOK, Message, NoTime
  <2>4. msgs' \in [Ids -> Seq(Message)]
    BY <2>2, <2>3, AppendProperties DEF TypeOK
  <2>. QED BY <1>1, <2>1, <2>4 DEF TypeOK, AgentAsks, userVars, tableVars, histVars
<1>2. ASSUME NEW i \in Ids, AgentCuts(i) PROVE TypeOK'
  <2>1. Front(msgs[i]) \in Seq(Message)
    <3>1. msgs[i] \in Seq(Message)
      BY DEF TypeOK
    <3>2. Len(msgs[i]) \in Nat /\ \A n \in 1 .. Len(msgs[i]) - 1 : msgs[i][n] \in Message
      BY <3>1, LenProperties, ElementOfSeq
    <3>. QED BY <3>2, SubSeqProperties DEF Front
  <2>. QED BY <1>2, <2>1 DEF TypeOK, AgentCuts, userVars, tableVars, histVars
<1>3. ASSUME NEW i \in Ids, View(i) \/ ViewExpires(i) PROVE TypeOK'
  BY <1>3 DEF TypeOK, View, ViewExpires, tableVars, histVars, bounds
<1>4. ASSUME NEW enabled \in BOOLEAN, NEW scope \in Scopes, SaveSettings(enabled, scope)
      PROVE  TypeOK'
  <2>1. now' \in Nat /\ settings' \in Settings
    BY <1>4 DEF TypeOK, SaveSettings, Settings
  <2>. QED BY <1>4, <2>1 DEF TypeOK, SaveSettings, tableVars, histVars
<1>5. CASE ClearNotifications
  BY <1>5, EmptySeq DEF TypeOK, ClearNotifications, userVars
<1>. QED BY <1>1, <1>2, <1>3, <1>4, <1>5

LEMMA PassStepType ==
  ASSUME TypeOK, ListInHand, PassStep
  PROVE  TypeOK'
<1>0. /\ pass \in PassType /\ pass.read \in Seq(Message) /\ pass.cands \in SUBSET Nat
      /\ pass.id \in Ids /\ seen \in [Ids -> Nat] /\ notes \in Seq(Key)
      /\ emitted \in [Key -> Nat] /\ settings \in Settings
      /\ \A i \in Ids : msgs[i] \in Seq(Message) /\ Len(msgs[i]) \in Nat
  BY LenProperties DEF TypeOK, PassType
<1>1. UNCHANGED <<msgs, now, settings, written>>
  BY DEF PassStep, Begin, Skip, OutOfScope, ReadSession, ReadFails, Insert, InsertFails, Emit,
         FinishSession, End, userVars, bounds
<1>. SUFFICES /\ pass' \in PassType /\ seen' \in [Ids -> Nat] /\ notes' \in Seq(Key)
              /\ emitted' \in [Key -> Nat]
  BY <1>1 DEF TypeOK
<1>2. CASE Begin
  <2>. DEFINE ids == {i \in Ids : changed[i]}
  <2>1. PICK some \in SUBSET ids :
          pass' = [RestingPass EXCEPT !.at = "session", !.skip = ids \ some, !.todo = some,
                                      !.settings = settings]
    BY <1>2 DEF Begin
  <2>2. pass' \in PassType
    BY <1>0, <2>1, RestingType DEF PassType
  <2>. QED BY <1>0, <1>2, <2>2 DEF Begin, tableVars
<1>3. ASSUME NEW i \in Ids, Skip(i) \/ OutOfScope(i) \/ ReadFails(i)
      PROVE  pass' \in PassType /\ seen' \in [Ids -> Nat] /\ UNCHANGED <<notes, emitted>>
  <2>1. pass' \in PassType
    BY ZenonT(30), <1>0, <1>3 DEF Skip, OutOfScope, ReadFails, PassType
  <2>2. seen' = seen \/ seen' = [seen EXCEPT ![i] = Len(msgs[i])]
    BY <1>3 DEF Skip, OutOfScope, ReadFails, AdvanceSeenCursor, tableVars
  <2>3. seen' \in [Ids -> Nat]
    BY <1>0, <2>2
  <2>. QED BY <1>3, <2>1, <2>3 DEF Skip, OutOfScope, ReadFails, tableVars, histVars
<1>4. ASSUME NEW i \in Ids, ReadSession(i)
      PROVE  pass' \in PassType /\ UNCHANGED <<seen, notes, emitted>>
  <2>1. Classify(msgs[i], seen[i], pass.settings) \in SUBSET Nat
    BY <1>0, LenProperties DEF Classify
  <2>2. PICK cands \in SUBSET Nat :
          pass' = [pass EXCEPT !.at = "insert", !.todo = @ \ {i}, !.id = i,
                               !.read = msgs[i], !.cands = cands]
    BY <1>4, <2>1 DEF ReadSession
  <2>3. pass' \in PassType
    BY <1>0, <2>2 DEF PassType
  <2>. QED BY <1>4, <2>3 DEF ReadSession, tableVars, histVars
<1>5. ASSUME NEW n \in pass.cands, Insert(n) \/ InsertFails(n) \/ Emit(n)
      PROVE  /\ pass' \in PassType /\ notes' \in Seq(Key) /\ emitted' \in [Key -> Nat]
             /\ UNCHANGED seen
  <2>1. pass.read[n].key \in Key
    <3>1. n \in DOMAIN pass.read
      BY <1>5 DEF ListInHand, InHand, Insert, InsertFails, Emit
    <3>2. pass.read[n] \in Message
      BY <1>0, <3>1, ElementOfSeq, LenProperties
    <3>. QED BY <3>2 DEF Message
  <2>2. pass.cands \ {n} \in SUBSET Nat
    BY <1>0
  <2>3. CASE Insert(n)
    <3>1. CASE pass' = [pass EXCEPT !.cands = @ \ {n}] /\ UNCHANGED notes
      BY <1>0, <2>2, <2>3, <3>1 DEF Insert, PassType, histVars
    <3>2. CASE notes' = Append(notes, pass.read[n].key)
               /\ pass' = [pass EXCEPT !.at = "emit", !.any = TRUE]
      BY <1>0, <2>1, <2>3, <3>2, AppendProperties DEF Insert, PassType, histVars
    <3>. QED BY <2>3, <3>1, <3>2 DEF Insert
  <2>4. CASE InsertFails(n)
    BY <1>0, <2>2, <2>4 DEF InsertFails, PassType, tableVars, histVars
  <2>5. CASE Emit(n)
    <3>1. emitted' = [emitted EXCEPT ![pass.read[n].key] = @ + 1]
          /\ pass' = [pass EXCEPT !.at = "insert", !.cands = @ \ {n}]
          /\ UNCHANGED <<seen, notes>>
      BY <2>5 DEF Emit, tableVars
    <3>2. emitted' \in [Key -> Nat]
      BY <1>0, <2>1, <3>1
    <3>3. pass' \in PassType
      BY <1>0, <2>2, <3>1 DEF PassType
    <3>. QED BY <1>0, <3>1, <3>2, <3>3
  <2>. QED BY <1>5, <2>3, <2>4, <2>5
<1>6. CASE FinishSession
  <2>1. RestingPass.id \in Ids /\ <<>> \in Seq(Message)
    BY RestingType, EmptySeq DEF PassType
  <2>2. pass' = [pass EXCEPT !.at = "session", !.id = RestingPass.id, !.read = <<>>]
        /\ seen' \in {seen, [seen EXCEPT ![pass.id] = Len(pass.read)]}
        /\ UNCHANGED <<notes, emitted>>
    BY <1>6 DEF FinishSession
  <2>3. pass' \in PassType
    BY <1>0, <2>1, <2>2 DEF PassType
  <2>4. seen' \in [Ids -> Nat]
    BY <1>0, <2>2, LenProperties
  <2>. QED BY <1>0, <2>2, <2>3, <2>4
<1>7. CASE End
  <2>1. SubSeq(notes, Len(notes) - Keep + 1, Len(notes)) \in Seq(Key) \/ Len(notes) <= Keep
    <3>1. Len(notes) \in Nat /\ \A n \in 1 .. Len(notes) : notes[n] \in Key
      BY <1>0, LenProperties, ElementOfSeq
    <3>2. Keep \in Nat
      BY NotifierAssumption
    <3>. QED BY <3>1, <3>2, SubSeqProperties
  <2>. QED BY <1>0, <1>7, <2>1, RestingType, NotifierAssumption, LenProperties DEF End
<1>. QED BY <1>0, <1>2, <1>3, <1>4, <1>5, <1>6, <1>7 DEF PassStep

LEMMA NextType ==
  ASSUME TypeOK, ListInHand, [Next]_vars
  PROVE  TypeOK'
<1>1. CASE Crash
  BY <1>1, RestingType DEF Crash, TypeOK, tableVars, histVars
<1>2. CASE UNCHANGED vars
  BY <1>2 DEF vars, TypeOK, userVars, tableVars, histVars, bounds
<1>. QED BY <1>1, <1>2, OutsideType, PassStepType DEF Next

-----------------------------------------------------------------------------
(* Cursors *)

\* A step that writes, reads and goes past nothing.
LEMMA QuietCursor ==
  ASSUME CursorInv, UNCHANGED <<msgs, written, over, seen>>,
         \/ pass'.at \notin InHand
         \/ /\ pass.at \in InHand /\ pass'.id = pass.id /\ pass'.read = pass.read
            /\ pass'.cands \subseteq pass.cands
  PROVE  CursorInv'
BY DEF CursorInv, KeysAreUnique, CursorCovers, ListInHand

\* A new message has a key that nothing has seen.
LEMMA AskedCursor ==
  ASSUME TypeOK, CursorInv, NEW i \in Ids, AgentAsks(i)
  PROVE  CursorInv'
<1>0. /\ msgs[i] \in Seq(Message) /\ Len(msgs[i]) \in Nat /\ written \in Nat
      /\ \A j \in Ids : /\ DOMAIN msgs[j] = 1 .. Len(msgs[j])
                        /\ Len(msgs[j]) \in Nat
                        /\ \A n \in DOMAIN msgs[j] : msgs[j][n].key \in Nat
      /\ pass.id \in Ids /\ Len(pass.read) \in Nat /\ DOMAIN pass.read = 1 .. Len(pass.read)
      /\ \A m \in DOMAIN pass.read : pass.read[m].key \in Nat
  <2>1. /\ \A j \in Ids : msgs[j] \in Seq(Message)
        /\ pass.read \in Seq(Message) /\ pass.id \in Ids /\ written \in Nat
    BY DEF TypeOK, PassType
  <2>2. ASSUME NEW list \in Seq(Message)
        PROVE  /\ Len(list) \in Nat /\ DOMAIN list = 1 .. Len(list)
               /\ \A n \in DOMAIN list : list[n].key \in Nat
    <3>1. Len(list) \in Nat /\ DOMAIN list = 1 .. Len(list) /\ \A n \in DOMAIN list : list[n] \in Message
      BY LenProperties, ElementOfSeq
    <3>. QED BY <3>1 DEF Message, Key
  <2>. QED BY <2>1, <2>2
<1>1. /\ written' = written + 1 /\ UNCHANGED <<pass, over, seen>>
      /\ \A j \in Ids \ {i} : msgs'[j] = msgs[j]
      /\ \E time \in Nat : msgs'[i] = Append(msgs[i], [key |-> written + 1, time |-> time])
  BY DEF AgentAsks, TypeOK, tableVars, histVars, NoTime
<1>2. /\ DOMAIN msgs'[i] = 1 .. Len(msgs[i]) + 1
      /\ \A n \in 1 .. Len(msgs[i]) : msgs'[i][n] = msgs[i][n]
      /\ msgs'[i][Len(msgs[i]) + 1].key = written + 1
  <2>1. PICK time \in Nat : msgs'[i] = Append(msgs[i], [key |-> written + 1, time |-> time])
    BY <1>1
  <2>. QED BY <1>0, <2>1, AppendProperties
\* Each message is an old one, or the new one.
<1>3. \A j \in Ids : \A n \in DOMAIN msgs'[j] :
        \/ n \in DOMAIN msgs[j] /\ msgs'[j][n] = msgs[j][n]
        \/ j = i /\ n = Len(msgs[i]) + 1 /\ msgs'[j][n].key = written + 1
  <2>. SUFFICES ASSUME NEW j \in Ids, NEW n \in DOMAIN msgs'[j]
                PROVE  \/ n \in DOMAIN msgs[j] /\ msgs'[j][n] = msgs[j][n]
                       \/ j = i /\ n = Len(msgs[i]) + 1 /\ msgs'[j][n].key = written + 1
    OBVIOUS
  <2>1. CASE j # i
    BY <1>1, <2>1
  <2>2. CASE j = i
    <3>1. n \in 1 .. Len(msgs[i]) \/ n = Len(msgs[i]) + 1
      BY <1>0, <1>2, <2>2
    <3>. QED BY <1>0, <1>2, <2>2, <3>1
  <2>. QED BY <2>1, <2>2
<1>4. KeysAreUnique'
  <2>1. \A j \in Ids : \A n \in DOMAIN msgs'[j] : msgs'[j][n].key <= written'
    BY <1>0, <1>1, <1>3 DEF CursorInv, KeysAreUnique
  <2>2. ASSUME NEW j \in Ids, NEW k \in Ids, NEW n \in DOMAIN msgs'[j], NEW m \in DOMAIN msgs'[k],
               msgs'[j][n].key = msgs'[k][m].key
        PROVE  j = k /\ n = m
    BY SMTT(30), <1>0, <1>3, <2>2 DEF CursorInv, KeysAreUnique
  <2>. QED BY <2>1, <2>2 DEF KeysAreUnique
<1>5. over \subseteq 1 .. written /\ written + 1 \notin over
  BY <1>0 DEF CursorInv, CursorCovers
<1>6. CursorCovers'
  <2>1. over' \subseteq 1 .. written'
    BY <1>0, <1>1, <1>5
  <2>2. ASSUME NEW j \in Ids, NEW n \in DOMAIN msgs'[j], msgs'[j][n].key \in over
        PROVE  n <= seen[j]
    BY <1>3, <1>5, <2>2 DEF CursorInv, CursorCovers
  <2>. QED BY <1>1, <2>1, <2>2 DEF CursorCovers
<1>7. ListInHand'
  <2>. SUFFICES ASSUME pass.at \in InHand PROVE ListInHand'
    BY <1>1 DEF ListInHand
  <2>1. \A m \in DOMAIN pass.read : pass.read[m].key <= written /\ pass.read[m].key # written + 1
    BY <1>0 DEF CursorInv, ListInHand
  <2>2. \A m \in DOMAIN pass.read : pass.read[m].key <= written'
    BY <1>0, <1>1, <2>1
  <2>3. ASSUME NEW j \in Ids, NEW n \in DOMAIN msgs'[j], NEW m \in DOMAIN pass.read,
               msgs'[j][n].key = pass.read[m].key
        PROVE  j = pass.id /\ n = m
    BY <1>3, <2>1, <2>3 DEF CursorInv, ListInHand
  <2>4. ASSUME NEW n \in DOMAIN msgs'[pass.id], n > Len(pass.read)
        PROVE  msgs'[pass.id][n].key \notin over
    BY <1>0, <1>3, <1>5, <2>4 DEF CursorInv, ListInHand
  <2>. QED BY <1>1, <2>2, <2>3, <2>4 DEF CursorInv, ListInHand
<1>. QED BY <1>4, <1>6, <1>7 DEF CursorInv

\* A list cut short has what it had, where it was.
LEMMA CutCursor ==
  ASSUME TypeOK, CursorInv, NEW i \in Ids, AgentCuts(i)
  PROVE  CursorInv'
<1>0. msgs[i] \in Seq(Message) /\ Len(msgs[i]) \in Nat /\ DOMAIN msgs[i] = 1 .. Len(msgs[i])
      /\ \A n \in DOMAIN msgs[i] : msgs[i][n] \in Message
      /\ msgs \in [Ids -> Seq(Message)] /\ pass.id \in Ids
  BY LenProperties, ElementOfSeq DEF TypeOK, PassType
<1>1. /\ UNCHANGED <<written, pass, over, seen>>
      /\ msgs' = [msgs EXCEPT ![i] = SubSeq(msgs[i], 1, Len(msgs[i]) - 1)]
  BY DEF AgentCuts, tableVars, histVars, Front
<1>2. \A n \in DOMAIN msgs'[i] : n \in DOMAIN msgs[i] /\ msgs'[i][n] = msgs[i][n]
  <2>. DEFINE t == SubSeq(msgs[i], 1, Len(msgs[i]) - 1)
  <2>1. /\ t \in Seq(Message)
        /\ Len(t) = IF 1 <= Len(msgs[i]) - 1 THEN Len(msgs[i]) - 1 - 1 + 1 ELSE 0
        /\ \A n \in 1 .. Len(msgs[i]) - 1 - 1 + 1 : t[n] = msgs[i][1 + n - 1]
    BY <1>0, SubSeqProperties
  <2>. HIDE DEF t
  <2>2. DOMAIN t = 1 .. Len(t)
    BY <2>1, LenProperties
  <2>3. msgs'[i] = t
    BY <1>0, <1>1 DEF t
  <2>. QED BY <1>0, <2>1, <2>2, <2>3
<1>3. \A j \in Ids : \A n \in DOMAIN msgs'[j] : n \in DOMAIN msgs[j] /\ msgs'[j][n] = msgs[j][n]
  BY <1>0, <1>1, <1>2
<1>. QED BY <1>0, <1>1, <1>3 DEF CursorInv, KeysAreUnique, CursorCovers, ListInHand

\* AdvanceSeenCursor: the whole list is gone past, and the cursor is at its end.
LEMMA AdvancedCursor ==
  ASSUME TypeOK, CursorInv, NEW i \in Ids, AdvanceSeenCursor(i), UNCHANGED <<msgs, written>>,
         pass'.at \notin InHand
  PROVE  CursorInv'
<1>0. /\ msgs[i] \in Seq(Message) /\ seen \in [Ids -> Nat]
      /\ DOMAIN msgs[i] = 1 .. Len(msgs[i]) /\ Len(msgs[i]) \in Nat
      /\ \A n \in DOMAIN msgs[i] : msgs[i][n] \in Message
  BY LenProperties, ElementOfSeq DEF TypeOK
<1>1. /\ seen'[i] = Len(msgs[i]) /\ \A j \in Ids \ {i} : seen'[j] = seen[j]
      /\ over' = over \union KeysOf(msgs[i])
  BY <1>0 DEF AdvanceSeenCursor
<1>2. over' \subseteq 1 .. written'
  <2>1. \A n \in DOMAIN msgs[i] : msgs[i][n].key \in 1 .. written
    BY <1>0 DEF CursorInv, KeysAreUnique, Message, Key
  <2>. QED BY <1>1, <2>1 DEF CursorInv, CursorCovers, KeysOf
<1>3. ASSUME NEW j \in Ids, NEW n \in DOMAIN msgs[j], msgs[j][n].key \in over'
      PROVE  n <= seen'[j]
  <2>1. CASE j = i
    BY <1>0, <1>1, <2>1
  <2>2. CASE j # i
    <3>1. msgs[j][n].key \notin KeysOf(msgs[i])
      BY <2>2 DEF KeysOf, CursorInv, KeysAreUnique
    <3>. QED BY <1>1, <1>3, <2>2, <3>1 DEF CursorInv, CursorCovers
  <2>. QED BY <2>1, <2>2
<1>. QED BY <1>2, <1>3 DEF CursorInv, KeysAreUnique, CursorCovers, ListInHand

\* Read, a list is as it stands, and its candidates are beyond the cursor.
LEMMA ReadCursor ==
  ASSUME TypeOK, CursorInv, NEW i \in Ids, ReadSession(i)
  PROVE  CursorInv'
<1>0. /\ msgs[i] \in Seq(Message) /\ seen[i] \in Nat /\ pass \in PassType
      /\ DOMAIN msgs[i] = 1 .. Len(msgs[i]) /\ Len(msgs[i]) \in Nat
  BY LenProperties DEF TypeOK
<1>1. /\ UNCHANGED <<msgs, written, over, seen>>
      /\ pass'.id = i /\ pass'.read = msgs[i]
      /\ pass'.cands \subseteq Classify(msgs[i], seen[i], pass.settings)
  BY <1>0 DEF ReadSession, PassType, tableVars, histVars, bounds
<1>2. \A m \in pass'.cands : m \in DOMAIN msgs[i] /\ m > seen[i]
  BY <1>1 DEF Classify
<1>3. \A m \in pass'.cands : msgs[i][m].key \notin over
  BY <1>0, <1>2 DEF CursorInv, CursorCovers
<1>4. ListInHand'
  BY <1>0, <1>1, <1>2, <1>3 DEF CursorInv, KeysAreUnique, ListInHand
<1>. QED BY <1>1, <1>4 DEF CursorInv, KeysAreUnique, CursorCovers

\* advanceCursor, to the end of the list that was read: what has come since is
\* beyond it and was not gone past.
LEMMA FinishedCursor ==
  ASSUME TypeOK, CursorInv, FinishSession
  PROVE  CursorInv'
<1>0. /\ pass \in PassType /\ pass.id \in Ids /\ pass.read \in Seq(Message)
      /\ seen \in [Ids -> Nat] /\ pass.at \in InHand
      /\ DOMAIN pass.read = 1 .. Len(pass.read) /\ Len(pass.read) \in Nat
      /\ \A m \in DOMAIN pass.read : pass.read[m] \in Message
      /\ \A j \in Ids : DOMAIN msgs[j] = 1 .. Len(msgs[j]) /\ Len(msgs[j]) \in Nat
  BY LenProperties, ElementOfSeq DEF TypeOK, PassType, FinishSession, InHand
<1>1. /\ UNCHANGED <<msgs, written>> /\ pass'.at = "session"
      /\ \A j \in Ids \ {pass.id} : seen'[j] = seen[j]
      /\ \/ UNCHANGED <<seen, over>>
         \/ seen'[pass.id] = Len(pass.read) /\ over' = over \union KeysOf(pass.read)
  <2>1. pass' = [pass EXCEPT !.at = "session", !.id = RestingPass.id, !.read = <<>>]
        /\ UNCHANGED <<msgs, written>>
    BY DEF FinishSession
  <2>2. seen' = seen \/ seen' = [seen EXCEPT ![pass.id] = Len(pass.read)]
    BY DEF FinishSession
  <2>3. over' = IF seen'[pass.id] = Len(pass.read) THEN over \union KeysOf(pass.read) ELSE over
    BY DEF FinishSession
  <2>. QED BY <1>0, <2>1, <2>2, <2>3 DEF PassType
<1>2. pass'.at \notin InHand
  BY <1>1 DEF InHand
<1>3. CASE UNCHANGED <<seen, over>>
  BY <1>1, <1>2, <1>3, QuietCursor
<1>4. CASE seen'[pass.id] = Len(pass.read) /\ over' = over \union KeysOf(pass.read)
  <2>1. over' \subseteq 1 .. written'
    <3>1. \A m \in DOMAIN pass.read : pass.read[m].key \in 1 .. written
      BY <1>0 DEF CursorInv, ListInHand, Message, Key
    <3>. QED BY <1>1, <1>4, <3>1 DEF CursorInv, CursorCovers, KeysOf
  <2>2. ASSUME NEW j \in Ids, NEW n \in DOMAIN msgs[j], msgs[j][n].key \in over'
        PROVE  n <= seen'[j]
    <3>1. CASE msgs[j][n].key \in KeysOf(pass.read)
      <4>1. PICK m \in DOMAIN pass.read : msgs[j][n].key = pass.read[m].key
        BY <3>1 DEF KeysOf
      <4>2. j = pass.id /\ n = m
        BY <1>0, <4>1 DEF CursorInv, ListInHand
      <4>. QED BY <1>0, <1>4, <4>2
    <3>2. CASE msgs[j][n].key \in over /\ j # pass.id
      BY <1>1, <3>2 DEF CursorInv, CursorCovers
    <3>3. CASE msgs[j][n].key \in over /\ j = pass.id
      <4>1. ~(n > Len(pass.read))
        BY <1>0, <3>3 DEF CursorInv, ListInHand
      <4>. QED BY <1>0, <1>4, <3>3, <4>1
    <3>. QED BY <1>4, <2>2, <3>1, <3>2, <3>3
  <2>. QED BY <1>1, <1>2, <2>1, <2>2 DEF CursorInv, KeysAreUnique, CursorCovers, ListInHand
<1>. QED BY <1>1, <1>3, <1>4

LEMMA NextCursor ==
  ASSUME TypeOK, CursorInv, [Next]_vars
  PROVE  CursorInv'
<1>0. pass \in PassType /\ RestingPass.at \notin InHand
  BY RestingType DEF TypeOK, InHand
<1>1. CASE UNCHANGED <<msgs, written, over, seen>> /\ pass' = pass
  BY <1>1, QuietCursor DEF CursorInv, KeysAreUnique, CursorCovers, ListInHand
<1>2. ASSUME NEW i \in Ids, AgentAsks(i) \/ AgentCuts(i) \/ View(i) \/ ViewExpires(i)
      PROVE  CursorInv'
  BY <1>1, <1>2, AskedCursor, CutCursor DEF View, ViewExpires, tableVars, histVars, bounds
<1>3. CASE ClearNotifications \/ \E e \in BOOLEAN, c \in Scopes : SaveSettings(e, c)
  BY <1>1, <1>3 DEF ClearNotifications, SaveSettings, tableVars, histVars
<1>4. CASE Begin
  <2>1. pass'.at = "session" /\ UNCHANGED <<msgs, written, over, seen>>
    BY <1>4, RestingType DEF Begin, PassType, tableVars, bounds
  <2>. QED BY <2>1, QuietCursor DEF InHand
<1>5. ASSUME NEW i \in Ids, Skip(i) \/ OutOfScope(i) \/ ReadFails(i) PROVE CursorInv'
  <2>1. pass'.at = "session" /\ UNCHANGED <<msgs, written>>
    BY <1>0, <1>5 DEF Skip, OutOfScope, ReadFails, PassType, bounds
  <2>2. CASE AdvanceSeenCursor(i)
    BY <2>1, <2>2, AdvancedCursor DEF InHand
  <2>3. CASE UNCHANGED <<seen, over>>
    BY <2>1, <2>3, QuietCursor DEF InHand
  <2>. QED BY <1>5, <2>2, <2>3 DEF Skip, OutOfScope, ReadFails, tableVars, histVars
<1>6. ASSUME NEW i \in Ids, ReadSession(i) PROVE CursorInv'
  BY <1>6, ReadCursor
<1>7. ASSUME NEW n \in pass.cands, Insert(n) \/ InsertFails(n) \/ Emit(n) PROVE CursorInv'
  <2>1. /\ UNCHANGED <<msgs, written, over, seen>> /\ pass.at \in InHand
        /\ pass'.id = pass.id /\ pass'.read = pass.read /\ pass'.cands \subseteq pass.cands
    <3>1. CASE Insert(n)
      BY <1>0, <3>1 DEF Insert, PassType, InHand, histVars, bounds
    <3>2. CASE InsertFails(n)
      BY <1>0, <3>2 DEF InsertFails, PassType, InHand, histVars, tableVars
    <3>3. CASE Emit(n)
      BY <1>0, <3>3 DEF Emit, PassType, InHand, tableVars, bounds
    <3>. QED BY <1>7, <3>1, <3>2, <3>3
  <2>. QED BY <2>1, QuietCursor
<1>8. CASE End \/ Crash
  <2>1. pass' = RestingPass /\ UNCHANGED <<msgs, written, over, seen>>
    BY <1>8 DEF End, Crash, tableVars, histVars, bounds
  <2>. QED BY <1>0, <2>1, QuietCursor
<1>9. CASE UNCHANGED vars
  BY <1>1, <1>9 DEF vars, tableVars, histVars, bounds
<1>. QED BY <1>2, <1>3, <1>4, <1>5, <1>6, <1>7, <1>8, <1>9, FinishedCursor DEF Next, PassStep

-----------------------------------------------------------------------------
(* Announcements *)

LEMMA AddedNote ==
  ASSUME NEW list \in Seq(Key), NEW k \in Key
  PROVE  ToSet(Append(list, k)) = ToSet(list) \union {k}
<1>1. /\ Len(list) \in Nat /\ DOMAIN list = 1 .. Len(list)
      /\ DOMAIN Append(list, k) = 1 .. Len(list) + 1
      /\ \A n \in 1 .. Len(list) : Append(list, k)[n] = list[n]
      /\ Append(list, k)[Len(list) + 1] = k
  BY LenProperties, AppendProperties
<1>2. 1 .. Len(list) + 1 = (1 .. Len(list)) \union {Len(list) + 1}
  BY <1>1
<1>. QED BY <1>1, <1>2 DEF ToSet

LEMMA QuietAnnounced ==
  ASSUME AnnouncedOnce, AnnouncedStands, UNCHANGED <<notes, emitted, deleted>>,
         pass'.at # "emit" \/ pass' = pass
  PROVE  AnnouncedOnce' /\ AnnouncedStands'
BY DEF AnnouncedOnce, AnnouncedStands, NextCandidate

LEMMA NextAnnounced ==
  ASSUME TypeOK, ListInHand, AnnouncedOnce, AnnouncedStands, [Next]_vars
  PROVE  AnnouncedOnce' /\ AnnouncedStands'
<1>0. /\ pass \in PassType /\ emitted \in [Key -> Nat] /\ notes \in Seq(Key)
      /\ RestingPass.at = "idle" /\ RestingPass \in PassType
  BY RestingType DEF TypeOK
<1>1. ASSUME NEW i \in Ids,
             \/ AgentAsks(i) \/ AgentCuts(i) \/ View(i) \/ ViewExpires(i)
             \/ \E e \in BOOLEAN, c \in Scopes : SaveSettings(e, c)
      PROVE  AnnouncedOnce' /\ AnnouncedStands'
  BY <1>1, QuietAnnounced DEF AgentAsks, AgentCuts, View, ViewExpires, SaveSettings, tableVars,
                              histVars
<1>2. CASE ClearNotifications
  <2>1. deleted' = deleted \union ToSet(notes) /\ UNCHANGED <<emitted, pass>>
    BY <1>2 DEF ClearNotifications
  <2>. QED BY <2>1 DEF AnnouncedOnce, AnnouncedStands, NextCandidate
<1>3. CASE Begin
  <2>1. pass'.at = "session" /\ UNCHANGED <<notes, emitted, deleted>>
    BY <1>0, <1>3 DEF Begin, PassType, tableVars
  <2>. QED BY <2>1, QuietAnnounced
<1>4. ASSUME NEW i \in Ids, Skip(i) \/ OutOfScope(i) \/ ReadFails(i) \/ ReadSession(i)
      PROVE  AnnouncedOnce' /\ AnnouncedStands'
  <2>1. CASE Skip(i) \/ OutOfScope(i) \/ ReadFails(i)
    <3>1. pass'.at = "session" /\ UNCHANGED <<notes, emitted, deleted>>
      BY <1>0, <2>1 DEF Skip, OutOfScope, ReadFails, PassType, tableVars, histVars
    <3>. QED BY <3>1, QuietAnnounced
  <2>2. CASE ReadSession(i)
    <3>1. pass'.at = "insert" /\ UNCHANGED <<notes, emitted, deleted>>
      BY <1>0, <2>2 DEF ReadSession, PassType, tableVars, histVars
    <3>. QED BY <3>1, QuietAnnounced
  <2>. QED BY <1>4, <2>1, <2>2
<1>5. ASSUME NEW n \in pass.cands, pass.at \in InHand PROVE pass.read[n].key \in Key
  <2>1. n \in DOMAIN pass.read /\ pass.read \in Seq(Message)
    BY <1>0, <1>5 DEF ListInHand, PassType
  <2>2. pass.read[n] \in Message
    BY <2>1, ElementOfSeq, LenProperties
  <2>. QED BY <2>2 DEF Message
<1>6. ASSUME NEW n \in pass.cands, Insert(n) PROVE AnnouncedOnce' /\ AnnouncedStands'
  <2>. DEFINE key == pass.read[n].key
  <2>1. key \in Key /\ UNCHANGED <<emitted, deleted>>
    BY <1>5, <1>6 DEF Insert, InHand, histVars
  <2>2. CASE key \in ToSet(notes)
    <3>1. pass'.at = "insert" /\ notes' = notes
      BY <1>0, <1>6, <2>2 DEF Insert, PassType
    <3>. QED BY <2>1, <3>1, QuietAnnounced
  <2>3. CASE key \notin ToSet(notes)
    <3>1. /\ notes' = Append(notes, key) /\ pass'.at = "emit"
          /\ pass'.read = pass.read /\ pass'.cands = pass.cands
      BY <1>0, <1>6, <2>3 DEF Insert, PassType
    <3>2. ToSet(notes') = ToSet(notes) \union {key}
      BY <1>0, <2>1, <3>1, AddedNote
    <3>3. emitted[key] > 0 => key \in deleted
      BY <2>1, <2>3 DEF AnnouncedStands
    <3>4. \A m \in pass.cands : NextCandidate(m)' => m = n
      <4>1. pass.cands \subseteq Nat /\ \A m \in pass.cands : n <= m
        BY <1>0, <1>6 DEF Insert, NextCandidate, PassType
      <4>2. ASSUME NEW m \in pass.cands, NextCandidate(m)' PROVE m = n
        <5>1. m <= n /\ n <= m
          BY <3>1, <4>1, <4>2 DEF NextCandidate
        <5>. QED BY <4>1, <5>1
      <4>. QED BY <4>2
    <3>5. \A m \in pass'.cands : NextCandidate(m)' =>
            /\ pass'.read[m].key \in ToSet(notes') \union deleted'
            /\ emitted'[pass'.read[m].key] > 0 => pass'.read[m].key \in deleted'
      BY <2>1, <3>1, <3>2, <3>3, <3>4
    <3>. QED BY <2>1, <3>2, <3>5 DEF AnnouncedOnce, AnnouncedStands
  <2>. QED BY <2>2, <2>3
<1>7. ASSUME NEW n \in pass.cands, InsertFails(n) PROVE AnnouncedOnce' /\ AnnouncedStands'
  <2>1. pass'.at = "insert" /\ UNCHANGED <<notes, emitted, deleted>>
    BY <1>0, <1>7 DEF InsertFails, PassType, tableVars, histVars
  <2>. QED BY <2>1, QuietAnnounced
<1>8. ASSUME NEW n \in pass.cands, Emit(n) PROVE AnnouncedOnce' /\ AnnouncedStands'
  <2>. DEFINE key == pass.read[n].key
  <2>1. /\ key \in Key /\ UNCHANGED <<notes, deleted>> /\ pass'.at = "insert"
        /\ key \in ToSet(notes) \union deleted
        /\ emitted[key] > 0 => key \in deleted
    <3>1. UNCHANGED <<notes, deleted>> /\ pass'.at = "insert"
      BY <1>0, <1>8 DEF Emit, PassType, tableVars
    <3>. QED BY <1>5, <1>8, <3>1 DEF Emit, InHand, AnnouncedStands
  <2>2. /\ emitted'[key] = emitted[key] + 1 /\ emitted[key] \in Nat
        /\ \A k \in Key \ {key} : emitted'[k] = emitted[k]
    BY <1>0, <1>8, <2>1 DEF Emit
  <2>. QED BY <2>1, <2>2 DEF AnnouncedOnce, AnnouncedStands
<1>9. CASE FinishSession
  <2>1. pass'.at = "session" /\ UNCHANGED <<notes, emitted, deleted>>
    BY <1>0, <1>9 DEF FinishSession, PassType
  <2>. QED BY <2>1, QuietAnnounced
<1>10. CASE End
  <2>1. /\ deleted' = deleted \union (ToSet(notes) \ ToSet(notes'))
        /\ emitted' = emitted /\ pass'.at = "idle"
    BY <1>0, <1>10 DEF End
  <2>. QED BY <2>1 DEF AnnouncedOnce, AnnouncedStands
<1>11. CASE Crash
  BY <1>0, <1>11, QuietAnnounced DEF Crash, tableVars, histVars
<1>12. CASE UNCHANGED vars
  BY <1>12, QuietAnnounced DEF vars, tableVars, histVars
<1>13. Ids # {}
  BY NotifierAssumption
<1>. QED BY <1>1, <1>2, <1>3, <1>4, <1>6, <1>7, <1>8, <1>9, <1>10, <1>11, <1>12, <1>13
         DEF Next, PassStep

\* Only an emission counts, and it is of a candidate.
LEMMA NothingReplayed ==
  ASSUME TypeOK, ListInHand, [Next]_vars
  PROVE  \A k \in over : emitted'[k] = emitted[k]
<1>1. CASE emitted' = emitted
  BY <1>1
<1>2. ASSUME NEW n \in pass.cands, Emit(n)
      PROVE  \A k \in over : emitted'[k] = emitted[k]
  <2>1. pass.read[n].key \notin over
    BY <1>2 DEF Emit, InHand, ListInHand
  <2>2. emitted' = [emitted EXCEPT ![pass.read[n].key] = @ + 1]
    BY <1>2 DEF Emit
  <2>. QED BY <2>1, <2>2 DEF TypeOK
<1>3. emitted' = emitted \/ \E n \in pass.cands : Emit(n)
  BY DEF Next, vars, AgentAsks, AgentCuts, View, ViewExpires, SaveSettings, ClearNotifications,
         PassStep, Begin, Skip, OutOfScope, ReadSession, ReadFails, Insert, InsertFails,
         FinishSession, End, Crash, histVars
<1>. QED BY <1>1, <1>2, <1>3

LEMMA InitSound == Init => NotifierInv
<1>. SUFFICES ASSUME Init PROVE NotifierInv
  OBVIOUS
<1>1. CursorInv
  BY RestingType DEF Init, CursorInv, KeysAreUnique, CursorCovers, ListInHand, InHand
<1>2. AnnouncedOnce /\ AnnouncedStands
  BY RestingType DEF Init, AnnouncedOnce, AnnouncedStands
<1>. QED BY <1>1, <1>2, InitType DEF NotifierInv

\* Whatever the user turns on and off and whatever fails, a question is announced
\* once while its notification stands, and never after a pass has gone past it
\* (notifier.go, ClassifyChanges and AdvanceSeenCursor; notify.go, Classify).
THEOREM NeverTwiceNeverLate == Spec => AnnouncedInTime
<1>1. NotifierInv /\ [Next]_vars => NotifierInv'
  BY NextType, NextCursor, NextAnnounced DEF NotifierInv, CursorInv
<1>2. NotifierInv /\ [Next]_vars => [\A k \in over : emitted'[k] = emitted[k]]_vars
  BY NothingReplayed DEF NotifierInv, CursorInv
<1>3. NotifierInv => AnnouncedOnce
  BY DEF NotifierInv
<1>. QED BY <1>1, <1>2, <1>3, InitSound, PTL DEF Spec, AnnouncedInTime, NoBacklog
=============================================================================
