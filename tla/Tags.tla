---------------------------------- MODULE Tags ----------------------------------
(***************************************************************************)
(* Tags in three places of a page: the TagPanel of the sidebar, the header of *)
(* the open session (SessionHeader) and ManageTagsDialog, opened from the      *)
(* session list.  The panel and the header share a version of TagsContext,     *)
(* which bump() raises so that both reload; the dialog does not know it.       *)
(***************************************************************************)
EXTENDS Requests

CONSTANTS
  TagIds,          \* tags, listed or still to be created
  Listed,          \* those the server has at first
  Names,           \* what they can be called
  Sessions, Open,  \* sessions, and the one whose header is shown
  InitialExpanded  \* localStorage: the tags that were expanded when the panel mounted

ASSUME TagAssumption ==
  /\ IsFiniteSet(TagIds) /\ Listed \subseteq TagIds /\ InitialExpanded \subseteq TagIds
  /\ Open \in Sessions /\ "gone" \notin Names

VARIABLES
  srvNames,        \* the name of each tag; None before it is created, then "gone"
  srvTagged,       \* the sessions of each tag
  tags,            \* the panel's list, as names
  tagSessions,     \* the sessions it shows under each, None before they are loaded
  expandedTags, filterTag,
  sessionTags,     \* the tags the header shows, as names
  dialog, busyId,  \* the session ManageTagsDialog is open for; the tag it is toggling
  dialogTags, dialogSessionTags

tagVars == <<srvNames, srvTagged, tags, tagSessions, expandedTags, filterTag, sessionTags,
             dialog, busyId, dialogTags, dialogSessionTags>>
server == <<srvNames, srvTagged>>
panel == <<tags, tagSessions, expandedTags, filterTag>>
dialogVars == <<dialog, busyId, dialogTags, dialogSessionTags>>

Exists(t) == srvNames[t] \in Names
Live == [t \in TagIds |-> IF Exists(t) THEN srvNames[t] ELSE None]
Named(list) == {t \in TagIds : list[t] # None}
TagsOf(s) == [t \in TagIds |-> IF Exists(t) /\ s \in srvTagged[t] THEN srvNames[t] ELSE None]
NoTags == [t \in TagIds |-> None]

TagInit ==
  /\ \E n \in Names : srvNames = [t \in TagIds |-> IF t \in Listed THEN n ELSE None]
  /\ srvTagged \in [TagIds -> SUBSET Sessions] /\ \A t \in TagIds \ Listed : srvTagged[t] = {}
  /\ tags = NoTags /\ tagSessions = NoTags /\ expandedTags = InitialExpanded /\ filterTag = None
  /\ sessionTags = NoTags /\ dialog = None /\ busyId = None
  /\ dialogTags = {} /\ dialogSessionTags = {}

\* A request: by whom, about which tag and session, and whether bump() follows.
TagOp(kind, by, t, s) == [kind |-> kind, by |-> by, tag |-> t, session |-> s, name |-> None, bump |-> FALSE]
Bumping(op) == [op EXCEPT !.bump = TRUE]
Tags(by) == TagOp("tags", by, None, None)
TagSessions(t) == TagOp("tagSessions", "panel", t, None)
SessionTags(by, s) == TagOp("sessionTags", by, None, s)

\* bump(): the effects of a new version.
bumped == <<Tags("panel"), SessionTags("header", Open)>>

-----------------------------------------------------------------------------
(* The server.                                                              *)

Answer(op) ==
  CASE op.kind = "tags"        -> Live
    [] op.kind = "tagSessions" -> srvTagged[op.tag]
    [] op.kind = "sessionTags" -> TagsOf(op.session)
    [] OTHER                   -> "done"

Apply(op) ==
  /\ srvNames' = CASE op.kind \in {"create", "rename"} /\ srvNames[op.tag] # "gone" ->
                        [srvNames EXCEPT ![op.tag] = op.name]
                   [] op.kind = "delete" -> [srvNames EXCEPT ![op.tag] = "gone"]
                   [] OTHER -> srvNames
  /\ srvTagged' = CASE op.kind = "assign"   -> [srvTagged EXCEPT ![op.tag] = @ \cup {op.session}]
                    [] op.kind = "unassign" -> [srvTagged EXCEPT ![op.tag] = @ \ {op.session}]
                    [] op.kind = "delete"   -> [srvTagged EXCEPT ![op.tag] = {}]
                    [] OTHER -> srvTagged

ServeTag ==
  \E i \in ToServe :
    /\ Serve(i, Answer(calls[i].op)) /\ Apply(calls[i].op)
    /\ UNCHANGED <<acts, missed, panel, sessionTags, dialogVars>>

-----------------------------------------------------------------------------
(* Answers.                                                                 *)

Follows(i) == IF calls[i].op.bump THEN bumped ELSE <<>>

\* loadTags sets the list, or empties it; the effects over it load the sessions
\* of the tags that were expanded at first and of the one filtered by.
Filtered(list) == {t \in Named(list) : list[t] = filterTag}
TagsAnswer(i) ==
  LET list == IF ok(i) THEN calls[i].answer ELSE NoTags
      reload == (Named(list) \cap InitialExpanded) \cup Filtered(list)
  IN
  /\ tags' = list
  /\ expandedTags' = expandedTags \cup Filtered(list)
  /\ Answered(i, SetToSeq({TagSessions(t) : t \in reload}))
  /\ missed' = (missed \/ ~ok(i))
  /\ UNCHANGED <<filterTag, tagSessions, sessionTags, dialogVars>>

TagSessionsAnswer(i) ==
  /\ tagSessions' = [tagSessions EXCEPT ![calls[i].op.tag] = IF ok(i) THEN calls[i].answer ELSE {}]
  /\ Answered(i, Follows(i))
  /\ missed' = (missed \/ ~ok(i))
  /\ UNCHANGED <<tags, expandedTags, filterTag, sessionTags, dialogVars>>

SessionTagsAnswer(i) ==
  /\ sessionTags' = IF ok(i) THEN calls[i].answer ELSE sessionTags
  /\ Answered(i, Follows(i))
  /\ missed' = (missed \/ ~ok(i))
  /\ UNCHANGED <<panel, dialogVars>>

\* handleCreate, handleEdit and handleDelete of the panel reload whatever the
\* answer; handleDrop, handleAssign and handleUnassign load the tag's sessions
\* and bump().
AfterPanel(op) ==
  IF op.kind \in {"assign", "unassign"} THEN <<Bumping(TagSessions(op.tag))>>
  ELSE <<Tags("panel")>> \o bumped

\* The header: a new tag is assigned next, then its tags are loaded and bump();
\* after a failure only removeTag loads them again.
AfterHeader(op, done) ==
  IF ~done THEN IF op.kind = "unassign" /\ op.name = "remove" THEN <<SessionTags("header", Open)>>
                ELSE <<>>
  ELSE IF op.kind = "create" THEN <<TagOp("assign", "header", op.tag, Open)>>
  ELSE <<Bumping(SessionTags("header", Open))>>

\* The dialog: the same, but its own lists are loaded and nothing is bumped.
AfterDialog(op, done) ==
  IF ~done THEN <<>>
  ELSE IF op.kind = "create" THEN <<TagOp("assign", "dialog", op.tag, dialog)>>
  ELSE <<Tags("dialog"), SessionTags("dialog", dialog)>>

ChangeAnswer(i) ==
  LET op == calls[i].op IN
  /\ Answered(i, CASE op.by = "panel"  -> AfterPanel(op)
                   [] op.by = "header" -> AfterHeader(op, ok(i))
                   [] op.by = "dialog" -> IF dialog = None THEN <<>> ELSE AfterDialog(op, ok(i)))
  /\ expandedTags' = IF op.by = "panel" /\ op.kind = "delete" THEN expandedTags \ {op.tag}
                                                             ELSE expandedTags
  /\ busyId' = IF op.by = "dialog" THEN None ELSE busyId
  /\ missed' = (missed \/ op.by = "dialog" \/ (op.by = "header" /\ ~ok(i)))
  /\ UNCHANGED <<tags, tagSessions, filterTag, sessionTags, dialog, dialogTags, dialogSessionTags>>

DialogAnswer(i) ==
  /\ IF ~ok(i) \/ dialog = None THEN UNCHANGED <<dialogTags, dialogSessionTags>>
     ELSE IF calls[i].op.kind = "tags"
     THEN dialogTags' = Named(calls[i].answer) /\ UNCHANGED dialogSessionTags
     ELSE dialogSessionTags' = Named(calls[i].answer) /\ UNCHANGED dialogTags
  /\ Answered(i, <<>>)
  /\ UNCHANGED <<missed, panel, sessionTags, dialog, busyId>>

TagAnswer ==
  \E i \in ToAnswer :
    LET op == calls[i].op IN
    /\ CASE op.kind = "tags" /\ op.by # "dialog"        -> TagsAnswer(i)
         [] op.kind = "sessionTags" /\ op.by # "dialog" -> SessionTagsAnswer(i)
         [] op.kind = "tagSessions"                     -> TagSessionsAnswer(i)
         [] op.kind \in {"tags", "sessionTags"} /\ op.by = "dialog" -> DialogAnswer(i)
         [] OTHER                                       -> ChangeAnswer(i)
    /\ UNCHANGED <<faults, acts, server>>

-----------------------------------------------------------------------------
(* The user.                                                                *)

Fresh == {t \in TagIds : srvNames[t] = None /\ \A i \in DOMAIN calls : calls[i].op.tag # t}

CreateTag(by, s) == \E t \in Fresh, n \in Names : Send([TagOp("create", by, t, s) EXCEPT !.name = n])
RenameTag == \E t \in Named(tags), n \in Names : Send([TagOp("rename", "panel", t, None) EXCEPT !.name = n])
DeleteTag == \E t \in Named(tags) : Send(TagOp("delete", "panel", t, None))
AssignToTag == \E t \in Named(tags), s \in Sessions : Send(TagOp("assign", "panel", t, s))

\* An expanded tag lists its sessions, each with a button that takes it off.
UnassignFromTag ==
  \E t \in Named(tags) \cap expandedTags :
    tagSessions[t] # None /\ \E s \in tagSessions[t] : Send(TagOp("unassign", "panel", t, s))

PanelAct ==
  /\ Act
  /\ CreateTag("panel", None) \/ RenameTag \/ DeleteTag \/ AssignToTag \/ UnassignFromTag
  /\ UNCHANGED <<faults, missed, tagVars>>

\* toggleExpand loads the sessions whichever way it goes; expandAll all of them.
Expand ==
  /\ Act
  /\ \/ \E t \in Named(tags) :
          /\ expandedTags' = IF t \in expandedTags THEN expandedTags \ {t} ELSE expandedTags \cup {t}
          /\ Send(TagSessions(t))
     \/ /\ ~(Named(tags) \subseteq expandedTags) /\ expandedTags' = Named(tags)
        /\ calls' = calls \o Sent(SetToSeq({TagSessions(t) : t \in Named(tags)}))
     \/ /\ tags # NoTags /\ Named(tags) \subseteq expandedTags /\ expandedTags' = {}
        /\ UNCHANGED calls
  /\ UNCHANGED <<faults, missed, server, tags, tagSessions, filterTag, sessionTags, dialogVars>>

\* openTag from the header filters the panel by the tag's name; or the filter is
\* cleared.
Filter ==
  /\ Act
  /\ \/ \E t \in Named(sessionTags) : filterTag' = sessionTags[t] /\ filterTag' # filterTag
     \/ filterTag # None /\ filterTag' = None
  /\ LET matched == {t \in Named(tags) : tags[t] = filterTag'} IN
     /\ expandedTags' = expandedTags \cup matched
     /\ calls' = calls \o Sent(SetToSeq({TagSessions(t) : t \in matched}))
  /\ UNCHANGED <<faults, missed, server, tags, tagSessions, sessionTags, dialogVars>>

toggleTag ==
  \E t \in TagIds :
    /\ Exists(t) /\ UNCHANGED sessionTags
    /\ Send(TagOp(IF t \in Named(sessionTags) THEN "unassign" ELSE "assign", "header", t, Open))

\* The chip goes at once.
removeTag ==
  \E t \in Named(sessionTags) :
    /\ sessionTags' = [sessionTags EXCEPT ![t] = None]
    /\ Send([TagOp("unassign", "header", t, Open) EXCEPT !.name = "remove"])

HeaderAct ==
  /\ Act
  /\ toggleTag \/ removeTag \/ (CreateTag("header", Open) /\ UNCHANGED sessionTags)
  /\ UNCHANGED <<faults, missed, server, panel, dialogVars>>

OpenDialog ==
  /\ Act /\ dialog = None
  /\ \E s \in Sessions : dialog' = s /\ calls' = calls \o Sent(<<Tags("dialog"), SessionTags("dialog", s)>>)
  /\ dialogTags' = {} /\ dialogSessionTags' = {} /\ busyId' = None
  /\ UNCHANGED <<faults, missed, server, panel, sessionTags>>

DialogAct ==
  /\ Act /\ dialog # None
  /\ \/ \E t \in dialogTags \ {busyId} :
          /\ busyId' = t
          /\ Send(TagOp(IF t \in dialogSessionTags THEN "unassign" ELSE "assign", "dialog", t, dialog))
     \/ CreateTag("dialog", dialog) /\ UNCHANGED busyId
  /\ UNCHANGED <<faults, missed, server, panel, sessionTags, dialog, dialogTags, dialogSessionTags>>

CloseDialog ==
  /\ dialog # None /\ dialog' = None /\ busyId' = None
  /\ dialogTags' = {} /\ dialogSessionTags' = {}
  /\ UNCHANGED <<requestVars, server, panel, sessionTags>>

TagNext ==
  \/ ServeTag \/ TagAnswer
  \/ LoseRequest /\ UNCHANGED <<acts, missed, tagVars>>
  \/ PanelAct \/ Expand \/ Filter \/ HeaderAct \/ OpenDialog \/ DialogAct \/ CloseDialog
=============================================================================
