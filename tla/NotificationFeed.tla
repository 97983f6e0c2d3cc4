---------------------------- MODULE NotificationFeed ----------------------------
(***************************************************************************)
(* useNotifications and the toaster: the notifications of the page, read     *)
(* and cleared optimistically, reloaded after events and every minute, and   *)
(* shown once as a toast or a browser notification.  Other tabs read and     *)
(* clear through the same server.                                            *)
(***************************************************************************)
EXTENDS EventStream, FiniteSets

CONSTANTS
  Notes,          \* notifications
  Offered,        \* the settings a user may save
  Stored,         \* the settings the server may start with
  MaxActs,        \* bound: acts of the user and of other tabs
  MaxReloads      \* bound: reloads under way

ASSUME NoteAssumption ==
  /\ Stored \subseteq Offered /\ Offered \subseteq [enabled: BOOLEAN, inAppToast: BOOLEAN, browserNotify: BOOLEAN,
                        excludeActiveView: BOOLEAN]
  /\ MaxActs \in Nat /\ MaxReloads \in Nat \ {0}

VARIABLES
  srv,            \* the server's table: "unborn", "unread", "read", "gone"
  srvSettings,    \* the server's settings
  notifications,  \* the list: "absent", "unread", "read"
  settings,       \* None until they are loaded
  reloads, reloadDue,        \* reloads under way; the 300 ms timer is set
  writes,                    \* markNotificationsRead and clearNotifications under way
  saves,                     \* setNotificationSettings under way
  settingsLoad,              \* fetchNotificationSettings under way, or None
  viewing,                   \* the session of the notifications is the active one
  seenIds, shown,            \* the toaster; how often it has shown each
  owed,                      \* history: born while the page was to toast them
  acts

noteVars == <<srv, srvSettings, notifications, settings, reloads, reloadDue, writes, saves,
              settingsLoad, viewing, seenIds, shown, owed, acts>>
pageVars == <<settings, saves, settingsLoad, viewing, seenIds, shown, owed>>

Zero == [n \in Notes |-> 0]
EmptyList == [n \in Notes |-> "absent"]
View(table) == [n \in Notes |-> IF table[n] \in {"unread", "read"} THEN table[n] ELSE "absent"]

NoteInit ==
  /\ srv = [n \in Notes |-> "unborn"] /\ srvSettings \in Stored
  /\ notifications = EmptyList /\ settings = None
  /\ reloads = <<Waiting>> /\ reloadDue = FALSE
  /\ writes = <<>> /\ saves = <<>> /\ settingsLoad = Waiting /\ viewing = FALSE
  /\ seenIds = {} /\ shown = Zero /\ owed = {}
  /\ acts = 0

FreshNotes ==
  /\ notifications' = EmptyList /\ settings' = None
  /\ reloads' = <<Waiting>> /\ reloadDue' = FALSE
  /\ writes' = <<>> /\ saves' = <<>> /\ settingsLoad' = Waiting
  /\ seenIds' = {} /\ shown' = Zero /\ owed' = {}
  /\ UNCHANGED <<srv, srvSettings, viewing, acts>>

Act == acts < MaxActs /\ acts' = acts + 1

-----------------------------------------------------------------------------
(* What is read.                                                            *)

markAs(list, ids, value) ==
  [n \in Notes |-> IF n \in ids /\ list[n] \notin {"absent", "unborn", "gone"} THEN value ELSE list[n]]

\* The event of a read: the ids it names, or all; and, for the reader of a
\* trace, the notifications it is about.  Reading all names none.
ReadEvent(op) ==
  SSEEvent("notifications-read",
        CASE op.kind = "read" -> [ids |-> {op.note}, all |-> FALSE, about |-> {op.note}]
          [] op.kind = "all"   -> [ids |-> {}, all |-> FALSE, about |-> Notes]
          [] OTHER             -> [ids |-> {}, all |-> TRUE, about |-> Notes])

Write(kind, n) == [kind |-> kind, note |-> n]
Writes == {Write("read", n) : n \in Notes} \cup {Write("all", None), Write("clear", None)}

Applied(table, op) ==
  CASE op.kind = "read" -> markAs(table, {op.note}, "read")
    [] op.kind = "all"   -> markAs(table, Notes, "read")
    [] OTHER             -> markAs(table, Notes, "gone")

-----------------------------------------------------------------------------
(* The server and the other tabs.                                           *)

ShouldToast(s) == s # None /\ s.enabled /\ s.inAppToast /\ ~s.excludeActiveView

Notify ==
  \E n \in Notes :
    /\ srv[n] = "unborn"
    /\ srv' = [srv EXCEPT ![n] = "unread"]
    /\ owed' = IF ShouldToast(settings) THEN owed \cup {n} ELSE owed
    /\ Send(<<SSEEvent("notification", n)>>)
    /\ UNCHANGED <<pid, up, serverPid, pagePid, trouble, srvSettings, notifications, settings,
                   reloads, reloadDue, writes, saves, settingsLoad, viewing, seenIds, shown,
                   acts>>

OtherTab ==
  /\ Act
  /\ \E op \in Writes : srv' = Applied(srv, op) /\ Send(<<ReadEvent(op)>>)
  /\ UNCHANGED <<pid, up, serverPid, pagePid, trouble, srvSettings, notifications, reloads,
                 reloadDue, writes, pageVars>>

ServeWrite ==
  \E i \in DOMAIN writes :
    /\ writes' = RemoveAt(writes, i)
    /\ \/ srv' = Applied(srv, writes[i]) /\ Send(<<ReadEvent(writes[i])>>) /\ UNCHANGED trouble
       \/ Trouble /\ UNCHANGED <<srv, queue>>
    /\ UNCHANGED <<pid, up, serverPid, pagePid, srvSettings, notifications, reloads,
                   reloadDue, pageVars, acts>>

-----------------------------------------------------------------------------
(* The list.                                                                *)

reload == Len(reloads) < MaxReloads /\ reloads' = Append(reloads, Waiting)

ServeReload ==
  \E i \in DOMAIN reloads :
    /\ reloads[i] = Waiting
    /\ \/ reloads' = [reloads EXCEPT ![i] = View(srv)] /\ UNCHANGED trouble
       \/ reloads' = [reloads EXCEPT ![i] = Failed] /\ Trouble
    /\ UNCHANGED <<exceptTrouble, srv, srvSettings, notifications, reloadDue, writes, pageVars, acts>>

\* In any order; a failed reload empties the list.
ReloadAnswer ==
  \E i \in DOMAIN reloads :
    /\ reloads[i] # Waiting
    /\ notifications' = IF reloads[i] = Failed THEN EmptyList ELSE reloads[i]
    /\ reloads' = RemoveAt(reloads, i)
    /\ UNCHANGED <<streamVars, srv, srvSettings, reloadDue, writes, pageVars, acts>>

ScheduledReload ==
  /\ reloadDue /\ reload /\ reloadDue' = FALSE
  /\ UNCHANGED <<streamVars, srv, srvSettings, notifications, writes, pageVars, acts>>

\* Mutant of MinuteReload: no interval.
MinuteReload_Never == FALSE /\ UNCHANGED <<streamVars, noteVars>>

\* Every 60 s; the bound on reloads lets it run when no other is due.
MinuteReload ==
  /\ reloads = <<>> /\ ~reloadDue /\ reload
  /\ UNCHANGED <<streamVars, srv, srvSettings, notifications, reloadDue, writes, pageVars, acts>>

\* markRead (for a notification that is listed), markAllRead and clearAll.
UserWrites ==
  \E op \in Writes :
    /\ Act
    /\ IF op.kind = "read" THEN notifications[op.note] # "absent"
       ELSE IF op.kind = "all" THEN \E n \in Notes : notifications[n] = "unread"
       ELSE notifications # EmptyList
    /\ notifications' = IF op.kind = "clear" THEN EmptyList ELSE Applied(notifications, op)
    /\ writes' = Append(writes, op)
    /\ UNCHANGED <<streamVars, srv, srvSettings, reloads, reloadDue, pageVars>>

HandleNotificationEvent ==
  LET e == Head(queue) IN
    /\ queue # <<>> /\ Take(e)
    /\ IF Reload(e) THEN FreshNotes
       ELSE /\ IF e.type = "notifications-read"
               THEN /\ notifications' =
                         markAs(notifications, IF e.arg.all THEN Notes ELSE e.arg.ids, "read")
                    /\ UNCHANGED reloadDue
               ELSE /\ reloadDue' = (reloadDue \/ e.type \in {"notification", "update", "started"})
                    /\ UNCHANGED notifications
            /\ UNCHANGED <<srv, srvSettings, reloads, writes, pageVars, acts>>

-----------------------------------------------------------------------------
(* The settings.                                                            *)

SettingsAnswer ==
  /\ settingsLoad # None
  /\ IF settingsLoad = Waiting
     THEN /\ \/ settingsLoad' = srvSettings /\ UNCHANGED trouble
             \/ settingsLoad' = Failed /\ Trouble
          /\ UNCHANGED <<settings, owed>>
     ELSE /\ settings' = IF settingsLoad = Failed THEN None ELSE settingsLoad
          /\ settingsLoad' = None
          /\ owed' = IF ShouldToast(settings') THEN owed ELSE {}
          /\ UNCHANGED trouble
  /\ UNCHANGED <<exceptTrouble, srv, srvSettings, notifications, reloads, reloadDue, writes, saves,
                 viewing, seenIds, shown, acts>>

\* A change in the settings tab is shown, then saved.
saveSettings(next) ==
  /\ Act
  /\ settings # None /\ next # settings
  /\ settings' = next
  /\ saves' = Append(saves, [next |-> next, served |-> FALSE])
  /\ owed' = IF ShouldToast(next) THEN owed ELSE {}
  /\ UNCHANGED <<streamVars, srv, srvSettings, notifications, reloads, reloadDue, writes,
                 settingsLoad, viewing, seenIds, shown>>

\* The answer repeats what was saved; a failure shows the unsaved value again.
SaveStep ==
  \E i \in DOMAIN saves :
    /\ IF saves[i].served
       THEN /\ settings' = saves[i].next /\ saves' = RemoveAt(saves, i)
            /\ owed' = IF ShouldToast(settings') THEN owed ELSE {}
            /\ UNCHANGED <<srvSettings, trouble>>
       ELSE /\ \/ /\ srvSettings' = saves[i].next /\ UNCHANGED trouble
                  /\ saves' = [saves EXCEPT ![i].served = TRUE]
                  /\ UNCHANGED <<settings, owed>>
               \/ /\ saves' = RemoveAt(saves, i) /\ Trouble /\ UNCHANGED srvSettings
                  /\ settings' = saves[i].next
                  /\ owed' = IF ShouldToast(settings') THEN owed ELSE {}
    /\ UNCHANGED <<exceptTrouble, srv, notifications, reloads, reloadDue, writes, settingsLoad,
                   viewing, seenIds, shown, acts>>

-----------------------------------------------------------------------------
(* The toaster.                                                             *)

resolveChannels(s, granted, hidden) ==
  IF s = None \/ ~s.enabled THEN {}
  ELSE (IF s.inAppToast THEN {"toast"} ELSE {})
       \cup (IF s.browserNotify /\ granted /\ hidden THEN {"browser"} ELSE {})

Excluded == settings # None /\ settings.excludeActiveView /\ viewing

\* Mutant of IsShown: read and unread swapped.
IsShown_Inverted(n) == notifications[n] = "read" /\ ~Excluded

\* The effect runs over the list: what it has not seen is seen from then on,
\* and shown if it is unread.
IsShown(n) == notifications[n] = "unread" /\ ~Excluded

\* Mutant of seenAfter: only what is not shown is remembered.
seenAfter_NotShown(fresh) == seenIds \cup {n \in fresh : ~IsShown(n)}

seenAfter(fresh) == seenIds \cup fresh

Toaster ==
  LET fresh == {n \in Notes : notifications[n] # "absent" /\ n \notin seenIds} IN
  /\ fresh # {}
  /\ seenIds' = seenAfter(fresh)
  /\ \E granted \in BOOLEAN, hidden \in BOOLEAN :
       shown' = [n \in Notes |-> IF n \in fresh /\ IsShown(n)
                                    /\ resolveChannels(settings, granted, hidden) # {}
                                 THEN shown[n] + 1 ELSE shown[n]]
  /\ UNCHANGED <<streamVars, srv, srvSettings, notifications, settings, reloads, reloadDue,
                 writes, saves, settingsLoad, viewing, owed, acts>>

SwitchView ==
  /\ Act
  /\ viewing' = ~viewing
  /\ UNCHANGED <<streamVars, srv, srvSettings, notifications, settings, reloads, reloadDue, writes,
                 saves, settingsLoad, seenIds, shown, owed>>

NoteStream == (Connect \/ ConnectionLost) /\ UNCHANGED noteVars

NoteNext ==
  \/ Notify \/ OtherTab \/ UserWrites \/ ServeWrite
  \/ ServeReload \/ ReloadAnswer \/ ScheduledReload \/ MinuteReload
  \/ HandleNotificationEvent
  \/ SettingsAnswer \/ SaveStep \/ \E c \in Offered : saveSettings(c)
  \/ Toaster \/ SwitchView
  \/ NoteStream
===============================================================================
