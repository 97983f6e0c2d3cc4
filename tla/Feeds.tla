--------------------------------- MODULE Feeds ---------------------------------
(***************************************************************************)
(* The two event streams of the page.  useSessions and useNotifications      *)
(* each open an EventSource of their own, with a queue and a pid of its own, *)
(* and share nothing but the reload of the page; a behaviour follows one.    *)
(***************************************************************************)
EXTENDS SessionFeed, NotificationFeed

VARIABLE hook        \* the hook whose stream is followed

allVars == <<hook, streamVars, feedVars, noteVars>>

PageInit == StreamInit /\ FeedInit /\ NoteInit /\ hook \in {"sessions", "notifications"}

PageNext ==
  \/ hook = "sessions" /\ FeedNext /\ UNCHANGED <<hook, noteVars>>
  \/ hook = "notifications" /\ NoteNext /\ UNCHANGED <<hook, feedVars>>

SessionStep(A) == hook = "sessions" /\ A /\ UNCHANGED <<hook, noteVars>>
NoteStep(A) == hook = "notifications" /\ A /\ UNCHANGED <<hook, feedVars>>

\* The browser reconnects, the loop takes events, timers fire, the server
\* answers, effects run.  Nothing is assumed of the user, of other tabs, of the
\* agents, or of losses.
PageFairness ==
  /\ WF_allVars(SessionStep(Connect /\ UNCHANGED feedVars)) /\ WF_allVars(SessionStep(HandleEvent))
  /\ WF_allVars(SessionStep(ServeLoad)) /\ WF_allVars(SessionStep(LoadAnswer))
  /\ WF_allVars(SessionStep(ServePoll)) /\ WF_allVars(SessionStep(PollAnswer))
  /\ WF_allVars(SessionStep(PollTick)) /\ WF_allVars(SessionStep(IndexingEnds))
  /\ WF_allVars(NoteStep(Connect /\ UNCHANGED noteVars)) /\ WF_allVars(NoteStep(HandleNotificationEvent))
  /\ WF_allVars(NoteStep(ServeReload)) /\ WF_allVars(NoteStep(ReloadAnswer))
  /\ WF_allVars(NoteStep(ScheduledReload)) /\ WF_allVars(NoteStep(MinuteReload))
  /\ WF_allVars(NoteStep(ServeWrite)) /\ WF_allVars(NoteStep(Toaster))

PageSpec == PageInit /\ [][PageNext]_allVars /\ PageFairness

-----------------------------------------------------------------------------
(* Properties                                                               *)

\* A page that has seen its server and hears of another process is loaded again
\* from that one: it never goes on with the code of a process that is gone.
StalePageIsReplaced ==
  (serverPid # None /\ serverPid # pid) ~> (pagePid = pid \/ serverPid = None)

\* A list that was announced reaches the page, even if tries are lost and the
\* stream blips, when answers do not overtake each other.
UpdateReachesTheList ==
  Ordered => \A v \in 1..MaxVersion : (heard = v) ~> (sessions >= v \/ heard = 0)

\* The loading placeholder goes: the page learns that the first indexing ended,
\* when answers do not overtake each other.
IndexingIsLeft == Ordered /\ hook = "sessions" => <>[](indexing = FALSE)

\* A notification is shown once on a page, whatever reloads fail, empty the
\* list and bring it back.
NeverShownTwice == \A n \in Notes : shown[n] <= 1

\* Once the users and the agents are done, the list is the server's, whatever
\* reads were lost or undone by an older reload (the reload of every minute).
NotificationsConverge ==
  (hook = "notifications") => <>[](notifications = View(srv))

\* A notification born while the page is to toast them is toasted, unless the
\* settings change or a user or another tab reads or clears.
OwedIsToasted ==
  \A n \in Notes : (n \in owed) ~> (shown[n] > 0 \/ acts > 0 \/ n \notin owed)

-----------------------------------------------------------------------------
(* What the repository says and the code does not do.                       *)

\* "Broadcast read-state sync so other tabs update without refetching"
\* (server.go:928): after the event of a read, no notification it is about is
\* unread in the list.
ReadStateIsSynced ==
  [][ (queue # <<>> /\ Head(queue).type = "notifications-read" /\ queue' = Tail(queue))
        => \A n \in Head(queue).arg.about : notifications'[n] # "unread" ]_allVars

===============================================================================
