-------------------------------- MODULE MCFeeds --------------------------------
(***************************************************************************)
(* Instances of Feeds for TLC: one session, two versions of the list, as      *)
(* many lost tries as there are retries; one notification.                    *)
(***************************************************************************)
EXTENDS Feeds

On == [enabled |-> TRUE, inAppToast |-> TRUE, browserNotify |-> TRUE, excludeActiveView |-> FALSE]
OnOrAway == {On, [On EXCEPT !.excludeActiveView = TRUE]}
KeptOn == {On}
=============================================================================
