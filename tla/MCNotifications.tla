---------------------------- MODULE MCNotifications ----------------------------
(***************************************************************************)
(* TLC's instance of Notifications, and of the settings behind its Wants.  *)
(***************************************************************************)
EXTENDS Notifications, QuietHours, TLC

\* Midnight, both ends of the default quiet hours, and their neighbours.
Times == {0, 1, 419, 420, 421, 720, 1319, 1320, 1321, 1439}

ASSUME QuietHoursAgree ==
    \A start, end, now \in Times : AroundTheClock(start, end, now)
=============================================================================
