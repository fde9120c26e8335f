------------------------------- MODULE QuietHours -------------------------------
(***************************************************************************)
(* Whether a notification is delivered, as utils/notification.go decides   *)
(* it from the settings of a preference: the hours in which its owner      *)
(* wants to be left alone, and the switches of the types.                  *)
(*                                                                         *)
(* A time of day is kept and compared as a string, "15:04", byte by byte.  *)
(* A string is the sequence of its bytes.                                  *)
(***************************************************************************)
EXTENDS Naturals, Integers, Sequences

CONSTANT NotificationTypes   \* the types of model/notification.gen.go

DayLength == 1440
Minutes == 0 .. DayLength - 1

Digit(d) == 48 + d
Colon == 58

\* Time.Format(TimeFormatTimeOnly), of the minute m of the day.
TimeString(m) ==
    <<Digit((m \div 60) \div 10), Digit((m \div 60) % 10), Colon,
      Digit((m % 60) \div 10), Digit((m % 60) % 10)>>

\* s <= t, for strings of Go.
NotAfter(s, t) ==
    \/ Len(s) <= Len(t) /\ \A i \in 1 .. Len(s) : s[i] = t[i]
    \/ \E i \in 1 .. Len(s) :
          /\ i <= Len(t)
          /\ s[i] < t[i]
          /\ \A j \in 1 .. i - 1 : s[j] = t[j]

\* The settings; TypeOff and TypeOn are the types they name, switched off and
\* on, the exceptions those that may disturb.
QuietHoursSettings ==
    [enabled : BOOLEAN, start : Seq(Nat), end : Seq(Nat),
     exceptions : SUBSET NotificationTypes]

\* Both ends are quiet; hours that end before they start cross midnight.
IsWithinQuietHours(quiet, now) ==
    /\ quiet.enabled
    /\ IF NotAfter(quiet.start, quiet.end)
       THEN NotAfter(quiet.start, TimeString(now)) /\ NotAfter(TimeString(now), quiet.end)
       ELSE NotAfter(quiet.start, TimeString(now)) \/ NotAfter(TimeString(now), quiet.end)

Disturbs(quiet, type, now) ==
    IsWithinQuietHours(quiet, now) /\ type \notin quiet.exceptions

\* SendDIDNotification: a type the settings do not name is switched off.
WalletWants(p, type, now) ==
    /\ p.enabled
    /\ ~ Disturbs(p.quiet, type, now)
    /\ type \in DOMAIN p.types /\ p.types[type]

\* SendPersonaNotification: it is switched on.
PersonaWants(p, type, now) ==
    /\ p.enabled
    /\ ~ Disturbs(p.quiet, type, now)
    /\ type \in DOMAIN p.types => p.types[type]

-----------------------------------------------------------------------------
\* What the hours mean: from its start to its end, around the clock.
Elapsed(from, to) == (to - from) % DayLength

\* Hours given as times of day are quiet from the start to the end, both
\* included, whether or not they cross midnight; hours that start and end in the
\* same minute are quiet for that minute (utils/notification.go:34-49).
AroundTheClock(start, end, now) ==
    LET quiet == [enabled |-> TRUE, start |-> TimeString(start),
                  end |-> TimeString(end), exceptions |-> {}]
    IN  IsWithinQuietHours(quiet, now) <=> Elapsed(start, now) <= Elapsed(start, end)
=============================================================================
