------------------------------ MODULE FeedTime ------------------------------
(***************************************************************************)
(* The date of a post and the test that hides old posts.  Times are local  *)
(* wall-clock times, in seconds; the fraction of a second is cut off by    *)
(* the format.                                                             *)
(***************************************************************************)
EXTENDS Integers

Hour(t) == (t % 86400) \div 3600

\* DateFormat('yyyy-MM-dd kk:mm:ss'): kk counts the hours of a day from 1 to
\* 24, so the hour after midnight is written 24 under the same date.
Format(t) == [day |-> t \div 86400,
              kk  |-> IF Hour(t) = 0 THEN 24 ELSE Hour(t),
              mm  |-> (t % 3600) \div 60,
              ss  |-> t % 60]

\* DateTime.parse: the string has no zone, so it is the reader's local time; an
\* hour 24 rolls over to the next day.
Parse(date) == 86400 * date.day + 3600 * date.kk + 60 * date.mm + date.ss

\* Duration.inMinutes().abs(): whole minutes, cut towards zero.
Minutes(d) == IF d >= 0 THEN d \div 60 ELSE (-d) \div 60

\* Mutant: whole hours are compared, with <=.
VisibleByHour(date, t) == Minutes(Parse(date) - t) \div 60 <= 24

\* Is a post of that date shown on a clock that shows t?
Visible(date, t) == Minutes(Parse(date) - t) < 60 * 24
=============================================================================
