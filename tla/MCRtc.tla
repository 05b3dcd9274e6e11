------------------------------- MODULE MCRtc -------------------------------
(* The clock at the moments where most of its registers change.            *)
EXTENDS Rtc

At(century, year, month, day, hour, minute, second) ==
  [century |-> century, year |-> year, month |-> month, day |-> day,
   hour |-> hour, minute |-> minute, second |-> second]

\* The turn of a century, where all seven registers change at once; noon,
\* where a clock of 12 hours changes the bit of the afternoon; and an hour.
MCCalendars ==
  {<<At(19, 99, 12, 31, 23, 59, 58), At(19, 99, 12, 31, 23, 59, 59),
     At(20, 0, 1, 1, 0, 0, 0), At(20, 0, 1, 1, 0, 0, 1)>>,
   <<At(20, 22, 10, 9, 11, 59, 59), At(20, 22, 10, 9, 12, 0, 0)>>,
   <<At(20, 22, 2, 28, 12, 59, 59), At(20, 22, 2, 28, 13, 0, 0)>>,
   <<At(20, 22, 2, 28, 19, 59, 59), At(20, 22, 2, 28, 20, 0, 0)>>}
=============================================================================
