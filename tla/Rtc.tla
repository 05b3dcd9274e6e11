-------------------------------- MODULE Rtc --------------------------------
(***************************************************************************)
(* read_rtc of kernel/src/rtc.c.  The clock of the CMOS chip goes on while *)
(* its registers are read one at a time: it raises the update-in-progress  *)
(* flag some time before it advances.  The registers are read twice and    *)
(* more often if they differ, then converted to what the kernel prints.    *)
(***************************************************************************)
EXTENDS Integers, Sequences

CONSTANTS
  Calendars,  \* runs of consecutive instants, each a record of the seven Fields
  Holds       \* how many register reads fit between the flag and the update

Instants == [second : 0 .. 59, minute : 0 .. 59, hour : 0 .. 23, day : 1 .. 31,
             month : 1 .. 12, year : 0 .. 99, century : 0 .. 99]

ASSUME HoldAssumption == Holds \subseteq Nat
ASSUME CalendarsAssumption == \A c \in Calendars : c \in Seq(Instants) /\ c # <<>>

Fields == <<"second", "minute", "hour", "day", "month", "year", "century">>

VARIABLES
  calendar,    \* the run of instants of this behaviour
  instant,     \* the one the clock shows
  uip,         \* the update-in-progress flag
  hold,        \* the register reads that fit before the update
  since,       \* register reads since it was raised, at most hold
  mode,        \* register B: binary or BCD numbers, 24 or 12 hours
  state,       \* the registers read last
  last_state,  \* those read before
  k,           \* the register that is read next
  pc,          \* the statement of read_rtc that is next
  pass,        \* history: the instant at the start of the last pass
  timestamp    \* the result

clock   == <<calendar, instant, uip, hold, since, mode>>
rtcVars == <<clock, state, last_state, k, pc, pass, timestamp>>

-----------------------------------------------------------------------------
(* The registers, and their conversion.                                    *)

BCD(v) == (v \div 10) * 16 + (v % 10)

\* Bit 7 of the hour register is set after noon when it counts to 12.
PM == 128

HourRegister(hour) ==
  LET twelve == IF hour % 12 = 0 THEN 12 ELSE hour % 12
      number(v) == IF mode.binary THEN v ELSE BCD(v)
  IN  IF mode.hours24 THEN number(hour)
      ELSE number(twelve) + (IF hour >= 12 THEN PM ELSE 0)

Register(f) ==
  LET v == calendar[instant][f]
  IN  IF f = "hour" THEN HourRegister(v)
      ELSE IF mode.binary THEN v ELSE BCD(v)

\* Mutant: the tens are counted as sixteens.
FromBCD_sixteens(r) == (r % 16) + (r \div 16) * 16

FromBCD(r) == (r % 16) + (r \div 16) * 10

HourFromBCD(r) == (r % 16) + ((r % PM) \div 16) * 10 + (r \div PM) * PM

To24(r) == IF r >= PM THEN ((r % PM) + 12) % 24 ELSE r

Converted ==
  LET number(f) == IF mode.binary THEN state[f]
                   ELSE IF f = "hour" THEN HourFromBCD(state[f])
                   ELSE FromBCD(state[f])
  IN  [f \in {"second", "minute", "hour", "day", "month", "year"} |->
         CASE f = "hour" -> IF mode.hours24 THEN number("hour")
                            ELSE To24(number("hour"))
           [] f = "year" -> number("year") + number("century") * 100
           [] OTHER      -> number(f)]

-----------------------------------------------------------------------------
Blank == [n \in {Fields[m] : m \in DOMAIN Fields} |-> 0]

RtcInit ==
  /\ calendar \in Calendars /\ instant = 1
  /\ uip = FALSE /\ hold \in Holds /\ since = 0
  /\ mode \in [binary : BOOLEAN, hours24 : BOOLEAN]
  /\ state = Blank /\ last_state = Blank
  /\ k = 1 /\ pc = "first_wait" /\ pass = 1
  /\ timestamp = Blank

Aged == IF uip /\ since < hold THEN since + 1 ELSE since

NextRegister == IF k = Len(Fields) THEN 1 ELSE k + 1

\* Mutant: the flag is not waited for.
MayRead_always == TRUE

MayRead == ~uip

\* One reading of register A.
Wait ==
  /\ pc \in {"first_wait", "wait"}
  /\ IF MayRead
     THEN /\ pc' = IF pc = "wait" THEN "read" ELSE "first_read"
          /\ pass' = instant
     ELSE UNCHANGED <<pc, pass>>
  /\ since' = Aged
  /\ UNCHANGED <<calendar, instant, uip, hold, mode, state, last_state, k,
                 timestamp>>

ReadRegister ==
  /\ pc \in {"first_read", "read"}
  /\ state' = [state EXCEPT ![Fields[k]] = Register(Fields[k])]
  /\ k' = NextRegister
  /\ pc' = IF k < Len(Fields) THEN pc
           ELSE IF pc = "read" THEN "compare" ELSE "keep"
  /\ since' = Aged
  /\ UNCHANGED <<calendar, instant, uip, hold, mode, last_state, pass, timestamp>>

Keep ==
  /\ pc = "keep"
  /\ last_state' = state
  /\ pc' = "wait"
  /\ UNCHANGED <<clock, state, k, pass, timestamp>>

\* Mutant: the registers are read again when they are the same.
Again_same == \A m \in DOMAIN Fields : last_state[Fields[m]] = state[Fields[m]]

\* They are read again only when every one of them has changed.
Again == \A m \in DOMAIN Fields : last_state[Fields[m]] # state[Fields[m]]

Compare ==
  /\ pc = "compare"
  /\ pc' = IF Again THEN "keep" ELSE "convert"
  /\ UNCHANGED <<clock, state, last_state, k, pass, timestamp>>

Convert ==
  /\ pc = "convert"
  /\ timestamp' = Converted
  /\ pc' = "done"
  /\ UNCHANGED <<clock, state, last_state, k, pass>>

Reader == Wait \/ ReadRegister \/ Keep \/ Compare \/ Convert

-----------------------------------------------------------------------------
(* The clock.                                                              *)

RaiseFlag ==
  /\ ~uip /\ instant < Len(calendar)
  /\ uip' = TRUE /\ since' = 0
  /\ UNCHANGED <<calendar, instant, hold, mode, state, last_state, k, pc, pass,
                 timestamp>>

Update ==
  /\ uip /\ since = hold
  /\ instant' = instant + 1
  /\ uip' = FALSE /\ since' = 0
  /\ UNCHANGED <<calendar, hold, mode, state, last_state, k, pc, pass,
                 timestamp>>

RtcNext == Reader \/ RaiseFlag \/ Update

RtcSpec == RtcInit /\ [][RtcNext]_rtcVars

\* The processor goes on reading and the chip goes on counting.
RtcFairSpec == RtcSpec /\ WF_rtcVars(Reader) /\ WF_rtcVars(Update)

-----------------------------------------------------------------------------
(* Properties.                                                             *)

\* What is printed at an instant.  A clock that counts to 12 is read 12 hours
\* late from midnight to one and 12 hours early from noon to one: 12 AM is
\* taken for 12 hours and 12 PM for 24.
TimeShown(n) ==
  LET t == calendar[n]
  IN  [second |-> t.second, minute |-> t.minute, day |-> t.day,
       month |-> t.month, year |-> t.year + t.century * 100,
       hour |-> IF ~mode.hours24 /\ t.hour % 12 = 0 THEN (t.hour + 12) % 24
                ELSE t.hour]

\* The timestamp is one the clock had during the call, in every mode of the
\* chip, but for the hours from noon and midnight in 12-hour mode, which are 12
\* hours off, as TimeShown states: the fields belong together, although the clock may go on between two
\* reads of its registers.  That is so when the seven reads of a pass fit
\* between the flag and the update (read_rtc).
TimestampWasTime ==
  pc = "done" /\ hold >= Len(Fields) =>
    \E n \in 1 .. instant : timestamp = TimeShown(n)

\* However slow the reads are, the timestamp is a time of the clock if the
\* clock did not go on during the last pass, and only that pass counts.
TornOnlyByUpdate ==
  [][Convert =>
       \/ timestamp' = TimeShown(pass)
       \/ pass < instant]_rtcVars

\* The call returns: the registers do not change so fast that they are read
\* again and again.
ReadReturns == <>(pc = "done")
=============================================================================
