--------------------------------- MODULE Preferences ---------------------------------
(* What one server process knows of a user's notification preferences: it keeps  *)
(* the row for CacheTtl after reading it, and reads, updates and decisions of    *)
(* concurrent requests interleave. The row is also changed by other processes.   *)
EXTENDS Integers, Sequences

CONSTANTS
  Options,       \* the preferences a user may choose, see Preference
  DayLength,     \* minutes in a day
  CacheTtl,
  MaxQuery,      \* BOUND: minutes a query of the database takes
  MaxMinutes,    \* BOUND: minutes of a behaviour
  MaxRows,       \* BOUND: changes of the row
  Readers        \* BOUND: requests at a time

VARIABLES
  minute,     \* the clock
  row,        \* the row as it was after each change, and until when
  memo,       \* the entry: which of them, and when it expires
  reading,    \* request -> the query it waits for
  verdict     \* the decision the last step took, if any

pfVars == <<minute, row, memo, reading, verdict>>

Channels == {"IN_APP", "EMAIL"}
Never == -1

Preference ==
  [enabled : SUBSET Channels, override : BOOLEAN, quiet : BOOLEAN,
   start : 0 .. DayLength - 1, end : 0 .. DayLength - 1]

ASSUME PreferenceAssumption ==
  /\ DayLength \in Nat \ {0} /\ CacheTtl \in Nat /\ MaxQuery \in Nat
  /\ Options \subseteq Preference

-----------------------------------------------------------------------------------
(* MUTANT of IsQuietHours: an end before the start is the same day.             *)
IsQuietSameDay(pref, now) == pref.quiet /\ now >= pref.start /\ now <= pref.end

IsQuietHours(pref, now) ==
  /\ pref.quiet
  /\ IF pref.start <= pref.end THEN now >= pref.start /\ now <= pref.end
     ELSE now >= pref.start \/ now <= pref.end

(* At first there is no row.                                                    *)
Missing == 1

ShouldSend(version, channel, urgent, now) ==
  IF version = Missing THEN channel # "EMAIL"
  ELSE LET pref == row[version].pref IN
    \/ urgent /\ pref.override
    \/ channel \in pref.enabled /\ ~IsQuietHours(pref, now)

-----------------------------------------------------------------------------------
Defaults ==
  [enabled |-> {"IN_APP"}, override |-> FALSE, quiet |-> FALSE, start |-> 0, end |-> 0]

NoEntry == [version |-> 0, expires |-> Never]
NoQuery == [kind |-> "none", since |-> Never, version |-> Never]
NoVerdict == [at |-> Never, channel |-> "none", urgent |-> FALSE, send |-> FALSE]

PfInit ==
  /\ minute = 0 /\ row = <<[pref |-> Defaults, until |-> Never]>> /\ memo = NoEntry
  /\ reading = [r \in Readers |-> NoQuery] /\ verdict = NoVerdict

DecideSend(version) ==
  \E channel \in Channels, urgent \in BOOLEAN :
    verdict' = [at |-> minute, channel |-> channel, urgent |-> urgent,
                send |-> ShouldSend(version, channel, urgent, minute % DayLength)]

Silent == verdict' = NoVerdict

StartQuery(r, kind) ==
  reading' = [reading EXCEPT ![r] = [kind |-> kind, since |-> minute, version |-> Never]]

(* MUTANT of StillFresh: what was read is kept.                                 *)
Kept == memo # NoEntry

StillFresh == memo # NoEntry /\ memo.expires > minute

(* getManyPreferences for a dispatch, and getPreferences.                       *)
Look(r, kind) ==
  /\ reading[r] = NoQuery
  /\ \/ StillFresh /\ DecideSend(memo.version) /\ UNCHANGED reading
     \/ ~StillFresh /\ StartQuery(r, kind) /\ Silent
  /\ UNCHANGED <<minute, row, memo>>

GetManyPreferences(r) == Look(r, "many")
GetPreferences(r) == Look(r, "one")

UpdatePreferences(r) ==
  /\ reading[r] = NoQuery /\ StartQuery(r, "update")
  /\ Silent /\ UNCHANGED <<minute, row, memo>>

(* The upsert, here or in another process.                                      *)
ChangeRow(pref) ==
  /\ Len(row) < MaxRows
  /\ row' = Append([i \in DOMAIN row |-> IF row[i].until = Never
                                         THEN [row[i] EXCEPT !.until = minute] ELSE row[i]],
                   [pref |-> pref, until |-> Never])

ChangeElsewhere(pref) ==
  /\ ChangeRow(pref) /\ Silent /\ UNCHANGED <<minute, memo, reading>>

Query(r) ==
  /\ reading[r].kind # "none" /\ reading[r].version = Never
  /\ IF reading[r].kind = "update" THEN \E pref \in Options : ChangeRow(pref) ELSE UNCHANGED row
  /\ reading' = [reading EXCEPT ![r].version = Len(row')]
  /\ Silent /\ UNCHANGED <<minute, memo>>

(* The entry expires CacheTtl after the look in the cache for a dispatch, and   *)
(* after the answer otherwise.                                                  *)
Expiry(r) == CacheTtl + IF reading[r].kind = "many" THEN reading[r].since ELSE minute

AnswerArrives(r) ==
  /\ reading[r].version # Never
  /\ memo' = IF reading[r].version = Missing THEN memo
              ELSE [version |-> reading[r].version, expires |-> Expiry(r)]
  /\ IF reading[r].kind = "update" THEN Silent ELSE DecideSend(reading[r].version)
  /\ reading' = [reading EXCEPT ![r] = NoQuery]
  /\ UNCHANGED <<minute, row>>

PreferenceQueryFails(r) ==
  /\ reading[r] # NoQuery /\ reading' = [reading EXCEPT ![r] = NoQuery]
  /\ Silent /\ UNCHANGED <<minute, row, memo>>

(* invalidateCache, or a restart.                                               *)
InvalidateCache ==
  /\ memo # NoEntry /\ memo' = NoEntry
  /\ Silent /\ UNCHANGED <<minute, row, reading>>

MinutePasses ==
  /\ minute < MaxMinutes
  /\ \A r \in Readers : reading[r] # NoQuery => minute < reading[r].since + MaxQuery
  /\ minute' = minute + 1 /\ Silent /\ UNCHANGED <<row, memo, reading>>

PfNext ==
  \/ InvalidateCache \/ MinutePasses
  \/ \E pref \in Options : ChangeElsewhere(pref)
  \/ \E r \in Readers :
       \/ GetManyPreferences(r) \/ GetPreferences(r) \/ UpdatePreferences(r)
       \/ Query(r) \/ AnswerArrives(r) \/ PreferenceQueryFails(r)

PfSpec == PfInit /\ [][PfNext]_pfVars

-----------------------------------------------------------------------------------
(* TYPE. What the variables range over.                                         *)
PfTypeOK ==
  /\ minute \in Nat /\ memo.version \in 0 .. Len(row)
  /\ \A r \in Readers : reading[r].version \in Never .. Len(row)
  /\ \A i \in DOMAIN row : row[i].pref \in Preference /\ row[i].until \in Never .. minute

(* The minutes from start round the clock to end.                               *)
QuietMinutes(pref) ==
  IF ~pref.quiet THEN {}
  ELSE {(pref.start + i) % DayLength : i \in 0 .. (pref.end - pref.start) % DayLength}

Wanted(pref) ==
  \/ verdict.urgent /\ pref.override
  \/ verdict.channel \in pref.enabled /\ verdict.at % DayLength \notin QuietMinutes(pref)

(* The rows in force at some time in the span before the decision.              *)
InForce(span) ==
  {i \in DOMAIN row : row[i].until = Never \/ row[i].until >= verdict.at - span}

(* SAFETY. Whatever reads and updates of the row cross, a notification is sent  *)
(* or held back as preferences want it that were the user's at some time in the *)
(* last CacheTtl minutes, but for the time a query takes; quiet hours go round  *)
(* midnight and include both their ends.                                        *)
DecisionsAreRecent ==
  verdict.at # Never =>
    \E i \in InForce(CacheTtl + MaxQuery) : verdict.send = Wanted(row[i].pref)
=================================================================================
