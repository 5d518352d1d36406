------------------------------- MODULE HealthSnapshots -------------------------------
(* The hourly half of the health monitor. On the hour every process tries to     *)
(* take a lock in Redis that expires by itself and is never given back; the one  *)
(* that gets it stores the shared result of the last evaluation, if it has not   *)
(* expired. At night old snapshots are purged.                                  *)
(*                                                                              *)
(* Time is in steps of the hour that are shorter than the lock's half minute.    *)
(* Nothing but the clocks keeps two snapshots of an hour apart once the lock has *)
(* expired: MaxSkew is an assumption about the installation.                     *)
EXTENDS Naturals, FiniteSets

CONSTANTS
  Servers,
  Hour,         \* steps in an hour
  LockTtl,
  MaxSkew,      \* how late a process may begin the hour's job
  KeepHours,    \* the ninety days, in hours
  MaxHours      \* BOUND: hours of a behaviour

ASSUME SnapshotAssumption ==
  /\ {Hour, LockTtl, MaxSkew, KeepHours, MaxHours} \subseteq Nat
  /\ MaxSkew < LockTtl /\ LockTtl < Hour

VARIABLES
  hour, step,   \* the clock
  lockLeft,     \* how long system:health:snapshot:lock is still there
  hourly,       \* process -> the hour whose job it began last, and where it is in it
  snapshots     \* SystemHealthSnapshot: who stored it, of which hour

hsClock == <<hour, step>>
hsVars == <<hsClock, lockLeft, hourly, snapshots>>

HsInit ==
  /\ hour = 0 /\ step = 1 /\ lockLeft = 0 /\ snapshots = {}
  /\ hourly = [s \in Servers |-> [hour |-> 0, at |-> "rest"]]

Early == step <= MaxSkew
HourlyAt(s, at) == hourly' = [hourly EXCEPT ![s].at = at]

(* The cron job; a process that is down at the hour leaves it out.              *)
BeginHour(s) ==
  /\ hourly[s].hour < hour /\ Early
  /\ hourly[s].at = "rest"
  /\ hourly' = [hourly EXCEPT ![s] = [hour |-> hour, at |-> "lock"]]
  /\ UNCHANGED <<hsClock, lockLeft, snapshots>>

(* MUTANT of Acquired: without NX.                                              *)
AcquiredAlways == TRUE

Acquired == lockLeft = 0

TakeSnapshotLock(s) ==
  /\ hourly[s].at = "lock"
  /\ IF Acquired THEN lockLeft' = LockTtl /\ HourlyAt(s, "read")
     ELSE UNCHANGED lockLeft /\ HourlyAt(s, "rest")
  /\ UNCHANGED <<hsClock, snapshots>>

(* getCachedHealth finds the last result, or nothing.                           *)
ReadCached(s) ==
  /\ hourly[s].at = "read"
  /\ HourlyAt(s, "store") \/ HourlyAt(s, "rest")
  /\ UNCHANGED <<hsClock, lockLeft, snapshots>>

StoreSnapshot(s) ==
  /\ hourly[s].at = "store" /\ HourlyAt(s, "rest")
  /\ snapshots' = snapshots \cup {[server |-> s, hour |-> hourly[s].hour]}
  /\ UNCHANGED <<hsClock, lockLeft>>

(* Redis or the database does not answer, or a crash.                           *)
AbandonHour(s) ==
  /\ hourly[s].at # "rest" /\ HourlyAt(s, "rest")
  /\ UNCHANGED <<hsClock, lockLeft, snapshots>>

PurgeSnapshots ==
  /\ \E x \in snapshots : x.hour + KeepHours < hour
  /\ snapshots' = {x \in snapshots : x.hour + KeepHours >= hour}
  /\ UNCHANGED <<hsClock, lockLeft, hourly>>

(* A process asks Redis for the lock while it is still early in the hour.       *)
HourPasses ==
  /\ \A s \in Servers : hourly[s].at = "lock" => step < MaxSkew
  /\ \/ step < Hour - 1 /\ step' = step + 1 /\ UNCHANGED hour
     \/ step = Hour - 1 /\ step' = 0 /\ hour < MaxHours /\ hour' = hour + 1
  /\ lockLeft' = IF lockLeft = 0 THEN 0 ELSE lockLeft - 1
  /\ UNCHANGED <<hourly, snapshots>>

HsNext ==
  \/ PurgeSnapshots \/ HourPasses
  \/ \E s \in Servers :
       BeginHour(s) \/ TakeSnapshotLock(s) \/ ReadCached(s) \/ StoreSnapshot(s) \/ AbandonHour(s)

HsSpec == HsInit /\ [][HsNext]_hsVars

-----------------------------------------------------------------------------------
(* TYPE. What the variables range over.                                         *)
HsTypeOK ==
  /\ hour \in 0 .. MaxHours /\ step \in 0 .. Hour - 1 /\ lockLeft \in 0 .. LockTtl
  /\ \A s \in Servers : hourly[s].hour \in 0 .. hour
  /\ \A x \in snapshots : x.server \in Servers /\ x.hour \in 1 .. hour

(* SAFETY. An hour has at most one snapshot: a process that stores late does not *)
(* meet one that took the lock after it expired.                                *)
OneSnapshotPerHour ==
  \A x, y \in snapshots : x.hour = y.hour => x = y
====================================================================================
