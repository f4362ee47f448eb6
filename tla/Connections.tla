----------------------------- MODULE Connections -----------------------------
(***************************************************************************)
(* What the actors of the intake share: one SQLite database, whose write   *)
(* lock one connection holds at a time, and one clock.  A connection that  *)
(* waits for the lock longer than the driver's timeout raises.             *)
(***************************************************************************)
EXTENDS Integers, Sequences, FiniteSets

CONSTANTS
    None,
    MaxClock    \* bound on the clock

ASSUME ClockAssumption == MaxClock \in Nat /\ None \notin Nat

VARIABLES
    writer,   \* the actor whose open transaction holds the write lock, or None
    clock     \* the instant the clock shows

connectionVars == <<writer, clock>>

ConnectionInit == writer = None /\ clock = 0

LockIsFree == writer = None

LockedOut(actor) == writer \notin {None, actor}

\* Nothing of an actor's open transaction is left: ROLLBACK, or the connection closes.
Release(actor) == writer' = IF writer = actor THEN None ELSE writer

Tick == clock < MaxClock /\ clock' = clock + 1 /\ UNCHANGED writer
=============================================================================
