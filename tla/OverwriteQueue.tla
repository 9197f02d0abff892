--------------------------- MODULE OverwriteQueue ---------------------------
(***************************************************************************)
(* What a log ring promises its users: a first-in first-out queue of at    *)
(* most Capacity entries in which a new entry displaces the oldest one     *)
(* when the queue is full.  The queue may become sealed: from then on it   *)
(* accepts and delivers nothing until it is initialized again.             *)
(***************************************************************************)
EXTENDS Naturals, Sequences

CONSTANTS
  Entry,      \* the entries that may be queued
  Capacity,   \* the greatest number of entries kept
  NoEntry     \* the value of out before anything was delivered

VARIABLES
  queue,      \* the entries kept, oldest first
  sealed,     \* TRUE when the queue refuses every operation
  out         \* the entry delivered last

vars == <<queue, sealed, out>>

Init ==
  /\ queue = << >>
  /\ sealed \in BOOLEAN
  /\ out = NoEntry

Put(e) ==
  /\ ~sealed
  /\ queue' = Append(IF Len(queue) = Capacity THEN Tail(queue) ELSE queue, e)
  /\ sealed' \in BOOLEAN
  /\ UNCHANGED out

Get ==
  /\ ~sealed
  /\ queue # << >>
  /\ out' = Head(queue)
  /\ queue' = Tail(queue)
  /\ UNCHANGED sealed

Reset ==
  /\ queue' = << >>
  /\ sealed' \in BOOLEAN
  /\ UNCHANGED out

\* A put that finds the queue not yet in use resets it first.
ResetPut(e) ==
  /\ queue' = <<e>>
  /\ sealed' \in BOOLEAN
  /\ UNCHANGED out

Next ==
  \/ \E e \in Entry : Put(e) \/ ResetPut(e)
  \/ Get
  \/ Reset

Spec == Init /\ [][Next]_vars
=============================================================================
