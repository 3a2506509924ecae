------------------------------ MODULE ByteStream ------------------------------
(***************************************************************************)
(* What a `struct channel` promises its users, without laps, cursors or    *)
(* locks: one stream of bytes, numbered 1, 2, ... in the order they are    *)
(* committed, and any number of readers, each of which is handed the       *)
(* stream in order, one interval at a time, and holds the writer back by   *)
(* at most Capacity unread bytes.  channel.c implements it (Channel.tla).  *)
(***************************************************************************)
EXTENDS Integers

CONSTANTS
  Capacity,   \* bytes the channel can hold
  Readers,    \* every reader that may ever join
  MayDrop     \* whether a reader that was caught up may lose bytes

VARIABLES
  written,    \* number of bytes committed so far
  joined,     \* readers the writer waits for
  consumed,   \* consumed[r]: the last byte r has released
  held        \* held[r]: bytes handed to r and not yet released

vars == <<written, joined, consumed, held>>

Init ==
  /\ written = 0
  /\ joined = {}
  /\ consumed = [r \in Readers |-> 0]
  /\ held = [r \in Readers |-> 0]

\* n bytes become readable.  No joined reader is left more than Capacity behind.
Commit(n) ==
  /\ \A r \in joined : written + n - consumed[r] <= Capacity
  /\ written' = written + n
  /\ UNCHANGED <<joined, consumed, held>>

\* A reader asks for data.  A new one starts somewhere in the stream; an old
\* one where it left off.  It gets nothing only when nothing is unread.
Read(r) ==
  /\ held[r] = 0
  /\ joined' = joined \cup {r}
  /\ \E from \in (IF r \in joined THEN {consumed[r]} ELSE 0 .. written) :
       \E n \in 0 .. written - from :
         /\ n = 0 => from = written
         /\ consumed' = [consumed EXCEPT ![r] = from]
         /\ held' = [held EXCEPT ![r] = n]
  /\ UNCHANGED written

\* A reader gives back what it holds, having consumed the first n bytes of it.
Release(r, n) ==
  /\ held[r] > 0
  /\ n \in 0 .. held[r]
  /\ consumed' = [consumed EXCEPT ![r] = @ + n]
  /\ held' = [held EXCEPT ![r] = 0]
  /\ UNCHANGED <<written, joined>>

\* Bytes that are unread are skipped.  Only the weak promise allows it.
Drop(r) ==
  /\ MayDrop
  /\ r \in joined
  /\ held[r] = 0
  /\ consumed' = [consumed EXCEPT ![r] = written]
  /\ UNCHANGED <<written, joined, held>>

Next ==
  \/ \E n \in 1 .. Capacity : Commit(n)
  \/ \E r \in Readers : Read(r) \/ Drop(r)
  \/ \E r \in Readers : \E n \in 0 .. Capacity : Release(r, n)

Spec == Init /\ [][Next]_vars

===============================================================================
