------------------------------ MODULE Channel ------------------------------
(***************************************************************************)
(* What a pipe promises its users, with no ring, no wrap-around and no     *)
(* nested calls: a byte stream of bounded capacity.  Bytes are numbered in *)
(* the order of the write calls.  PipeStream shows that kernel/fs/pipe.c   *)
(* with the pipe branches of read and write implements it.                 *)
(***************************************************************************)
EXTENDS Naturals, Sequences

CONSTANTS
  CAP,          \* bytes that are taken from a writer before they are read
  Sizes         \* what one read or write may ask for

VARIABLES
  open,         \* the pipe exists
  queue,        \* bytes of finished and of pending writes, not yet read
  sent,         \* bytes of all write calls so far
  want,         \* what the waiting reader asked for, 0 if none waits
  blocked       \* a writer waits for its last bytes to be taken

chan == <<open, queue, sent, want, blocked>>

Numbered(a, n) == [i \in 1 .. n |-> a + i]
Rest(s, k) == [i \in 1 .. (Len(s) - k) |-> s[i + k]]

Nothing ==
  /\ ~open
  /\ queue = << >>
  /\ sent = 0
  /\ want = 0
  /\ ~blocked

Open == ~open /\ open' /\ UNCHANGED <<queue, sent, want, blocked>>

Shut == open /\ Nothing'

(* A read gets the first bytes, at least one and no more than it asked     *)
(* for, and a writer goes on as soon as the rest of its bytes fits.        *)
Read(n) ==
  /\ open /\ want = 0
  /\ \E k \in 1 .. n : k <= Len(queue) /\ queue' = Rest(queue, k)
  /\ blocked' = (Len(queue') > CAP)
  /\ UNCHANGED <<open, sent, want>>

(* A read waits only if there is nothing to read.                          *)
Wait(n) ==
  /\ open /\ want = 0
  /\ queue = << >>
  /\ want' = n
  /\ UNCHANGED <<open, queue, sent, blocked>>

(* A write appends all its bytes.  A waiting reader gets the first of them *)
(* at once.  The writer waits exactly if the rest exceeds the capacity.    *)
Write(n) ==
  /\ open /\ ~blocked
  /\ LET q == queue \o Numbered(sent, n)
     IN  \/ want = 0 /\ queue' = q
         \/ want > 0 /\ \E k \in 1 .. n : k <= want /\ queue' = Rest(q, k)
  /\ sent' = sent + n
  /\ want' = 0
  /\ blocked' = (Len(queue') > CAP)
  /\ UNCHANGED open

Next ==
  \/ Open
  \/ Shut
  \/ \E n \in Sizes : Read(n) \/ Wait(n) \/ Write(n)

Spec == Nothing /\ [][Next]_chan
=============================================================================
