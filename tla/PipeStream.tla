----------------------------- MODULE PipeStream -----------------------------
(***************************************************************************)
(* The refinement mapping from Pipe to the byte stream of Channel, for any *)
(* one pipe.                                                               *)
(***************************************************************************)
EXTENDS Pipe, Sequences

CONSTANT ThePipe        \* the pipe that is looked at

ASSUME ThePipeAssumption == ThePipe \in PIPES

(* The bytes in the ring from head on, then those of the registered writer *)
(* that are still in its own buffer.                                       *)
Contents(pp) ==
  [i \in 1 .. pp.len + (pp.wsiz - pp.wptr) |->
     IF i <= pp.len THEN pp.buf[(pp.head + i - 1) % BUFLEN]
     ELSE pp.nb - pp.wsiz + pp.wptr + (i - pp.len)]

Want(pp) == IF pp.reader = NULL THEN 0 ELSE pp.rsiz

Stream == INSTANCE Channel WITH
  CAP     <- BUFLEN - 1,
  open    <- pipes[ThePipe].live,
  queue   <- Contents(pipes[ThePipe]),
  sent    <- pipes[ThePipe].nb,
  want    <- Want(pipes[ThePipe]),
  blocked <- (pipes[ThePipe].writer # NULL)

(***************************************************************************)
(* A pipe implements the byte stream of Channel: whatever its ring does,   *)
(* wrap around, fill, take a write in several pieces, serve a waiting      *)
(* reader and a waiting writer from inside each other's call (pipe_read,   *)
(* pipe_write, sys_read, sys_write, and the counting of ends), its users   *)
(* see one queue of bytes.                                                 *)
(***************************************************************************)
PipeIsChannel == Stream!Spec
=============================================================================
