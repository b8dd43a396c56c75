------------------------------- MODULE MCPipe -------------------------------
(***************************************************************************)
(* Pipe, seen as a byte stream, with a history variable that tells careful *)
(* programs from the others.  Careful: nobody has used a descriptor after  *)
(* closing it, nobody has forked or ended after closing one, nobody has    *)
(* closed a descriptor fd while 2 * fd was in use (see SysClose), nobody   *)
(* has asked for a pipe without two free descriptors, and no write has     *)
(* asked for more bytes than fit into the ring at once.                    *)
(***************************************************************************)
EXTENDS PipeStream

CONSTANT WildSlots      \* bound: slots used by programs that are not careful

VARIABLE careful

mcvars == <<state, fdesc, pipes, corrupt, careful>>

Bounded == careful' \/ \A p \in Procs : p >= WildSlots => state'[p] = "CLOSE"

Uses(A, p, fd) == A /\ careful' = (careful /\ fdesc[p][fd].open) /\ Bounded

SparesOthers(p, fd) == 2 * fd \in Fds => ~fdesc[p][2 * fd].inuse

HandsOn(A, p) ==
  /\ A
  /\ careful' = (careful /\ \A fd \in Fds : fdesc[p][fd].inuse => fdesc[p][fd].open)
  /\ Bounded

MCInit == Init /\ careful = TRUE

MCNext ==
  \E p \in Procs :
    \/ SysPipe(p) /\ UNCHANGED careful
    \/ SysPipeOverruns(p) /\ careful' = FALSE /\ Bounded
    \/ HandsOn(Fork(p), p)
    \/ HandsOn(Exit(p), p)
    \/ HandsOn(ExitZombie(p), p)
    \/ Reap(p) /\ UNCHANGED careful
    \/ \E fd \in Fds :
         \/ Uses(SysUsesDead(p, fd), p, fd)
         \/ /\ SysClose(p, fd)
            /\ careful' = (careful /\ fdesc[p][fd].open /\ SparesOthers(p, fd))
            /\ Bounded
         \/ \E n \in Sizes :
              \/ Uses(SysRead(p, fd, n), p, fd)
              \/ /\ SysWrite(p, fd, n)
                 /\ careful' = (careful /\ fdesc[p][fd].open /\ n < BUFLEN)
                 /\ Bounded

MCSpec == MCInit /\ [][MCNext]_mcvars

(***************************************************************************)
(* Careful programs see an end of file that is final: see EofIsFinal       *)
(* (sys_read, clear_proc, sys_close).                                      *)
(***************************************************************************)
CarefulEof == careful => EofIsFinal

(***************************************************************************)
(* With careful programs the counts of ends are exact and no freed page is *)
(* used: see RefsExact (sys_pipe, sys_fork, sys_close, clear_proc).        *)
(***************************************************************************)
CarefulRefs == careful => RefsExact

(***************************************************************************)
(* With careful programs no wakeup is lost: see SleeperIsRegistered        *)
(* (sys_write against the pipe_read and pipe_write it calls).              *)
(***************************************************************************)
CarefulSleep == careful => SleeperIsRegistered
=============================================================================
