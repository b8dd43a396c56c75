------------------------------- MODULE MCCow --------------------------------
(***************************************************************************)
(* Cow for model checking.  No page differs from another: the free list    *)
(* has no order, so the pages may be exchanged.  A history variable says   *)
(* whether the kernel has stored into user memory through the program's    *)
(* own address, past the write flag (see DirectWrite).                     *)
(***************************************************************************)
EXTENDS Cow, TLC

CONSTANT DirectSlots    \* bound: slots in use once there was a direct store

VARIABLE direct

mcvars == <<curproc, state, pgtbl, p_pgtbl, end_umem, ref, free, data, tlb, view, halted, direct>>

Symmetry == Permutations(Pages)

MCInit == Init /\ direct = FALSE

Bounded == direct' => \A p \in Procs : p >= DirectSlots => state'[p] = "CLOSE"

MCNext ==
  \E p \in Procs :
    \/ Switch(p) /\ UNCHANGED direct
    \/ Fork(p) /\ UNCHANGED direct /\ Bounded
    \/ Exit(p) /\ UNCHANGED direct
    \/ ExitZombie(p) /\ UNCHANGED direct
    \/ Reap(p) /\ UNCHANGED direct
    \/ \E k \in 1 .. UMAX : (Sbrk(p, k) \/ SbrkHalts(p, k)) /\ UNCHANGED direct
    \/ \E x \in Vals : Exec(p, x) /\ UNCHANGED direct
    \/ \E v \in Addrs :
         \/ (TlbFill(p, v) \/ PageFault(p, v)) /\ UNCHANGED direct
         \/ \E x \in Vals :
              \/ (Store(p, v, x) \/ U2KWrite(p, v, x)) /\ UNCHANGED direct
              \/ DirectWrite(p, v, x) /\ direct' = TRUE /\ Bounded

MCSpec == MCInit /\ [][MCNext]_mcvars

(***************************************************************************)
(* As long as the kernel writes into user memory only through U2K, user    *)
(* processes are isolated: see Isolated (copy_pgtbl, page_fault_handler,   *)
(* U2K, sys_exec).                                                         *)
(***************************************************************************)
IsolatedByU2K == ~direct => Isolated
=============================================================================
