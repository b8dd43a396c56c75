------------------------------ MODULE Keyboard ------------------------------
(***************************************************************************)
(* The keyboard of ukern, from the key to the reading process:             *)
(* kbd_getch() (kernel/kbd.c), the keyboard branch of trap_handler()       *)
(* (kernel/intr.c), the FT_KBD branch of sys_read() (kernel/syscall.c) and *)
(* what exit does to a reader (clear_proc, kernel/proc.c).                 *)
(*                                                                         *)
(* Pressing or releasing a key puts one or two bytes on the wire; every    *)
(* byte is an interrupt of its own, and system calls of processes happen   *)
(* between the two bytes of an E0 key.  A handler runs with interrupts off *)
(* on one processor, so it is one action.                                  *)
(***************************************************************************)
EXTENDS Integers, Sequences, FiniteSets

CONSTANTS Procs,        \* processes that hold a descriptor of the keyboard
          NULL,
          BUFLEN,       \* size of kbd_buffer, 4096 in the code
          ReadSizes,    \* values of rbx in sys_read, all at least 1
          MaxWire,      \* bytes that may wait in the keyboard controller
          MaxKeys       \* bound: key events in one behaviour

ASSUME KbdAssumption == /\ NULL \notin Procs
                        /\ BUFLEN \in Nat \ {0}
                        /\ ReadSizes \subseteq Nat \ {0}

VARIABLES shift,         \* static u32 shift of kbd_getch(), a set of flags
          kbd_buffer, kbd_buf_beg, kbd_buf_siz,
          kbd_proc,      \* the process that waits for a character
          state,         \* "READY" (or running), "PENDING" or "CLOSE"
          want,          \* rbx of the read a sleeping process is in
          held, caps,    \* keys that are down, and the caps lock as the user sees it
          wire,          \* bytes the controller still has to deliver
          odd,           \* two keys with one flag were down together, or caps lock repeated
          accepted,      \* history: characters put into kbd_buffer
          meant,         \* history: what the user meant by each of them
          got,           \* history: characters handed to processes
          events

kbdVars == <<shift, kbd_buffer, kbd_buf_beg, kbd_buf_siz, kbd_proc>>
userVars == <<held, caps, odd, events>>
vars == <<kbdVars, state, want, userVars, wire, accepted, meant, got>>

-----------------------------------------------------------------------------
(* The decoder.  A table index is <<scan code, was there an E0>>; a byte   *)
(* of the wire is the E0 escape, or a scan code with its release bit.      *)

Flags == {"SHIFT", "CTL", "ALT", "CAPSLOCK", "E0ESC"}

Index == [lshift |-> <<"2A", FALSE>>, rshift |-> <<"36", FALSE>>,
          lctl   |-> <<"1D", FALSE>>, rctl   |-> <<"1D", TRUE>>,
          capslk |-> <<"3A", FALSE>>, a      |-> <<"1E", FALSE>>,
          pad8   |-> <<"48", FALSE>>, up     |-> <<"48", TRUE>>]
Keys == DOMAIN Index

shiftcode(d) ==
    CASE d[1] \in {"2A", "36"} /\ ~d[2] -> {"SHIFT"}
      [] d[1] = "1D" -> {"CTL"}
      [] OTHER -> {}

togglecode(d) == IF d = <<"3A", FALSE>> THEN {"CAPSLOCK"} ELSE {}

(* charcode[flags][d] followed by the caps lock swap; "NO" is 0.           *)
charcode(flags, d) ==
    CASE d = <<"48", TRUE>> -> "KEY_UP"
      [] d = <<"48", FALSE>> /\ "CTL" \notin flags -> "8"
      [] d = <<"1E", FALSE>> /\ "CTL" \in flags -> "^A"
      [] d = <<"1E", FALSE>> /\ "CTL" \notin flags ->
            IF ("SHIFT" \in flags) /= ("CAPSLOCK" \in flags) THEN "A" ELSE "a"
      [] OTHER -> "NO"

Chars == {"KEY_UP", "8", "^A", "A", "a"}

MutantToggle(S, T) == S \cup T     \* caps lock is never switched off

Toggle(S, T) == (S \ T) \cup (T \ S)

MutantKeepsEscape(flags, byte) ==   \* the escape survives the release of a key
    LET d == <<byte.code, "E0ESC" \in flags>>
        s == Toggle((flags \ {"E0ESC"}) \cup shiftcode(d), togglecode(d))
    IN  CASE byte.code = "E0" -> [shift |-> flags \cup {"E0ESC"}, c |-> "NO"]
          [] byte.code /= "E0" /\ byte.up -> [shift |-> flags \ shiftcode(d), c |-> "NO"]
          [] OTHER -> [shift |-> s, c |-> charcode(s, d)]

(* kbd_getch() with flags in its static variable shift: the new value of   *)
(* that variable and the character it returns.                             *)
kbd_getch(flags, byte) ==
    LET d == <<byte.code, "E0ESC" \in flags>>
        s == Toggle((flags \ {"E0ESC"}) \cup shiftcode(d), togglecode(d))
    IN  CASE byte.code = "E0" -> [shift |-> flags \cup {"E0ESC"}, c |-> "NO"]
          [] byte.code /= "E0" /\ byte.up ->
                [shift |-> flags \ (shiftcode(d) \cup {"E0ESC"}), c |-> "NO"]
          [] OTHER -> [shift |-> s, c |-> charcode(s, d)]

-----------------------------------------------------------------------------
(* The user and the keyboard controller (external).                        *)

Escape == [code |-> "E0", up |-> FALSE, mean |-> "NO"]

Bytes(k, up, mean) ==
    (IF Index[k][2] THEN <<Escape>> ELSE <<>>)
        \o <<[code |-> Index[k][1], up |-> up, mean |-> mean]>>

FlagsOf(down, on) == (UNION {shiftcode(Index[k]) : k \in down})
                         \cup (IF on THEN {"CAPSLOCK"} ELSE {})

Room(k) == /\ events < MaxKeys
           /\ Len(wire) + (IF Index[k][2] THEN 2 ELSE 1) <= MaxWire

Send(k, up, mean) == /\ wire' = wire \o Bytes(k, up, mean)
                     /\ events' = events + 1
                     /\ UNCHANGED <<kbdVars, state, want, accepted, meant, got>>

Press(k) ==
    /\ Room(k)
    /\ k \notin held
    /\ held' = held \cup {k}
    /\ caps' = (caps /= (k = "capslk"))
    /\ odd' = (odd \/ shiftcode(Index[k]) \cap FlagsOf(held, FALSE) /= {})
    /\ Send(k, FALSE, charcode(FlagsOf(held', caps'), Index[k]))

(* A key that stays down repeats its make code.                            *)
Repeat(k) ==
    /\ Room(k)
    /\ k \in held
    /\ odd' = (odd \/ k = "capslk")
    /\ Send(k, FALSE, charcode(FlagsOf(held, caps), Index[k]))
    /\ UNCHANGED <<held, caps>>

Release(k) ==
    /\ Room(k)
    /\ k \in held
    /\ held' = held \ {k}
    /\ Send(k, TRUE, "NO")
    /\ UNCHANGED <<caps, odd>>

-----------------------------------------------------------------------------
(* The ring and its readers.                                               *)

Min(a, b) == IF a < b THEN a ELSE b

(* The copy loop of both readers: n characters from kbd_buf_beg on.        *)
Taken(buffer, beg, n) == [i \in 1 .. n |-> buffer[(beg + i - 1) % BUFLEN]]

MutantAdvance(beg, n) == beg + n     \* no wrap at the end of the buffer

Advance(beg, n) == (beg + n) % BUFLEN

MutantHasRoom == kbd_buf_siz <= BUFLEN

HasRoom == kbd_buf_siz < BUFLEN

MutantArrive(c) ==            \* the reader is not told
    /\ kbd_buffer' = [kbd_buffer EXCEPT ![(kbd_buf_beg + kbd_buf_siz) % BUFLEN] = c]
    /\ kbd_buf_siz' = kbd_buf_siz + 1
    /\ UNCHANGED <<kbd_buf_beg, kbd_proc, state, want, got>>

(* A character arrives and there is room: it is stored, and a waiting      *)
(* process gets what the ring holds, at most rbx characters.               *)
Arrive(c) ==
    LET at == (kbd_buf_beg + kbd_buf_siz) % BUFLEN
        buffer == [kbd_buffer EXCEPT ![at] = c]
        r == Min(kbd_buf_siz + 1, want[kbd_proc])
    IN  /\ kbd_buffer' = buffer
        /\ IF kbd_proc = NULL
           THEN /\ kbd_buf_siz' = kbd_buf_siz + 1
                /\ UNCHANGED <<kbd_buf_beg, kbd_proc, state, want, got>>
           ELSE /\ kbd_buf_siz' = kbd_buf_siz + 1 - r
                /\ kbd_buf_beg' = Advance(kbd_buf_beg, r)
                /\ got' = got \o Taken(buffer, kbd_buf_beg, r)
                /\ state' = [state EXCEPT ![kbd_proc] = "READY"]
                /\ want' = [want EXCEPT ![kbd_proc] = 0]
                /\ kbd_proc' = NULL

(* case 36 of trap_handler().  A byte that is no character, or finds the   *)
(* ring full, has been read from the port and decoded all the same.        *)
Interrupt ==
    /\ wire /= <<>>
    /\ wire' = Tail(wire)
    /\ LET k == kbd_getch(shift, Head(wire)) IN
       /\ shift' = k.shift
       /\ IF k.c /= "NO" /\ HasRoom
          THEN /\ Arrive(k.c)
               /\ accepted' = Append(accepted, k.c)
               /\ meant' = Append(meant, Head(wire).mean)
          ELSE UNCHANGED <<kbd_buffer, kbd_buf_beg, kbd_buf_siz, kbd_proc, state,
                           want, accepted, meant, got>>
    /\ UNCHANGED userVars

(* The FT_KBD branch of sys_read(): take what there is, or sleep, or fail  *)
(* with -EBUSY when another process already sleeps for the keyboard.       *)
SysRead(p, n) ==
    /\ state[p] = "READY"
    /\ \/ /\ kbd_buf_siz > 0
          /\ LET r == Min(kbd_buf_siz, n) IN
             /\ got' = got \o Taken(kbd_buffer, kbd_buf_beg, r)
             /\ kbd_buf_beg' = Advance(kbd_buf_beg, r)
             /\ kbd_buf_siz' = kbd_buf_siz - r
          /\ UNCHANGED <<kbd_proc, state, want>>
       \/ /\ kbd_buf_siz = 0
          /\ kbd_proc = NULL
          /\ kbd_proc' = p
          /\ state' = [state EXCEPT ![p] = "PENDING"]
          /\ want' = [want EXCEPT ![p] = n]
          /\ UNCHANGED <<kbd_buf_beg, kbd_buf_siz, got>>
    /\ UNCHANGED <<shift, kbd_buffer, userVars, wire, accepted, meant>>

(* exit of a process, clear_proc() included.                               *)
Exit(p) ==
    /\ state[p] = "READY"
    /\ state' = [state EXCEPT ![p] = "CLOSE"]
    /\ kbd_proc' = IF kbd_proc = p THEN NULL ELSE kbd_proc
    /\ UNCHANGED <<shift, kbd_buffer, kbd_buf_beg, kbd_buf_siz, want, userVars, wire,
                   accepted, meant, got>>

(* fork: a slot is used again, with descriptor 0 on the keyboard.          *)
Start(p) ==
    /\ state[p] = "CLOSE"
    /\ \E q \in Procs : state[q] = "READY"
    /\ state' = [state EXCEPT ![p] = "READY"]
    /\ UNCHANGED <<kbdVars, want, userVars, wire, accepted, meant, got>>

Init ==
    /\ shift = {}
    /\ kbd_buffer = [i \in 0 .. BUFLEN - 1 |-> "NO"]
    /\ kbd_buf_beg = 0
    /\ kbd_buf_siz = 0
    /\ kbd_proc = NULL
    /\ state \in [Procs -> {"READY", "CLOSE"}]
    /\ want = [p \in Procs |-> 0]
    /\ held = {} /\ caps = FALSE /\ odd = FALSE /\ events = 0
    /\ wire = <<>> /\ accepted = <<>> /\ meant = <<>> /\ got = <<>>

Next ==
    \/ \E k \in Keys : Press(k)
    \/ \E k \in Keys : Repeat(k)
    \/ \E k \in Keys : Release(k)
    \/ Interrupt
    \/ \E p \in Procs, n \in ReadSizes : SysRead(p, n)
    \/ \E p \in Procs : Exit(p)
    \/ \E p \in Procs : Start(p)

Spec == Init /\ [][Next]_vars

-----------------------------------------------------------------------------
(* The variables keep their types: the ring's indices stay inside          *)
(* kbd_buffer (kbd_buf_beg == 4096 wraps, kbd_buf_siz < 4096 is tested)    *)
(* and the histories hold characters only, never the 0 of a release.       *)
TypeOK ==
    /\ shift \subseteq Flags
    /\ kbd_buffer \in [0 .. BUFLEN - 1 -> Chars \cup {"NO"}]
    /\ kbd_buf_beg \in 0 .. BUFLEN - 1
    /\ kbd_buf_siz \in 0 .. BUFLEN
    /\ kbd_proc \in Procs \cup {NULL}
    /\ state \in [Procs -> {"READY", "PENDING", "CLOSE"}]
    /\ want \in [Procs -> ReadSizes \cup {0}]
    /\ held \subseteq Keys /\ caps \in BOOLEAN /\ odd \in BOOLEAN
    /\ accepted \in Seq(Chars)
    /\ got \in Seq(Chars)

(* A process sleeps in sys_read() of the keyboard exactly as long as it is *)
(* kbd_proc, and then the ring is empty: no character lies in kbd_buffer   *)
(* while somebody sleeps for one, and no second sleeper is forgotten.      *)
NobodySleepsOnInput ==
    /\ \A p \in Procs : state[p] = "PENDING" <=> kbd_proc = p
    /\ kbd_proc /= NULL => kbd_buf_siz = 0

(* Every character that trap_handler() stores is handed out once and in    *)
(* order, whichever of the two copy loops and whichever process takes it;  *)
(* a full ring drops the new character and never an old one.               *)
KeysInOrder == accepted = got \o Taken(kbd_buffer, kbd_buf_beg, kbd_buf_siz)

(* When all bytes are delivered, kbd_getch() remembers no E0 and no shift  *)
(* or control flag whose keys are all up, however interrupts, full rings   *)
(* and system calls interleave: no modifier sticks.                        *)
NoStuckModifier ==
    wire = <<>> => shift \ {"CAPSLOCK"} \subseteq FlagsOf(held, FALSE)

(* The character kbd_getch() computes from its flags is the one the user   *)
(* meant by the keys that were down, as long as no two keys with the same  *)
(* flag were down together (releasing one of them clears the flag) and     *)
(* caps lock was not held until it repeated (every repetition toggles).    *)
MeaningKept == ~odd => accepted = meant

=============================================================================
