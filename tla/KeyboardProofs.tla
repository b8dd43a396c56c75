--------------------------- MODULE KeyboardProofs ---------------------------
(***************************************************************************)
(* Proofs, for every size of kbd_buffer, every set of processes and every  *)
(* read size, that the keyboard ring hands out characters in order and     *)
(* that nobody sleeps while it holds one (IInv); and, for wires of any     *)
(* length, that the decoder agrees with the keys that are down (WireInv).  *)
(***************************************************************************)
EXTENDS Keyboard, SequenceTheorems, TLAPS

(* Positions of the ring, without the modulus.                             *)
LEMMA Wrap ==
  ASSUME NEW x \in Nat, x < 2 * BUFLEN
  PROVE  x % BUFLEN = IF x < BUFLEN THEN x ELSE x - BUFLEN
<1> DEFINE q == x \div BUFLEN
           r == x % BUFLEN
<1>0. BUFLEN \in Nat /\ BUFLEN > 0
  BY KbdAssumption
<1>1. q \in Int /\ r \in Int /\ x = BUFLEN * q + r /\ 0 <= r /\ r < BUFLEN
  BY <1>0
<1> HIDE DEF q, r
<1>2. q >= 0 /\ q < 2
  BY <1>0, <1>1
<1>3. CASE q = 0
  BY <1>0, <1>1, <1>3 DEF r
<1>4. CASE q = 1
  BY <1>0, <1>1, <1>4 DEF r
<1> QED
  BY <1>1, <1>2, <1>3, <1>4

Slots == 0 .. BUFLEN - 1

Buffers == [Slots -> Chars \cup {"NO"}]

(* The n characters from beg on are a sequence of length n, and the first  *)
(* r of them can be taken off: what both copy loops do.                    *)
LEMMA TakenSplit ==
  ASSUME NEW b \in Buffers, NEW beg \in Slots, NEW n \in 0 .. BUFLEN, NEW r \in 0 .. n
  PROVE  /\ Advance(beg, r) \in Slots
         /\ Taken(b, beg, n) = Taken(b, beg, r) \o Taken(b, Advance(beg, r), n - r)
<1>0. BUFLEN \in Nat /\ BUFLEN > 0 /\ n \in Nat /\ r \in Nat /\ n - r \in Nat /\ beg \in Nat
  BY KbdAssumption DEF Slots
<1> DEFINE a == Advance(beg, r)
           s == Taken(b, beg, r)
           t == Taken(b, a, n - r)
<1>1. a = IF beg + r < BUFLEN THEN beg + r ELSE beg + r - BUFLEN
  BY <1>0, Wrap, beg + r < 2 * BUFLEN DEF Advance, Slots
<1>2. a \in Slots
  BY <1>0, <1>1 DEF Slots
<1>3. ASSUME NEW i \in 1 .. n - r
      PROVE  (a + i - 1) % BUFLEN = (beg + (r + i) - 1) % BUFLEN
  <2> DEFINE x == a + i - 1
             y == beg + (r + i) - 1
  <2>1. i \in Nat /\ a \in Nat /\ x \in Nat /\ y \in Nat
    BY <1>0, <1>2, <1>3 DEF Slots
  <2>2. x < 2 * BUFLEN /\ y < 2 * BUFLEN
    BY <1>0, <1>2, <1>3, <2>1 DEF Slots
  <2>3. x = a + i - 1 /\ y = beg + (r + i) - 1
    OBVIOUS
  <2> HIDE DEF a, x, y
  <2>4. x % BUFLEN = IF x < BUFLEN THEN x ELSE x - BUFLEN
    BY <2>1, <2>2, Wrap
  <2>5. y % BUFLEN = IF y < BUFLEN THEN y ELSE y - BUFLEN
    BY <2>1, <2>2, Wrap
  <2>6. x % BUFLEN = y % BUFLEN
    BY <1>0, <1>1, <1>3, <2>1, <2>2, <2>3, <2>4, <2>5 DEF Slots
  <2> QED
    BY <2>6 DEF x, y
<1>4. /\ Len(s) = r /\ Len(t) = n - r
      /\ s = [i \in 1 .. r |-> b[(beg + i - 1) % BUFLEN]]
      /\ t = [i \in 1 .. n - r |-> b[(a + i - 1) % BUFLEN]]
  BY <1>0 DEF Taken
<1>5. s \o t = [i \in 1 .. n |-> IF i <= r THEN s[i] ELSE t[i - r]]
  BY <1>0, <1>4
<1>6. ASSUME NEW i \in 1 .. n
      PROVE  (IF i <= r THEN s[i] ELSE t[i - r]) = b[(beg + i - 1) % BUFLEN]
  <2>1. CASE i <= r
    BY <1>0, <1>4, <1>6, <2>1
  <2>2. CASE ~(i <= r)
    <3>1. i - r \in 1 .. n - r
      BY <1>0, <1>6, <2>2
    <3>2. (a + (i - r) - 1) % BUFLEN = (beg + (r + (i - r)) - 1) % BUFLEN
      BY <1>3, <3>1
    <3>3. r + (i - r) = i
      BY <1>0
    <3> QED
      BY <1>4, <2>2, <3>1, <3>2, <3>3
  <2> QED
    BY <2>1, <2>2
<1>7. Taken(b, beg, n) = [i \in 1 .. n |-> b[(beg + i - 1) % BUFLEN]]
  BY DEF Taken
<1> HIDE DEF s, t
<1>8. s \o t = Taken(b, beg, n)
  BY <1>5, <1>6, <1>7
<1> QED
  BY <1>2, <1>8 DEF s, t

(* Storing a character behind the last one appends it.                     *)
LEMMA TakenAppend ==
  ASSUME NEW b \in Buffers, NEW beg \in Slots, NEW n \in 0 .. BUFLEN - 1,
         NEW c \in Chars
  PROVE  /\ [b EXCEPT ![(beg + n) % BUFLEN] = c] \in Buffers
         /\ Taken([b EXCEPT ![(beg + n) % BUFLEN] = c], beg, n + 1)
               = Append(Taken(b, beg, n), c)
<1>0. BUFLEN \in Nat /\ BUFLEN > 0 /\ n \in Nat /\ beg \in Nat
  BY KbdAssumption DEF Slots
<1> DEFINE at == (beg + n) % BUFLEN
           b2 == [b EXCEPT ![at] = c]
           s == Taken(b, beg, n)
<1>1. at = IF beg + n < BUFLEN THEN beg + n ELSE beg + n - BUFLEN
  BY <1>0, Wrap, beg + n < 2 * BUFLEN DEF Slots
<1>2. at \in Slots
  BY <1>0, <1>1 DEF Slots
<1>3. b2 \in Buffers
  BY <1>2 DEF Buffers
<1> HIDE DEF at
<1>4. ASSUME NEW i \in 1 .. n
      PROVE  b2[(beg + i - 1) % BUFLEN] = b[(beg + i - 1) % BUFLEN]
  <2> DEFINE x == beg + i - 1
  <2>1. x \in Nat /\ x < 2 * BUFLEN /\ x = beg + i - 1
    BY <1>0, <1>4 DEF Slots
  <2> HIDE DEF x
  <2>2. x % BUFLEN = IF x < BUFLEN THEN x ELSE x - BUFLEN
    BY <2>1, Wrap
  <2>3. x % BUFLEN /= at /\ x % BUFLEN \in Slots
    BY <1>0, <1>1, <1>4, <2>1, <2>2 DEF Slots
  <2>4. b2[x % BUFLEN] = b[x % BUFLEN]
    BY <2>3 DEF Buffers
  <2> QED
    BY <2>4 DEF x
<1>5. b2[(beg + (n + 1) - 1) % BUFLEN] = c
  <2>1. beg + (n + 1) - 1 = beg + n
    BY <1>0
  <2> QED
    BY <1>2, <2>1 DEF at, Buffers
<1>6. /\ Taken(b2, beg, n + 1) = [i \in 1 .. n + 1 |-> b2[(beg + i - 1) % BUFLEN]]
      /\ s = [i \in 1 .. n |-> b[(beg + i - 1) % BUFLEN]]
      /\ Len(s) = n
  BY <1>0 DEF Taken
<1>7. Append(s, c) = [i \in 1 .. n + 1 |-> IF i <= n THEN s[i] ELSE c]
  BY <1>0, <1>6
<1>8. ASSUME NEW i \in 1 .. n + 1
      PROVE  b2[(beg + i - 1) % BUFLEN] = IF i <= n THEN s[i] ELSE c
  <2>1. CASE i <= n
    BY <1>0, <1>4, <1>6, <2>1
  <2>2. CASE i = n + 1
    BY <1>0, <1>5, <2>2
  <2> QED
    BY <1>0, <2>1, <2>2
<1> HIDE DEF s, b2
<1>9. Taken(b2, beg, n + 1) = Append(s, c)
  BY <1>6, <1>7, <1>8
<1> QED
  BY Zenon, <1>3, <1>9 DEF s, b2, at

-----------------------------------------------------------------------------
(* The inductive invariant: the three properties, and that the process in  *)
(* kbd_proc asked for at least one character.                              *)
IInv == /\ TypeOK
        /\ NobodySleepsOnInput
        /\ KeysInOrder
        /\ kbd_proc /= NULL => want[kbd_proc] \in ReadSizes

(* What waits in the ring are characters, as it is the rest of accepted.   *)
LEMMA RingHoldsChars ==
  ASSUME IInv
  PROVE  Taken(kbd_buffer, kbd_buf_beg, kbd_buf_siz) \in Seq(Chars)
<1> DEFINE t == Taken(kbd_buffer, kbd_buf_beg, kbd_buf_siz)
<1>1. /\ accepted \in Seq(Chars) /\ got \in Seq(Chars) /\ accepted = got \o t
      /\ kbd_buf_siz \in Nat
  BY KbdAssumption DEF IInv, TypeOK, KeysInOrder
<1>2. t = [i \in 1 .. kbd_buf_siz |-> kbd_buffer[(kbd_buf_beg + i - 1) % BUFLEN]]
  BY DEF Taken
<1>3. Len(t) = kbd_buf_siz /\ DOMAIN t = 1 .. kbd_buf_siz /\ t = [i \in 1 .. kbd_buf_siz |-> t[i]]
  BY <1>1, <1>2
<1> HIDE DEF t
<1>4. Len(accepted) = Len(got) + kbd_buf_siz
  BY <1>1, <1>3
<1>5. ASSUME NEW i \in 1 .. kbd_buf_siz PROVE t[i] \in Chars
  <2>1. Len(got) + i \in 1 .. Len(accepted)
    BY <1>1, <1>4
  <2>2. accepted[Len(got) + i] = t[i]
    BY <1>1, <1>3, <2>1
  <2> QED
    BY <1>1, <2>1, <2>2, ElementOfSeq
<1>6. t \in Seq(Chars)
  BY <1>1, <1>3, <1>5
<1> QED
  BY <1>6 DEF t

LEMMA AppendConcat ==
  ASSUME NEW s \in Seq(Chars), NEW t \in Seq(Chars), NEW c \in Chars
  PROVE  Append(s \o t, c) = s \o Append(t, c)
<1>1. <<c>> \in Seq(Chars)
  OBVIOUS
<1>2. Append(s \o t, c) = (s \o t) \o <<c>> /\ Append(t, c) = t \o <<c>>
  BY <1>1
<1>3. (s \o t) \o <<c>> = s \o (t \o <<c>>)
  BY <1>1, ConcatAssociative
<1> QED
  BY <1>2, <1>3

LEMMA InitIInv == Init => IInv
<1> SUFFICES ASSUME Init PROVE IInv
  OBVIOUS
<1>1. TypeOK
  BY KbdAssumption DEF Init, TypeOK, Flags, Keys
<1>2. NobodySleepsOnInput
  BY KbdAssumption DEF Init, NobodySleepsOnInput
<1>3. Taken(kbd_buffer, kbd_buf_beg, kbd_buf_siz) = <<>>
  BY DEF Init, Taken
<1>4. KeysInOrder
  BY <1>3 DEF Init, KeysInOrder
<1> QED
  BY <1>1, <1>2, <1>4 DEF IInv, Init

(* The decoder returns flags and a character or 0, whatever byte it reads. *)
LEMMA DecoderType ==
  ASSUME NEW flags \in SUBSET Flags, NEW byte
  PROVE  /\ kbd_getch(flags, byte).shift \subseteq Flags
         /\ kbd_getch(flags, byte).c \in Chars \cup {"NO"}
<1>1. ASSUME NEW d PROVE shiftcode(d) \subseteq Flags /\ togglecode(d) \subseteq Flags
  BY Zenon DEF shiftcode, togglecode, Flags
<1>2. ASSUME NEW f, NEW d PROVE charcode(f, d) \in Chars \cup {"NO"}
  BY DEF charcode, Chars
<1> DEFINE d == <<byte.code, "E0ESC" \in flags>>
           s == Toggle((flags \ {"E0ESC"}) \cup shiftcode(d), togglecode(d))
<1>3. s \subseteq Flags
  BY <1>1 DEF Toggle
<1>4. CASE byte.code = "E0"
  BY <1>4 DEF kbd_getch, Flags
<1>5. CASE byte.code /= "E0" /\ byte.up
  BY <1>5 DEF kbd_getch
<1>6. CASE byte.code /= "E0" /\ ~byte.up
  <2>1. kbd_getch(flags, byte) = [shift |-> s, c |-> charcode(s, d)]
    BY <1>6 DEF kbd_getch
  <2> QED
    BY <1>2, <1>3, <2>1
<1> QED
  BY <1>4, <1>5, <1>6

(* A character that finds room.                                            *)
LEMMA ArriveInv ==
  ASSUME IInv, NEW c \in Chars, HasRoom, Arrive(c), accepted' = Append(accepted, c)
  PROVE  /\ kbd_buffer' \in Buffers /\ kbd_buf_beg' \in Slots /\ kbd_buf_siz' \in 0 .. BUFLEN
         /\ kbd_proc' \in Procs \cup {NULL}
         /\ state' \in [Procs -> {"READY", "PENDING", "CLOSE"}]
         /\ want' \in [Procs -> ReadSizes \cup {0}]
         /\ accepted' \in Seq(Chars) /\ got' \in Seq(Chars)
         /\ NobodySleepsOnInput' /\ KeysInOrder'
         /\ kbd_proc' /= NULL => want'[kbd_proc'] \in ReadSizes
<1> DEFINE at == (kbd_buf_beg + kbd_buf_siz) % BUFLEN
           b2 == [kbd_buffer EXCEPT ![at] = c]
           t == Taken(kbd_buffer, kbd_buf_beg, kbd_buf_siz)
<1>0. /\ BUFLEN \in Nat /\ BUFLEN > 0 /\ NULL \notin Procs /\ ReadSizes \subseteq Nat \ {0}
      /\ kbd_buffer \in Buffers /\ kbd_buf_beg \in Slots
      /\ kbd_buf_siz \in 0 .. BUFLEN - 1 /\ kbd_buf_siz \in Nat
      /\ accepted \in Seq(Chars) /\ got \in Seq(Chars) /\ accepted = got \o t
      /\ kbd_proc \in Procs \cup {NULL}
      /\ state \in [Procs -> {"READY", "PENDING", "CLOSE"}]
      /\ want \in [Procs -> ReadSizes \cup {0}]
  BY KbdAssumption DEF IInv, TypeOK, KeysInOrder, HasRoom, Buffers, Slots
<1>1. t \in Seq(Chars)
  BY RingHoldsChars
<1>2. b2 \in Buffers /\ Taken(b2, kbd_buf_beg, kbd_buf_siz + 1) = Append(t, c)
  <2>1. kbd_buffer \in Buffers
    BY <1>0
  <2>2. kbd_buf_beg \in Slots
    BY <1>0
  <2>3. kbd_buf_siz \in 0 .. BUFLEN - 1
    BY <1>0
  <2> QED
    BY ONLY <2>1, <2>2, <2>3, c \in Chars, TakenAppend, Zenon
<1>3. kbd_buffer' = b2
  BY DEF Arrive
<1> HIDE DEF b2, t
<1>4. accepted' \in Seq(Chars) /\ accepted' = got \o Append(t, c)
  <2>1. accepted' = Append(got \o t, c)
    BY <1>0
  <2>2. Append(got \o t, c) = got \o Append(t, c)
    <3>1. got \in Seq(Chars)
      BY <1>0
    <3> QED
      BY ONLY <1>1, <3>1, c \in Chars, AppendConcat, Zenon
  <2>3. accepted' \in Seq(Chars)
    BY <1>0, AppendProperties
  <2> QED
    BY <2>1, <2>2, <2>3
<1>5. CASE kbd_proc = NULL
  <2>1. /\ kbd_buf_siz' = kbd_buf_siz + 1
        /\ UNCHANGED <<kbd_buf_beg, kbd_proc, state, want, got>>
    BY <1>5 DEF Arrive
  <2>2. KeysInOrder'
    BY Zenon, <1>2, <1>3, <1>4, <2>1 DEF KeysInOrder
  <2>3. NobodySleepsOnInput'
    BY <1>5, <2>1 DEF NobodySleepsOnInput, IInv
  <2> QED
    BY <1>0, <1>2, <1>3, <1>4, <1>5, <2>1, <2>2, <2>3
<1>6. CASE kbd_proc /= NULL
  <2>1. /\ kbd_buf_siz = 0 /\ want[kbd_proc] \in ReadSizes /\ kbd_proc \in Procs
        /\ \A p \in Procs : state[p] = "PENDING" <=> kbd_proc = p
    BY <1>0, <1>6 DEF IInv, NobodySleepsOnInput
  <2>2. Min(kbd_buf_siz + 1, want[kbd_proc]) = 1
    <3>0. ASSUME NEW w \in ReadSizes PROVE w \in Nat /\ w > 0
      BY KbdAssumption
    <3>1. want[kbd_proc] \in Nat /\ want[kbd_proc] > 0
      BY <2>1, <3>0
    <3>2. kbd_buf_siz + 1 = 1
      BY <2>1
    <3>3. ASSUME NEW w \in Nat, w > 0 PROVE Min(1, w) = 1
      BY <3>3 DEF Min
    <3> QED
      BY <3>1, <3>2, <3>3
  <2>3. /\ kbd_buf_siz' = kbd_buf_siz + 1 - 1 /\ kbd_buf_beg' = Advance(kbd_buf_beg, 1)
        /\ got' = got \o Taken(b2, kbd_buf_beg, 1)
        /\ state' = [state EXCEPT ![kbd_proc] = "READY"]
        /\ want' = [want EXCEPT ![kbd_proc] = 0]
        /\ kbd_proc' = NULL
    BY <1>6, <2>2, Zenon DEF Arrive, b2
  <2>z. kbd_buf_siz' = 0
    BY <2>1, <2>3
  <2>4. Taken(b2, kbd_buf_beg, 1) = Append(t, c) /\ Append(t, c) \in Seq(Chars)
    BY <1>1, <1>2, <2>1
  <2>5. kbd_buf_beg' \in Slots
    BY <1>0, <1>2, <2>3, TakenSplit
  <2>6. Taken(b2, kbd_buf_beg', 0) = <<>>
    BY DEF Taken
  <2>7. got' \in Seq(Chars) /\ accepted' = got'
    BY Zenon, <1>0, <1>4, <2>3, <2>4
  <2>8. KeysInOrder'
    BY Zenon, <1>3, <2>3, <2>z, <2>6, <2>7, ConcatEmptySeq DEF KeysInOrder
  <2>9. NobodySleepsOnInput'
    BY <1>0, <2>1, <2>3 DEF NobodySleepsOnInput
  <2>10. /\ state' \in [Procs -> {"READY", "PENDING", "CLOSE"}]
         /\ want' \in [Procs -> ReadSizes \cup {0}]
    BY <1>0, <2>1, <2>3
  <2>11. kbd_buf_siz' \in 0 .. BUFLEN
    BY <1>0, <2>z
  <2> QED
    BY <1>2, <1>3, <1>4, <2>3, <2>5, <2>7, <2>8, <2>9, <2>10, <2>11
<1> QED
  BY <1>5, <1>6

LEMMA InterruptInv == ASSUME IInv, Interrupt PROVE IInv'
<1> DEFINE k == kbd_getch(shift, Head(wire))
<1>1. k.shift \subseteq Flags /\ k.c \in Chars \cup {"NO"}
  BY Zenon, DecoderType DEF IInv, TypeOK
<1>2. shift' = k.shift /\ UNCHANGED userVars
  BY DEF Interrupt
<1> HIDE DEF k
<1>3. CASE k.c /= "NO" /\ HasRoom
  <2>1. Arrive(k.c) /\ accepted' = Append(accepted, k.c)
    BY <1>3 DEF Interrupt, k
  <2>2. k.c \in Chars
    BY <1>1, <1>3
  <2> QED
    BY <1>1, <1>2, <1>3, <2>1, <2>2, ArriveInv
      DEF IInv, TypeOK, userVars, Buffers, Slots
<1>4. CASE ~(k.c /= "NO" /\ HasRoom)
  <2>1. UNCHANGED <<kbd_buffer, kbd_buf_beg, kbd_buf_siz, kbd_proc, state, want, accepted, got>>
    BY <1>4 DEF Interrupt, k
  <2> QED
    BY <1>1, <1>2, <2>1 DEF IInv, TypeOK, userVars, NobodySleepsOnInput, KeysInOrder
<1> QED
  BY <1>3, <1>4

LEMMA SysReadInv ==
  ASSUME IInv, NEW p \in Procs, NEW n \in ReadSizes, SysRead(p, n)
  PROVE  IInv'
<1> DEFINE t == Taken(kbd_buffer, kbd_buf_beg, kbd_buf_siz)
<1>0. /\ BUFLEN \in Nat /\ BUFLEN > 0 /\ NULL \notin Procs /\ ReadSizes \subseteq Nat \ {0}
      /\ kbd_buffer \in Buffers /\ kbd_buf_beg \in Slots
      /\ kbd_buf_siz \in 0 .. BUFLEN /\ kbd_buf_siz \in Nat /\ n \in Nat /\ n > 0
      /\ accepted \in Seq(Chars) /\ got \in Seq(Chars) /\ accepted = got \o t
      /\ state \in [Procs -> {"READY", "PENDING", "CLOSE"}]
      /\ want \in [Procs -> ReadSizes \cup {0}]
  BY KbdAssumption DEF IInv, TypeOK, KeysInOrder, Buffers, Slots
<1>1. UNCHANGED <<shift, kbd_buffer, userVars, accepted>>
  BY DEF SysRead
<1>2. CASE kbd_buf_siz > 0
  <2> DEFINE r == Min(kbd_buf_siz, n)
             u == Taken(kbd_buffer, kbd_buf_beg, r)
             v == Taken(kbd_buffer, Advance(kbd_buf_beg, r), kbd_buf_siz - r)
  <2>1. r \in 0 .. kbd_buf_siz /\ kbd_buf_siz - r \in 0 .. BUFLEN
    BY <1>0 DEF Min
  <2>2. /\ got' = got \o u /\ kbd_buf_beg' = Advance(kbd_buf_beg, r)
        /\ kbd_buf_siz' = kbd_buf_siz - r /\ UNCHANGED <<kbd_proc, state, want>>
    BY <1>0, <1>2 DEF SysRead
  <2> HIDE DEF r
  <2>3. kbd_buf_beg' \in Slots /\ t = u \o v
    <3>1. kbd_buffer \in Buffers
      BY <1>0
    <3>2. kbd_buf_beg \in Slots
      BY <1>0
    <3>3. kbd_buf_siz \in 0 .. BUFLEN
      BY <1>0
    <3> QED
      BY ONLY <2>1, <2>2, <3>1, <3>2, <3>3, TakenSplit, Zenon
  <2>4. t \in Seq(Chars)
    BY RingHoldsChars
  <2>5. u \in Seq(Chars) /\ v \in Seq(Chars)
    <3>1. /\ u = [i \in 1 .. r |-> u[i]] /\ Len(u) = r /\ r \in Nat
          /\ v = [i \in 1 .. kbd_buf_siz - r |-> v[i]] /\ Len(v) = kbd_buf_siz - r
          /\ kbd_buf_siz - r \in Nat
      BY <1>0, <2>1 DEF Taken
    <3> HIDE DEF u, v, t
    <3>2. Len(t) = r + (kbd_buf_siz - r)
      BY <2>3, <3>1
    <3>3. ASSUME NEW i \in 1 .. r PROVE u[i] \in Chars
      <4>1. i \in 1 .. Len(t) /\ t[i] = u[i]
        BY <2>3, <3>1, <3>2
      <4> QED
        BY <2>4, <4>1, ElementOfSeq
    <3>4. ASSUME NEW i \in 1 .. kbd_buf_siz - r PROVE v[i] \in Chars
      <4>1. r + i \in 1 .. Len(t) /\ t[r + i] = v[i]
        BY <2>3, <3>1, <3>2
      <4> QED
        BY <2>4, <4>1, ElementOfSeq
    <3> QED
      BY SMTT(30), <3>1, <3>3, <3>4
  <2> HIDE DEF u, v, t
  <2>6. got' \in Seq(Chars) /\ accepted' = got' \o v
    <3>1. got' = got \o u /\ accepted' = got \o (u \o v) /\ got \in Seq(Chars)
      BY <1>0, <1>1, <2>2, <2>3
    <3>2. (got \o u) \o v = got \o (u \o v)
      BY SMTT(30), <1>0, <2>5, ConcatAssociative
    <3>3. got \o u \in Seq(Chars)
      BY <1>0, <2>5
    <3> QED
      BY <3>1, <3>2, <3>3
  <2>7. v = Taken(kbd_buffer', kbd_buf_beg', kbd_buf_siz')
    BY <1>1, <2>2 DEF v
  <2>8. NobodySleepsOnInput' /\ kbd_proc = NULL
    BY <1>2, <2>2, <1>0 DEF IInv, NobodySleepsOnInput
  <2>9. TypeOK'
    BY <1>0, <1>1, <2>1, <2>2, <2>3, <2>6 DEF IInv, TypeOK, userVars, Buffers, Slots
  <2> QED
    BY <2>2, <2>6, <2>7, <2>8, <2>9 DEF IInv, KeysInOrder
<1>3. CASE ~(kbd_buf_siz > 0)
  <2>1. /\ kbd_buf_siz = 0 /\ kbd_proc = NULL /\ kbd_proc' = p
        /\ state' = [state EXCEPT ![p] = "PENDING"] /\ want' = [want EXCEPT ![p] = n]
        /\ UNCHANGED <<kbd_buf_beg, kbd_buf_siz, got>>
    BY <1>3 DEF SysRead
  <2>2. NobodySleepsOnInput'
    BY <1>0, <2>1 DEF IInv, NobodySleepsOnInput
  <2>3. KeysInOrder'
    BY <1>1, <2>1 DEF IInv, KeysInOrder
  <2>4. TypeOK'
    BY <1>0, <1>1, <2>1 DEF IInv, TypeOK, userVars
  <2> QED
    BY <1>0, <2>1, <2>2, <2>3, <2>4 DEF IInv
<1> QED
  BY <1>2, <1>3

LEMMA NextIInv == IInv /\ [Next]_vars => IInv'
<1> SUFFICES ASSUME IInv, [Next]_vars PROVE IInv'
  OBVIOUS
<1> USE DEF IInv, TypeOK, NobodySleepsOnInput, KeysInOrder
<1>1. ASSUME NEW k \in Keys, Press(k) PROVE IInv'
  BY <1>1 DEF Press, Send, kbdVars
<1>2. ASSUME NEW k \in Keys, Repeat(k) PROVE IInv'
  BY <1>2 DEF Repeat, Send, kbdVars
<1>3. ASSUME NEW k \in Keys, Release(k) PROVE IInv'
  BY <1>3 DEF Release, Send, kbdVars
<1>4. CASE Interrupt
  BY <1>4, InterruptInv
<1>5. ASSUME NEW p \in Procs, NEW n \in ReadSizes, SysRead(p, n) PROVE IInv'
  BY SMTT(30), <1>5, SysReadInv
<1>6. ASSUME NEW p \in Procs, Exit(p) PROVE IInv'
  BY <1>6, KbdAssumption DEF Exit, userVars
<1>7. ASSUME NEW p \in Procs, Start(p) PROVE IInv'
  BY <1>7, KbdAssumption DEF Start, kbdVars, userVars
<1>8. CASE UNCHANGED vars
  BY <1>8 DEF vars, kbdVars, userVars
<1> QED
  BY Zenon, <1>1, <1>2, <1>3, <1>4, <1>5, <1>6, <1>7, <1>8 DEF Next

(* The inductive invariant holds in every reachable state.                 *)
THEOREM Invariance == Spec => []IInv
BY InitIInv, NextIInv, PTL DEF Spec

(* The ring's indices stay inside kbd_buffer and only characters leave it. *)
THEOREM TypeCorrect == Spec => []TypeOK
<1>1. IInv => TypeOK
  BY DEF IInv
<1> QED
  BY <1>1, Invariance, PTL

(* While the ring holds a character no process sleeps for one, and no      *)
(* sleeping process is forgotten by kbd_proc.                              *)
THEOREM NoSleepOnInput == Spec => []NobodySleepsOnInput
<1>1. IInv => NobodySleepsOnInput
  BY DEF IInv
<1> QED
  BY <1>1, Invariance, PTL

(* The stored characters are handed out once, in order, for every size of  *)
(* kbd_buffer and every sequence of reads.                                 *)
THEOREM InOrder == Spec => []KeysInOrder
<1>1. IInv => KeysInOrder
  BY DEF IInv
<1> QED
  BY <1>1, Invariance, PTL

-----------------------------------------------------------------------------
(* The decoder and the user: shift runs ahead along the bytes that still   *)
(* wait in the controller, and at the end of them agrees with the keys     *)
(* that are down.                                                          *)

Codes == {"E0", "2A", "36", "1D", "3A", "1E", "48"}

WireBytes == [code : Codes, up : BOOLEAN, mean : Chars \cup {"NO"}]

(* t[i] is shift after the first i bytes of w, starting from flags; when   *)
(* sure holds every byte decodes to nothing or to what was meant by it.    *)
Trace(t, flags, w, sure) ==
    /\ t \in [0 .. Len(w) -> SUBSET Flags]
    /\ t[0] = flags
    /\ \A i \in 1 .. Len(w) :
          /\ t[i] = kbd_getch(t[i - 1], w[i]).shift
          /\ sure => kbd_getch(t[i - 1], w[i]).c \in {"NO", w[i].mean}

(* What the flags will be when the last byte is read.                      *)
Agrees(flags, down, on, sure) ==
    /\ flags \in SUBSET Flags
    /\ flags \ {"CAPSLOCK"} \subseteq FlagsOf(down, FALSE)
    /\ sure => flags = FlagsOf(down, on)

(* No two keys that are down have a flag in common.                        *)
Apart(down) ==
    \A k1, k2 \in down : k1 /= k2 => shiftcode(Index[k1]) \cap shiftcode(Index[k2]) = {}

WireInv ==
    /\ wire \in Seq(WireBytes)
    /\ ~odd => Apart(held)
    /\ ~odd => accepted = meant
    /\ \E t : /\ Trace(t, shift, wire, ~odd)
              /\ Agrees(t[Len(wire)], held, caps, ~odd)

(* Reading the first byte takes it off the trace.                          *)
LEMMA TraceTail ==
  ASSUME NEW w \in Seq(WireBytes), w /= <<>>, NEW flags, NEW sure \in BOOLEAN, NEW t,
         Trace(t, flags, w, sure)
  PROVE  /\ Tail(w) \in Seq(WireBytes)
         /\ sure => kbd_getch(flags, Head(w)).c \in {"NO", Head(w).mean}
         /\ \E u : /\ Trace(u, kbd_getch(flags, Head(w)).shift, Tail(w), sure)
                   /\ u[Len(Tail(w))] = t[Len(w)]
<1> DEFINE n == Len(w)
           v == Tail(w)
           u == [i \in 0 .. n - 1 |-> t[i + 1]]
<1>1. /\ n \in Nat /\ n > 0 /\ v \in Seq(WireBytes) /\ Len(v) = n - 1 /\ Head(w) = w[1]
      /\ \A i \in 1 .. n - 1 : v[i] = w[i + 1]
  OBVIOUS
<1>2. /\ t \in [0 .. n -> SUBSET Flags] /\ t[0] = flags
      /\ \A i \in 1 .. n : /\ t[i] = kbd_getch(t[i - 1], w[i]).shift
                           /\ sure => kbd_getch(t[i - 1], w[i]).c \in {"NO", w[i].mean}
  BY DEF Trace
<1> HIDE DEF n, v
<1>3. u \in [0 .. n - 1 -> SUBSET Flags] /\ u[0] = t[1] /\ u[n - 1] = t[n]
  BY <1>1, <1>2
<1>4. /\ t[1] = kbd_getch(flags, w[1]).shift
      /\ sure => kbd_getch(flags, w[1]).c \in {"NO", w[1].mean}
  <2>1. 1 \in 1 .. n /\ 1 - 1 = 0
    BY <1>1
  <2> QED
    BY <1>2, <2>1
<1>5. ASSUME NEW i \in 1 .. n - 1
      PROVE  /\ u[i] = kbd_getch(u[i - 1], v[i]).shift
             /\ sure => kbd_getch(u[i - 1], v[i]).c \in {"NO", v[i].mean}
  <2>1. /\ u[i] = t[i + 1] /\ u[i - 1] = t[i] /\ v[i] = w[i + 1]
        /\ i + 1 \in 1 .. n /\ (i + 1) - 1 = i
    BY <1>1, <1>5
  <2> HIDE DEF u
  <2> QED
    BY <1>2, <2>1
<1> HIDE DEF u
<1>6. Trace(u, kbd_getch(flags, Head(w)).shift, v, sure)
  BY <1>1, <1>3, <1>4, <1>5 DEF Trace
<1> QED
  BY <1>1, <1>3, <1>4, <1>6 DEF n, v

(* A byte the controller sends extends the trace.                          *)
LEMMA TraceAppend ==
  ASSUME NEW w \in Seq(WireBytes), NEW flags, NEW sure \in BOOLEAN, NEW t,
         Trace(t, flags, w, sure), NEW b \in WireBytes,
         sure => kbd_getch(t[Len(w)], b).c \in {"NO", b.mean}
  PROVE  /\ Append(w, b) \in Seq(WireBytes)
         /\ \E u : /\ Trace(u, flags, Append(w, b), sure)
                   /\ u[Len(Append(w, b))] = kbd_getch(t[Len(w)], b).shift
<1> DEFINE n == Len(w)
           v == Append(w, b)
           e == kbd_getch(t[n], b).shift
           u == [i \in 0 .. n + 1 |-> IF i <= n THEN t[i] ELSE e]
<1>1. /\ n \in Nat /\ v \in Seq(WireBytes) /\ Len(v) = n + 1 /\ v[n + 1] = b
      /\ \A i \in 1 .. n : v[i] = w[i]
  OBVIOUS
<1>2. /\ t \in [0 .. n -> SUBSET Flags] /\ t[0] = flags
      /\ \A i \in 1 .. n : /\ t[i] = kbd_getch(t[i - 1], w[i]).shift
                           /\ sure => kbd_getch(t[i - 1], w[i]).c \in {"NO", w[i].mean}
      /\ sure => kbd_getch(t[n], b).c \in {"NO", b.mean}
  BY DEF Trace
<1>3. e \in SUBSET Flags
  <2>1. t[n] \in SUBSET Flags
    BY <1>1, <1>2
  <2> QED
    BY <2>1, DecoderType
<1>4. e = kbd_getch(t[n], b).shift
  OBVIOUS
<1> HIDE DEF n, v, e
<1>5. /\ u \in [0 .. n + 1 -> SUBSET Flags] /\ u[0] = t[0] /\ u[n + 1] = e
      /\ \A i \in 0 .. n : u[i] = t[i]
  BY <1>1, <1>2, <1>3
<1> HIDE DEF u
<1>6. ASSUME NEW i \in 1 .. n + 1
      PROVE  /\ u[i] = kbd_getch(u[i - 1], v[i]).shift
             /\ sure => kbd_getch(u[i - 1], v[i]).c \in {"NO", v[i].mean}
  <2>1. CASE i \in 1 .. n
    <3>1. u[i] = t[i] /\ u[i - 1] = t[i - 1] /\ v[i] = w[i]
      BY <1>1, <1>5, <2>1
    <3> QED
      BY <1>2, <2>1, <3>1
  <2>2. CASE i = n + 1
    <3>1. u[i] = e /\ u[i - 1] = t[n] /\ v[i] = b
      BY <1>1, <1>5, <2>2
    <3> QED
      BY <1>2, <1>4, <3>1
  <2> QED
    BY <1>1, <2>1, <2>2
<1>7. Trace(u, flags, v, sure)
  BY <1>1, <1>2, <1>5, <1>6 DEF Trace
<1> QED
  BY <1>1, <1>4, <1>5, <1>7 DEF n, v
LEMMA EntryFacts ==
  ASSUME NEW a \in Codes \ {"E0"}, NEW v \in BOOLEAN, NEW d, d = <<a, v>>
  PROVE  /\ d[1] = a /\ d[2] = v /\ d = <<d[1], d[2]>>
         /\ togglecode(d) = IF a = "3A" /\ v = FALSE THEN {"CAPSLOCK"} ELSE {}
         /\ shiftcode(d) \subseteq {"SHIFT", "CTL"}
<1>1. d[1] = a /\ d[2] = v
  OBVIOUS
<1>2. d = <<d[1], d[2]>>
  OBVIOUS
<1>3. togglecode(d) = IF a = "3A" /\ v = FALSE THEN {"CAPSLOCK"} ELSE {}
  <2>1. <<"3A", FALSE>>[1] = "3A" /\ <<"3A", FALSE>>[2] = FALSE
    OBVIOUS
  <2>2. d = <<"3A", FALSE>> <=> (a = "3A" /\ v = FALSE)
    BY Zenon, <1>1, <2>1
  <2> QED
    BY Zenon, <2>2 DEF togglecode
<1>4. shiftcode(d) \subseteq {"SHIFT", "CTL"}
  BY DEF shiftcode
<1> QED
  BY <1>1, <1>2, <1>3, <1>4

(* The table entries of the eight keys.                                    *)
LEMMA KeyFacts ==
  ASSUME NEW k \in Keys
  PROVE  /\ Index[k][1] \in Codes \ {"E0"} /\ Index[k][2] \in BOOLEAN
         /\ Index[k] = <<Index[k][1], Index[k][2]>>
         /\ togglecode(Index[k]) = IF k = "capslk" THEN {"CAPSLOCK"} ELSE {}
         /\ shiftcode(Index[k]) \subseteq {"SHIFT", "CTL"}
<1>1. k \in {"lshift", "rshift", "lctl", "rctl", "capslk", "a", "pad8", "up"}
  BY DEF Keys, Index
<1>2. /\ Index["lshift"] = <<"2A", FALSE>> /\ Index["rshift"] = <<"36", FALSE>>
      /\ Index["lctl"] = <<"1D", FALSE>> /\ Index["rctl"] = <<"1D", TRUE>>
      /\ Index["capslk"] = <<"3A", FALSE>> /\ Index["a"] = <<"1E", FALSE>>
      /\ Index["pad8"] = <<"48", FALSE>> /\ Index["up"] = <<"48", TRUE>>
  BY Zenon DEF Index
<1> DEFINE Entry(a, v) == Index[k] = <<a, v>> /\ (k = "capslk" <=> (a = "3A" /\ v = FALSE))
<1>3. ASSUME NEW a \in Codes \ {"E0"}, NEW v \in BOOLEAN, Entry(a, v)
      PROVE  /\ Index[k][1] \in Codes \ {"E0"} /\ Index[k][2] \in BOOLEAN
             /\ Index[k] = <<Index[k][1], Index[k][2]>>
             /\ togglecode(Index[k]) = IF k = "capslk" THEN {"CAPSLOCK"} ELSE {}
             /\ shiftcode(Index[k]) \subseteq {"SHIFT", "CTL"}
  <2> DEFINE d == Index[k]
  <2>1. d = <<a, v>> /\ (k = "capslk" <=> (a = "3A" /\ v = FALSE))
    BY <1>3
  <2> HIDE DEF d
  <2>2. /\ d[1] = a /\ d[2] = v /\ d = <<d[1], d[2]>>
        /\ togglecode(d) = IF a = "3A" /\ v = FALSE THEN {"CAPSLOCK"} ELSE {}
        /\ shiftcode(d) \subseteq {"SHIFT", "CTL"}
    BY Zenon, <2>1, EntryFacts
  <2>3. /\ d[1] \in Codes \ {"E0"} /\ d[2] \in BOOLEAN
        /\ togglecode(d) = IF k = "capslk" THEN {"CAPSLOCK"} ELSE {}
    BY <2>1, <2>2
  <2> QED
    BY <2>2, <2>3 DEF d
<1>4. {"2A", "36", "1D", "3A", "1E", "48"} = Codes \ {"E0"}
  BY DEF Codes
<1>5. \E a \in {"2A", "36", "1D", "3A", "1E", "48"}, v \in BOOLEAN : Entry(a, v)
  <2>1. CASE k = "lshift"
    <3>1. Entry("2A", FALSE)
      BY Zenon, <1>2, <2>1
    <3> HIDE DEF Entry
    <3> QED
      BY <3>1, Zenon
  <2>2. CASE k = "rshift"
    <3>1. Entry("36", FALSE)
      BY Zenon, <1>2, <2>2
    <3> HIDE DEF Entry
    <3> QED
      BY <3>1, Zenon
  <2>3. CASE k = "lctl"
    <3>1. Entry("1D", FALSE)
      BY Zenon, <1>2, <2>3
    <3> HIDE DEF Entry
    <3> QED
      BY <3>1, Zenon
  <2>4. CASE k = "rctl"
    <3>1. Entry("1D", TRUE)
      BY Zenon, <1>2, <2>4
    <3> HIDE DEF Entry
    <3> QED
      BY <3>1, Zenon
  <2>5. CASE k = "capslk"
    <3>1. Entry("3A", FALSE)
      BY Zenon, <1>2, <2>5
    <3> HIDE DEF Entry
    <3> QED
      BY <3>1, Zenon
  <2>6. CASE k = "a"
    <3>1. Entry("1E", FALSE)
      BY Zenon, <1>2, <2>6
    <3> HIDE DEF Entry
    <3> QED
      BY <3>1, Zenon
  <2>7. CASE k = "pad8"
    <3>1. Entry("48", FALSE)
      BY Zenon, <1>2, <2>7
    <3> HIDE DEF Entry
    <3> QED
      BY <3>1, Zenon
  <2>8. CASE k = "up"
    <3>1. Entry("48", TRUE)
      BY Zenon, <1>2, <2>8
    <3> HIDE DEF Entry
    <3> QED
      BY <3>1, Zenon
  <2> QED
    BY Zenon, <1>1, <2>1, <2>2, <2>3, <2>4, <2>5, <2>6, <2>7, <2>8
<1> HIDE DEF Entry
<1> QED
  BY <1>3, <1>4, <1>5, Zenon

(* The flags after all bytes of a key that goes down or comes up.          *)
After(flags, k, up) ==
    IF up THEN flags \ shiftcode(Index[k])
          ELSE Toggle(flags \cup shiftcode(Index[k]), togglecode(Index[k]))

(* The last byte of a key, read after its escape if it has one.            *)
LEMMA DecodeKey ==
  ASSUME NEW flags \in SUBSET Flags, "E0ESC" \notin flags, NEW k \in Keys,
         NEW up \in BOOLEAN, NEW m, NEW f,
         f = IF Index[k][2] THEN flags \cup {"E0ESC"} ELSE flags
  PROVE  LET g == kbd_getch(f, [code |-> Index[k][1], up |-> up, mean |-> m])
         IN  /\ g.shift = After(flags, k, up)
             /\ g.c = IF up THEN "NO" ELSE charcode(After(flags, k, up), Index[k])
<1> DEFINE b == [code |-> Index[k][1], up |-> up, mean |-> m]
           d == <<b.code, "E0ESC" \in f>>
           s == Toggle((f \ {"E0ESC"}) \cup shiftcode(d), togglecode(d))
<1>1. /\ b.code /= "E0" /\ b.code = Index[k][1] /\ b.up = up
      /\ Index[k][2] \in BOOLEAN /\ Index[k] = <<Index[k][1], Index[k][2]>>
  BY KeyFacts
<1>2. d = Index[k] /\ f \ {"E0ESC"} = flags
  BY <1>1
<1>3. shiftcode(Index[k]) \subseteq {"SHIFT", "CTL"}
  BY KeyFacts
<1>4. CASE up
  <2>1. kbd_getch(f, b) = [shift |-> f \ (shiftcode(d) \cup {"E0ESC"}), c |-> "NO"]
    BY <1>1, <1>4 DEF kbd_getch
  <2>2. f \ (shiftcode(d) \cup {"E0ESC"}) = flags \ shiftcode(Index[k])
    BY <1>2
  <2> QED
    BY <1>4, <2>1, <2>2 DEF After
<1>5. CASE ~up
  <2>1. kbd_getch(f, b) = [shift |-> s, c |-> charcode(s, d)]
    BY <1>1, <1>5 DEF kbd_getch
  <2>2. s = After(flags, k, up)
    BY <1>2, <1>5 DEF After
  <2> QED
    BY <1>2, <1>5, <2>1, <2>2
<1> QED
  BY <1>4, <1>5

(* All bytes of a key event extend the trace.                              *)
LEMMA SendTrace ==
  ASSUME NEW w \in Seq(WireBytes), NEW flags, NEW sure \in BOOLEAN, NEW t,
         Trace(t, flags, w, sure), "E0ESC" \notin t[Len(w)],
         NEW k \in Keys, NEW up \in BOOLEAN, NEW m \in Chars \cup {"NO"},
         (sure /\ ~up) => charcode(After(t[Len(w)], k, up), Index[k]) = m
  PROVE  /\ w \o Bytes(k, up, m) \in Seq(WireBytes)
         /\ \E u : /\ Trace(u, flags, w \o Bytes(k, up, m), sure)
                   /\ u[Len(w \o Bytes(k, up, m))] = After(t[Len(w)], k, up)
<1> DEFINE b == [code |-> Index[k][1], up |-> up, mean |-> m]
           e == t[Len(w)]
<1>1. e \in SUBSET Flags /\ "E0ESC" \notin e
  BY DEF Trace
<1>2. b \in WireBytes /\ b.mean = m
  BY KeyFacts DEF WireBytes
<1>3. Escape \in WireBytes /\ Escape.code = "E0"
  BY DEF Escape, WireBytes, Codes
<1>4. Index[k][2] \in BOOLEAN
  BY KeyFacts
<1>5. CASE ~Index[k][2]
  <2>1. /\ kbd_getch(e, b).shift = After(e, k, up)
        /\ kbd_getch(e, b).c = IF up THEN "NO" ELSE charcode(After(e, k, up), Index[k])
    BY SMTT(30), <1>1, <1>5, DecodeKey
  <2>2. w \o Bytes(k, up, m) = Append(w, b)
    <3>1. Bytes(k, up, m) = <<>> \o <<b>>
      BY <1>5 DEF Bytes
    <3>2. <<b>> \in Seq(WireBytes)
      BY <1>2
    <3> HIDE DEF b
    <3> QED
      BY <1>2, <3>1, <3>2
  <2>3. sure => kbd_getch(e, b).c \in {"NO", b.mean}
    BY <1>2, <2>1
  <2> HIDE DEF b
  <2> QED
    BY <1>2, <2>1, <2>2, <2>3, TraceAppend
<1>6. CASE Index[k][2]
  <2> DEFINE w1 == Append(w, Escape)
             f == e \cup {"E0ESC"}
  <2>1. kbd_getch(e, Escape) = [shift |-> f, c |-> "NO"]
    BY <1>3 DEF kbd_getch
  <2>2. /\ w1 \in Seq(WireBytes)
        /\ \E u : Trace(u, flags, w1, sure) /\ u[Len(w1)] = f
    BY <1>3, <2>1, TraceAppend
  <2>3. PICK u : Trace(u, flags, w1, sure) /\ u[Len(w1)] = f
    BY <2>2
  <2>4. /\ kbd_getch(f, b).shift = After(e, k, up)
        /\ kbd_getch(f, b).c = IF up THEN "NO" ELSE charcode(After(e, k, up), Index[k])
    BY <1>1, <1>6, DecodeKey
  <2>5. w \o Bytes(k, up, m) = Append(w1, b)
    <3>1. Bytes(k, up, m) = <<Escape>> \o <<b>>
      BY <1>6 DEF Bytes
    <3>2. <<b>> \in Seq(WireBytes) /\ <<Escape>> \in Seq(WireBytes)
      BY <1>2, <1>3
    <3> HIDE DEF b
    <3>3. w1 = w \o <<Escape>> /\ Append(w1, b) = w1 \o <<b>>
      BY <1>2, <1>3, <2>2
    <3>4. w \o (<<Escape>> \o <<b>>) = (w \o <<Escape>>) \o <<b>>
      BY <3>2, ConcatAssociative
    <3> QED
      BY <3>1, <3>3, <3>4
  <2>6. sure => kbd_getch(f, b).c \in {"NO", b.mean}
    BY <1>2, <2>4
  <2> HIDE DEF b, w1, f
  <2>7. sure => kbd_getch(u[Len(w1)], b).c \in {"NO", b.mean}
    BY <2>3, <2>6
  <2>8. \E x : /\ Trace(x, flags, Append(w1, b), sure)
               /\ x[Len(Append(w1, b))] = kbd_getch(u[Len(w1)], b).shift
    BY <1>2, <2>2, <2>3, <2>7, TraceAppend
  <2>9. Append(w1, b) \in Seq(WireBytes)
    BY <1>2, <2>2
  <2> QED
    BY <2>3, <2>4, <2>5, <2>8, <2>9
<1> QED
  BY <1>4, <1>5, <1>6

(* Releasing, pressing and repeating a key keep the flags in agreement.    *)
LEMMA ReleaseAgrees ==
  ASSUME NEW e, NEW on \in BOOLEAN, NEW sure \in BOOLEAN, Agrees(e, held, on, sure),
         sure => Apart(held), NEW k \in Keys, k \in held, held \subseteq Keys
  PROVE  Agrees(After(e, k, TRUE), held \ {k}, on, sure)
<1> DEFINE x == After(e, k, TRUE)
<1>0. x = e \ shiftcode(Index[k]) /\ x \in SUBSET Flags
  BY DEF After, Agrees
<1>1. ASSUME NEW z \in FlagsOf(held, FALSE), z \notin shiftcode(Index[k])
      PROVE  z \in FlagsOf(held \ {k}, FALSE)
  BY <1>1 DEF FlagsOf
<1>2. x \ {"CAPSLOCK"} \subseteq FlagsOf(held \ {k}, FALSE)
  BY Zenon, <1>0, <1>1 DEF Agrees
<1>3. ASSUME sure PROVE x = FlagsOf(held \ {k}, on)
  <2>1. e = FlagsOf(held, on)
    BY <1>3 DEF Agrees
  <2>2. "CAPSLOCK" \notin shiftcode(Index[k])
    BY KeyFacts
  <2>3. x \subseteq FlagsOf(held \ {k}, on)
    BY Zenon, <1>0, <2>1 DEF FlagsOf
  <2>4. ASSUME NEW j \in held \ {k} PROVE shiftcode(Index[j]) \cap shiftcode(Index[k]) = {}
    BY <1>3, <2>4 DEF Apart
  <2>5. ASSUME NEW z \in FlagsOf(held \ {k}, on) PROVE z \in x
    <3>1. CASE \E j \in held \ {k} : z \in shiftcode(Index[j])
      <4>1. PICK j \in held \ {k} : z \in shiftcode(Index[j])
        BY <3>1
      <4>2. z \in FlagsOf(held, on)
        BY <4>1 DEF FlagsOf
      <4>3. z \notin shiftcode(Index[k])
        BY <2>4, <4>1
      <4> QED
        BY Zenon, <1>0, <2>1, <4>2, <4>3
    <3>2. CASE on /\ z = "CAPSLOCK"
      <4>1. z \in FlagsOf(held, on)
        BY <3>2 DEF FlagsOf
      <4> QED
        BY Zenon, <1>0, <2>1, <2>2, <3>2, <4>1
    <3> QED
      BY Zenon, <2>5, <3>1, <3>2 DEF FlagsOf
  <2> QED
    BY Zenon, <2>3, <2>5
<1> QED
  BY Zenon, <1>0, <1>2, <1>3 DEF Agrees

LEMMA PressAgrees ==
  ASSUME NEW e, NEW on \in BOOLEAN, NEW sure \in BOOLEAN, Agrees(e, held, on, sure),
         NEW k \in Keys
  PROVE  Agrees(After(e, k, FALSE), held \cup {k}, on /= (k = "capslk"), sure)
<1> DEFINE x == After(e, k, FALSE)
           sc == shiftcode(Index[k])
           tc == togglecode(Index[k])
<1>0. x = ((e \cup sc) \ tc) \cup (tc \ (e \cup sc))
  BY DEF After, Toggle
<1>1. tc = (IF k = "capslk" THEN {"CAPSLOCK"} ELSE {}) /\ sc \subseteq {"SHIFT", "CTL"}
  BY KeyFacts
<1> HIDE DEF x, tc
<1>2. FlagsOf(held \cup {k}, FALSE) = FlagsOf(held, FALSE) \cup sc
  BY DEF FlagsOf
<1> HIDE DEF sc
<1>3. x \in SUBSET Flags
  BY <1>0, <1>1 DEF Agrees, Flags
<1>4. x \ {"CAPSLOCK"} \subseteq FlagsOf(held \cup {k}, FALSE)
  BY Zenon, <1>0, <1>1, <1>2 DEF Agrees
<1>5. ASSUME sure PROVE x = FlagsOf(held \cup {k}, on /= (k = "capslk"))
  <2>1. /\ "CAPSLOCK" \notin FlagsOf(held, FALSE)
        /\ \A down, v : FlagsOf(down, v)
                = FlagsOf(down, FALSE) \cup (IF v THEN {"CAPSLOCK"} ELSE {})
    BY DEF FlagsOf, shiftcode
  <2>2. e = FlagsOf(held, FALSE) \cup (IF on THEN {"CAPSLOCK"} ELSE {})
    BY Zenon, <1>5, <2>1 DEF Agrees
  <2>3. FlagsOf(held \cup {k}, on /= (k = "capslk"))
           = FlagsOf(held, FALSE) \cup sc
               \cup (IF on /= (k = "capslk") THEN {"CAPSLOCK"} ELSE {})
    BY Zenon, <1>2, <2>1
  <2>4. CASE k = "capslk"
    <3> DEFINE f == FlagsOf(held, FALSE)
    <3>1. "CAPSLOCK" \notin f \cup sc /\ tc = {"CAPSLOCK"}
      BY Zenon, <1>1, <2>1, <2>4
    <3>2. FlagsOf(held \cup {k}, on /= (k = "capslk"))
             = (f \cup sc) \cup (IF on THEN {} ELSE {"CAPSLOCK"})
      BY Zenon, <2>3, <2>4
    <3> HIDE DEF f
    <3>3. CASE on
      <4>1. e = f \cup {"CAPSLOCK"}
        BY <2>2, <3>3 DEF f
      <4>2. x = f \cup sc
        BY <1>0, <3>1, <4>1
      <4> QED
        BY Zenon, <3>2, <3>3, <4>2
    <3>4. CASE ~on
      <4>1. e = f
        BY <2>2, <3>4 DEF f
      <4>2. x = (f \cup sc) \cup {"CAPSLOCK"}
        BY <1>0, <3>1, <4>1
      <4> QED
        BY <3>2, <3>4, <4>2
    <3> QED
      BY <3>3, <3>4
  <2>5. CASE k /= "capslk"
    BY Zenon, <1>0, <1>1, <2>1, <2>2, <2>3, <2>5
  <2> QED
    BY <2>4, <2>5
<1> QED
  BY Zenon, <1>3, <1>4, <1>5 DEF Agrees, x

LEMMA RepeatAgrees ==
  ASSUME NEW e, NEW on \in BOOLEAN, NEW sure \in BOOLEAN, Agrees(e, held, on, sure),
         NEW k \in Keys, k \in held, sure => k /= "capslk"
  PROVE  Agrees(After(e, k, FALSE), held, on, sure)
<1>1. held \cup {k} = held
  OBVIOUS
<1>2. Agrees(After(e, k, FALSE), held, on /= (k = "capslk"), sure)
  <2>1. Agrees(After(e, k, FALSE), held \cup {k}, on /= (k = "capslk"), sure)
    BY PressAgrees, Zenon
  <2> QED
    BY <1>1, <2>1, Zenon
<1>3. CASE sure
  <2>1. (on /= (k = "capslk")) = on
    BY <1>3
  <2> QED
    BY Zenon, <1>2, <2>1
<1>4. CASE ~sure
  BY Zenon, <1>2, <1>4 DEF Agrees
<1> QED
  BY Zenon, <1>3, <1>4

(* A key event: what the user does and the bytes that follow agree.        *)
LEMMA SendInv ==
  ASSUME IInv, WireInv, NEW k \in Keys, NEW up \in BOOLEAN, NEW m \in Chars \cup {"NO"},
         Send(k, up, m), odd' \in BOOLEAN, ~odd' => ~odd, ~odd' => Apart(held'),
         \A e : Agrees(e, held, caps, ~odd)
                  => /\ Agrees(After(e, k, up), held', caps', ~odd')
                     /\ (~odd' /\ ~up) => charcode(After(e, k, up), Index[k]) = m
  PROVE  WireInv'
<1>1. PICK t : Trace(t, shift, wire, ~odd) /\ Agrees(t[Len(wire)], held, caps, ~odd)
  BY DEF WireInv
<1> DEFINE e == t[Len(wire)]
<1>2. wire \in Seq(WireBytes) /\ odd \in BOOLEAN
  BY DEF WireInv, IInv, TypeOK
<1>3. Trace(t, shift, wire, ~odd')
  BY SMTT(30), <1>1, <1>2 DEF Trace
<1>4. "E0ESC" \notin e
  <2>1. "E0ESC" \notin FlagsOf(held, FALSE)
    BY DEF FlagsOf, shiftcode
  <2> QED
    BY Zenon, <1>1, <2>1 DEF Agrees
<1>5. /\ Agrees(After(e, k, up), held', caps', ~odd')
      /\ (~odd' /\ ~up) => charcode(After(e, k, up), Index[k]) = m
  BY <1>1
<1>6. UNCHANGED <<shift, accepted, meant>> /\ wire' = wire \o Bytes(k, up, m)
  BY DEF Send, kbdVars
<1>7. /\ wire' \in Seq(WireBytes)
      /\ \E u : Trace(u, shift', wire', ~odd') /\ u[Len(wire')] = After(e, k, up)
  <2> DEFINE sure == ~odd'
  <2>1. sure \in BOOLEAN /\ Trace(t, shift, wire, sure)
    BY <1>3
  <2>2. (sure /\ ~up) => charcode(After(t[Len(wire)], k, up), Index[k]) = m
    BY <1>5
  <2> HIDE DEF sure
  <2>3. /\ wire \o Bytes(k, up, m) \in Seq(WireBytes)
        /\ \E u : /\ Trace(u, shift, wire \o Bytes(k, up, m), sure)
                  /\ u[Len(wire \o Bytes(k, up, m))] = After(t[Len(wire)], k, up)
    BY SMTT(30), <1>2, <1>4, <2>1, <2>2, SendTrace
  <2> QED
    BY <1>6, <2>3 DEF sure
<1>8. \E u : Trace(u, shift', wire', ~odd') /\ Agrees(u[Len(wire')], held', caps', ~odd')
  BY SMTT(30), <1>5, <1>7
<1>9. ~odd' => accepted' = meant'
  BY <1>6 DEF WireInv
<1> QED
  BY SMTT(30), <1>7, <1>8, <1>9 DEF WireInv

LEMMA PressWire == ASSUME IInv, WireInv, NEW k \in Keys, Press(k) PROVE WireInv'
<1> DEFINE m == charcode(FlagsOf(held', caps'), Index[k])
<1>1. /\ Send(k, FALSE, m) /\ held' = held \cup {k} /\ caps' = (caps /= (k = "capslk"))
      /\ odd' = (odd \/ shiftcode(Index[k]) \cap FlagsOf(held, FALSE) /= {})
      /\ held \subseteq Keys /\ caps \in BOOLEAN /\ odd \in BOOLEAN
  BY Zenon DEF Press, IInv, TypeOK
<1>2. m \in Chars \cup {"NO"}
  BY DEF charcode, Chars
<1>3. ASSUME ~odd' PROVE Apart(held')
  <2>1. Apart(held) /\ shiftcode(Index[k]) \cap FlagsOf(held, FALSE) = {}
    BY Zenon, <1>1, <1>3 DEF WireInv
  <2>2. \A j \in held : shiftcode(Index[k]) \cap shiftcode(Index[j]) = {}
    BY <2>1 DEF FlagsOf
  <2> QED
    BY <1>1, <2>1, <2>2 DEF Apart
<1>4. ASSUME NEW e, Agrees(e, held, caps, ~odd)
      PROVE  /\ Agrees(After(e, k, FALSE), held', caps', ~odd')
             /\ ~odd' => charcode(After(e, k, FALSE), Index[k]) = m
  <2>1. Agrees(e, held, caps, ~odd')
    BY Zenon, <1>1, <1>4 DEF Agrees
  <2>2. Agrees(After(e, k, FALSE), held \cup {k}, caps /= (k = "capslk"), ~odd')
    <3> DEFINE sure == ~odd'
    <3>1. sure \in BOOLEAN /\ Agrees(e, held, caps, sure) /\ caps \in BOOLEAN
      BY Zenon, <1>1, <2>1
    <3> HIDE DEF sure
    <3>2. Agrees(After(e, k, FALSE), held \cup {k}, caps /= (k = "capslk"), sure)
      BY <3>1, PressAgrees, Zenon
    <3> QED
      BY Zenon, <3>2 DEF sure
  <2>3. Agrees(After(e, k, FALSE), held', caps', ~odd')
    BY Zenon, <1>1, <2>2
  <2> QED
    BY Zenon, <2>3 DEF Agrees
<1>5. odd' \in BOOLEAN /\ (~odd' => ~odd)
  BY Zenon, <1>1
<1> HIDE DEF m
<1> QED
  BY Zenon, <1>1, <1>2, <1>3, <1>4, <1>5, SendInv

LEMMA RepeatWire == ASSUME IInv, WireInv, NEW k \in Keys, Repeat(k) PROVE WireInv'
<1> DEFINE m == charcode(FlagsOf(held, caps), Index[k])
<1>1. /\ Send(k, FALSE, m) /\ UNCHANGED <<held, caps>> /\ k \in held
      /\ odd' = (odd \/ k = "capslk")
      /\ held \subseteq Keys /\ caps \in BOOLEAN /\ odd \in BOOLEAN
  BY Zenon DEF Repeat, IInv, TypeOK
<1>2. m \in Chars \cup {"NO"}
  BY DEF charcode, Chars
<1>3. odd' \in BOOLEAN /\ (~odd' => ~odd) /\ (~odd' => k /= "capslk")
  BY Zenon, <1>1
<1>4. ~odd' => Apart(held')
  BY <1>1, <1>3 DEF WireInv
<1>5. ASSUME NEW e, Agrees(e, held, caps, ~odd)
      PROVE  /\ Agrees(After(e, k, FALSE), held', caps', ~odd')
             /\ ~odd' => charcode(After(e, k, FALSE), Index[k]) = m
  <2> DEFINE sure == ~odd'
  <2>1. /\ sure \in BOOLEAN /\ caps \in BOOLEAN /\ (sure => k /= "capslk") /\ k \in held
        /\ Agrees(e, held, caps, sure)
    BY Zenon, <1>1, <1>3, <1>5 DEF Agrees
  <2> HIDE DEF sure
  <2>2. Agrees(After(e, k, FALSE), held, caps, sure)
    BY <2>1, RepeatAgrees, Zenon
  <2>3. sure => After(e, k, FALSE) = FlagsOf(held, caps)
    BY Zenon, <2>2 DEF Agrees
  <2> QED
    BY Zenon, <1>1, <2>2, <2>3 DEF sure
<1> HIDE DEF m
<1> QED
  BY Zenon, <1>1, <1>2, <1>3, <1>4, <1>5, SendInv

LEMMA ReleaseWire == ASSUME IInv, WireInv, NEW k \in Keys, Release(k) PROVE WireInv'
<1>1. /\ Send(k, TRUE, "NO") /\ held' = held \ {k} /\ k \in held /\ UNCHANGED <<caps, odd>>
      /\ held \subseteq Keys /\ caps \in BOOLEAN /\ odd \in BOOLEAN
  BY Zenon DEF Release, IInv, TypeOK
<1>2. ~odd' => Apart(held')
  BY <1>1 DEF WireInv, Apart
<1>3. ASSUME NEW e, Agrees(e, held, caps, ~odd)
      PROVE  Agrees(After(e, k, TRUE), held', caps', ~odd')
  <2>1. Agrees(After(e, k, TRUE), held \ {k}, caps, ~odd)
    <3> DEFINE sure == ~odd
    <3>1. /\ sure \in BOOLEAN /\ caps \in BOOLEAN /\ (sure => Apart(held))
          /\ Agrees(e, held, caps, sure)
      BY <1>1, <1>3 DEF WireInv
    <3> HIDE DEF sure
    <3>2. Agrees(After(e, k, TRUE), held \ {k}, caps, sure)
      BY <1>1, <3>1, ReleaseAgrees, Zenon
    <3> QED
      BY Zenon, <3>2 DEF sure
  <2> QED
    BY Zenon, <1>1, <2>1
<1> QED
  BY Zenon, <1>1, <1>2, <1>3, SendInv

LEMMA InterruptWire == ASSUME IInv, WireInv, Interrupt PROVE WireInv'
<1>1. PICK t : Trace(t, shift, wire, ~odd) /\ Agrees(t[Len(wire)], held, caps, ~odd)
  BY DEF WireInv
<1> DEFINE sure == ~odd
           g == kbd_getch(shift, Head(wire))
<1>2. /\ wire \in Seq(WireBytes) /\ wire /= <<>> /\ sure \in BOOLEAN
      /\ wire' = Tail(wire) /\ shift' = g.shift /\ UNCHANGED <<held, caps, odd>>
  BY DEF WireInv, Interrupt, userVars
<1>3. /\ Tail(wire) \in Seq(WireBytes)
      /\ sure => g.c \in {"NO", Head(wire).mean}
      /\ \E u : Trace(u, g.shift, Tail(wire), sure) /\ u[Len(Tail(wire))] = t[Len(wire)]
  <2>1. Trace(t, shift, wire, sure)
    BY <1>1
  <2>2. wire \in Seq(WireBytes) /\ wire /= <<>> /\ sure \in BOOLEAN
    BY <1>2
  <2> HIDE DEF sure
  <2> QED
    BY ONLY <2>1, <2>2, TraceTail
<1>4. wire' \in Seq(WireBytes)
  BY SMTT(30), <1>2, <1>3
<1>5. \E u : Trace(u, shift', wire', ~odd') /\ Agrees(u[Len(wire')], held', caps', ~odd')
  BY <1>1, <1>2, <1>3
<1>6. ~odd' => accepted' = meant'
  <2>1. CASE g.c /= "NO" /\ HasRoom
    <3>1. accepted' = Append(accepted, g.c) /\ meant' = Append(meant, Head(wire).mean)
      BY <2>1 DEF Interrupt
    <3> HIDE DEF g
    <3> QED
      BY <1>2, <1>3, <2>1, <3>1 DEF WireInv
  <2>2. CASE ~(g.c /= "NO" /\ HasRoom)
    <3>1. UNCHANGED <<accepted, meant>>
      BY <2>2 DEF Interrupt
    <3> QED
      BY <1>2, <3>1 DEF WireInv
  <2> QED
    BY <2>1, <2>2
<1>7. ~odd' => Apart(held')
  BY <1>2 DEF WireInv
<1> QED
  BY <1>4, <1>5, <1>6, <1>7 DEF WireInv

LEMMA InitWire == Init => WireInv
<1> SUFFICES ASSUME Init PROVE WireInv
  OBVIOUS
<1> DEFINE t == [i \in 0 .. 0 |-> {}]
<1>1. shift = {} /\ wire = <<>> /\ held = {} /\ caps = FALSE /\ accepted = meant
  BY DEF Init
<1>2. Len(wire) = 0 /\ wire \in Seq(WireBytes) /\ t[0] = {}
  BY <1>1
<1>3. Trace(t, shift, wire, ~odd)
  BY <1>1, <1>2 DEF Trace
<1>4. Agrees({}, held, caps, ~odd)
  BY <1>1 DEF Agrees, FlagsOf
<1>5. Apart(held)
  BY <1>1 DEF Apart
<1> HIDE DEF t
<1> QED
  BY Zenon, <1>1, <1>2, <1>3, <1>4, <1>5 DEF WireInv

LEMMA NextWire == IInv /\ WireInv /\ [Next]_vars => WireInv'
<1> SUFFICES ASSUME IInv, WireInv, [Next]_vars PROVE WireInv'
  OBVIOUS
<1>1. ASSUME UNCHANGED <<shift, wire, held, caps, odd, accepted, meant>> PROVE WireInv'
  BY <1>1 DEF WireInv
<1>2. ASSUME NEW p \in Procs, NEW n \in ReadSizes, SysRead(p, n) PROVE WireInv'
  BY <1>1, <1>2 DEF SysRead, userVars
<1>3. ASSUME NEW p \in Procs, Exit(p) PROVE WireInv'
  BY <1>1, <1>3 DEF Exit, userVars
<1>4. ASSUME NEW p \in Procs, Start(p) PROVE WireInv'
  BY <1>1, <1>4 DEF Start, kbdVars, userVars
<1>5. CASE UNCHANGED vars
  BY <1>1, <1>5 DEF vars, kbdVars, userVars
<1> QED
  BY <1>2, <1>3, <1>4, <1>5, PressWire, RepeatWire, ReleaseWire, InterruptWire DEF Next

(* The flags kbd_getch() will have after the bytes on the wire always      *)
(* agree with the keyboard.                                                *)
THEOREM WireInvariance == Spec => []WireInv
BY InitWire, NextWire, Invariance, PTL DEF Spec

(* When the controller has delivered every byte, kbd_getch() remembers no  *)
(* E0 escape and no modifier whose keys are all up, whatever the ring and  *)
(* the readers did in between.                                             *)
THEOREM ModifiersReleased == Spec => []NoStuckModifier
<1>1. WireInv => NoStuckModifier
  <2> SUFFICES ASSUME WireInv, wire = <<>>
               PROVE  shift \ {"CAPSLOCK"} \subseteq FlagsOf(held, FALSE)
    BY Zenon DEF NoStuckModifier
  <2>1. PICK t : Trace(t, shift, wire, ~odd) /\ Agrees(t[Len(wire)], held, caps, ~odd)
    BY DEF WireInv
  <2>2. t[Len(wire)] = shift
    BY <2>1 DEF Trace
  <2> QED
    BY Zenon, <2>1, <2>2 DEF Agrees
<1> QED
  BY <1>1, WireInvariance, PTL

(* The stored characters are the ones that were meant, as long as no two   *)
(* keys with one flag were down together and caps lock did not repeat: for *)
(* every ring, every length of the wire and every number of key events.    *)
THEOREM CharactersMeant == Spec => []MeaningKept
<1>1. WireInv => MeaningKept
  BY DEF WireInv, MeaningKept
<1> QED
  BY <1>1, WireInvariance, PTL

=============================================================================
