---------------------------- MODULE CharStrings -----------------------------
(***************************************************************************)
(* The string instructions (prototype-integrator: src/funcs.c) as          *)
(* operators on memory, and what they mean as operators on texts.          *)
(*                                                                         *)
(* A string is the characters from an address up to a zero or the end of   *)
(* memory.  memcpy is undefined when its regions overlap: the outcomes are *)
(* those of a copy that reads all before it writes, of one that goes       *)
(* forward and of one that goes backward.  Each instruction returns the    *)
(* set of the memories it may leave.                                       *)
(***************************************************************************)
EXTENDS Words, SequencesExt

Remaining(a) == IF a >= MemBytes THEN 0 ELSE MemBytes - a

StrLen(m, a) ==
  Min({i \in 0 .. Remaining(a) : i = Remaining(a) \/ m[a + i] = 0})

(* The bytes dest .. dest + n - 1 replaced by those that from(k) gives.    *)
Fill(m, dest, n, from(_)) ==
  [x \in DOMAIN m |-> IF x \in dest .. dest + n - 1 THEN m[from(x - dest)]
                                                    ELSE m[x]]

Move(m, dest, src, n) == Fill(m, dest, n, LAMBDA k : src + k)

MemCpy(m, dest, src, n) ==
  {Move(m, dest, src, n)} \cup
  IF dest < src + n /\ src < dest + n /\ dest # src
  THEN LET gap == IF dest > src THEN dest - src ELSE src - dest
       IN  {Fill(m, dest, n, LAMBDA k :
                   IF dest > src THEN src + (k % gap)
                                 ELSE src + n - 1 - ((n - 1 - k) % gap))}
  ELSE {}

SafeMove(m, dest, src, n) ==
  Move(m, dest, src, Min({n, Remaining(dest), Remaining(src)}))

SetNull(m, a) == IF a \in DOMAIN m THEN [m EXCEPT ![a] = 0] ELSE m

(* Characters for which there is room, with a zero after the longer text.  *)
Room(m, dest) ==
  IF Remaining(dest) > StrLen(m, dest) THEN Remaining(dest) - StrLen(m, dest) - 1
                                       ELSE 0

-----------------------------------------------------------------------------
InMemory(a) == a < MemBytes

op_concat(m, dest, src) ==
  LET at == dest + StrLen(m, dest)
      n == Min({StrLen(m, src), Room(m, dest)})
  IN  IF InMemory(dest) /\ InMemory(src)
      THEN {SetNull(c, at + n) : c \in MemCpy(m, at, src, n)} ELSE {m}

op_left(m, a, n) ==
  IF InMemory(a) /\ n < StrLen(m, a) THEN {SetNull(m, a + n)} ELSE {m}

op_right(m, a, n) ==
  IF InMemory(a) /\ n < StrLen(m, a)
  THEN {SetNull(SafeMove(m, a, a + StrLen(m, a) - n, n), a + n)} ELSE {m}

op_mid(m, a, start) ==
  IF ~InMemory(a) THEN {m}
  ELSE IF start >= StrLen(m, a) THEN {SetNull(m, a)}
  ELSE LET n == StrLen(m, a) - start
       IN  {SetNull(SafeMove(m, a, a + start, n), a + n)}

(* The zero at the end is not moved.                                       *)
F_op_insert_unterminated(m, dest, src, pos) ==
  LET p == Min({pos, StrLen(m, dest)})
      n == Min({StrLen(m, src), Room(m, dest)})
  IN  IF InMemory(dest) /\ InMemory(src) /\ n > 0
      THEN MemCpy(Move(m, dest + p + n, dest + p, StrLen(m, dest) - p),
                  dest + p, src, n)
      ELSE {m}

op_insert(m, dest, src, pos) ==
  LET p == Min({pos, StrLen(m, dest)})
      n == Min({StrLen(m, src), Room(m, dest)})
  IN  IF InMemory(dest) /\ InMemory(src) /\ n > 0
      THEN MemCpy(Move(m, dest + p + n, dest + p, StrLen(m, dest) - p + 1),
                  dest + p, src, n)
      ELSE {m}

op_delete(m, a, pos, n) ==
  LET len == StrLen(m, a)
      k == Min({n, len - pos})
  IN  IF InMemory(a) /\ pos < len
      THEN {SafeMove(m, a + pos, a + pos + k, len - pos - k + 1)} ELSE {m}

(* Characters are taken out at pos, and as many put in.                    *)
op_replace(m, a, src, pos) ==
  LET len == StrLen(m, a)
      n == Min({StrLen(m, src), len - pos})
      cut == SafeMove(m, a + pos, a + pos + n, len - pos - n + 1)
      k == Min({n, Room(cut, a)})
  IN  IF ~InMemory(a) \/ ~InMemory(src) \/ pos > len THEN {m}
      ELSE IF k = 0 THEN {cut}
      ELSE MemCpy(Move(cut, a + pos + k, a + pos, StrLen(cut, a) - pos + 1),
                  a + pos, src, k)

-----------------------------------------------------------------------------
(* The same as operators on texts; a text that would not fit in room       *)
(* characters is cut off where it is put in.                               *)

TextAt(m, a) == [k \in 1 .. StrLen(m, a) |-> m[a + k - 1]]

Take(t, n) == SubSeq(t, 1, Min({n, Len(t)}))
Drop(t, n) == SubSeq(t, Min({n, Len(t)}) + 1, Len(t))

Joined(t, u, room) == t \o Take(u, room)
Inserted(t, u, p, room) == Take(t, p) \o Take(u, room) \o Drop(t, p)
Deleted(t, p, n) == Take(t, p) \o Drop(t, p + n)
Overwritten(t, u, p) ==
  IF p > Len(t) THEN t
  ELSE LET v == Take(u, Len(t) - p) IN Take(t, p) \o v \o Drop(t, p + Len(v))
=============================================================================
