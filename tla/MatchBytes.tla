---------------------------- MODULE MatchBytes ----------------------------
(***************************************************************************)
(* Bytes of a text, compared and hashed, as the match finders do it        *)
(* (finder.rs, ldm.rs, v7_encode.rs, v7_ultra.rs). Positions count from 0. *)
(***************************************************************************)
EXTENDS Integers, Sequences

Least(a, b) == IF a < b THEN a ELSE b
Most(a, b) == IF a > b THEN a ELSE b
Least3(a, b, c) == Least(a, Least(b, c))

BytesAt(text, pos, n) == SubSeq(text, pos + 1, pos + n)

\* `prefix`: how many bytes agree, of s from a and of t from b, at most max.
RECURSIVE prefix(_, _, _, _, _)
prefix(s, a, t, b, max) ==
  IF max > 0 /\ s[a + 1] = t[b + 1] THEN 1 + prefix(s, a + 1, t, b + 1, max - 1) ELSE 0

\* The same before a and b.
RECURSIVE Back(_, _, _, _, _)
Back(s, a, t, b, room) ==
  IF room > 0 /\ s[a] = t[b] THEN 1 + Back(s, a - 1, t, b - 1, room - 1) ELSE 0

\* A hash: whatever it is, it is the same for the same bytes.
RECURSIVE Mix(_, _)
Mix(bytes, seed) == IF bytes = <<>> THEN seed ELSE Mix(Tail(bytes), 3 * seed + Head(bytes))
Hash(bytes, range) == Mix(bytes, 1) % range

\* A copy of n bytes from a distance in what is there, byte by byte.
RECURSIVE CopyBack(_, _, _)
CopyBack(out, offset, n) ==
  IF n = 0 THEN out ELSE CopyBack(Append(out, out[Len(out) + 1 - offset]), offset, n - 1)
=============================================================================
