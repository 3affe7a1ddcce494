------------------------------ MODULE TimeRing ------------------------------
(***************************************************************************)
(* The arithmetic of the ten-slot time rings.                              *)
(*                                                                         *)
(* Packets travel from a network listener to a PacketRouter, and messages  *)
(* from a PacketRouter to an agent, through arrays indexed by              *)
(* [interface][router][time index].  The time index is the epoch second    *)
(* modulo TIME_INDEX: a producer writes one slot AHEAD of the clock, a     *)
(* consumer drains every slot BEHIND it, and nothing else keeps the two    *)
(* apart.  These are the three macros of core/inc/IPGlobal.h.              *)
(***************************************************************************)
EXTENDS Integers

CONSTANT TIME_INDEX        \* IPGlobal::TIME_INDEX, 10 in the program

ASSUME TimeIndexAssumption == TIME_INDEX \in Nat /\ TIME_INDEX >= 2

TimeSlots == 0 .. TIME_INDEX - 1

\* What a write index can be.
WriteIndices == 0 .. TIME_INDEX

\* The arrays are [router][time index]: to use index TIME_INDEX of a router is
\* to use slot 0 of the next one.
RowOf(r, idx) == IF idx = TIME_INDEX THEN r + 1 ELSE r
ColumnOf(idx) == IF idx = TIME_INDEX THEN 0 ELSE idx

\* PKT_WRITE_TIME_INDEX without its "+ 1": the producer would use the slot of
\* the current second.
NoGapWriteIndex(first, second) == second % TIME_INDEX

\* PKT_WRITE_TIME_INDEX names its argument twice: the second it tests need not
\* be the second it uses.  If the last second of a lap begins in between, the
\* result is TIME_INDEX, which is no slot.
WriteIndex(first, second) ==
  IF (first % TIME_INDEX) + 1 >= TIME_INDEX THEN 0 ELSE (second % TIME_INDEX) + 1

\* The slot a producer fills during second sec, if it reads the clock once.
WriteTimeIndex(sec) == WriteIndex(sec, sec)

\* Whether the macro, having read first, reads its argument again.
ReadsAgain(first) == (first % TIME_INDEX) + 1 < TIME_INDEX

\* What it has read last, when the argument has become now.
LastRead(first, now) == IF ReadsAgain(first) THEN now ELSE first

\* A consumer that does not leave the producer its slot.
EagerReadTimeIndex(sec) == (sec + 1) % TIME_INDEX

\* PKT_READ_TIME_INDEX: the slot at which a consumer stops in second sec.
ReadTimeIndex(sec) == sec % TIME_INDEX

\* PKT_READ_NEXT_TIME_INDEX: the slot a consumer drains after idx.
ReadNextTimeIndex(idx) == IF idx + 1 >= TIME_INDEX THEN 0 ELSE idx + 1

=============================================================================
