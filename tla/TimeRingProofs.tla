--------------------------- MODULE TimeRingProofs ---------------------------
(***************************************************************************)
(* What the three index macros give, for every ring size.  The definitions *)
(* use % by a constant, of which the provers know little: DivMod, Lap and  *)
(* Quotient are the arithmetic, the rest is about the macros.              *)
(***************************************************************************)
EXTENDS TimeRing, Sequences, TLAPS

\* The division of a second by the ring's size.
LEMMA DivMod ==
  \A a \in Nat : /\ a = TIME_INDEX * (a \div TIME_INDEX) + (a % TIME_INDEX)
                 /\ a % TIME_INDEX \in TimeSlots
                 /\ a \div TIME_INDEX \in Nat
  BY TimeIndexAssumption, SMT DEF TimeSlots

\* One lap at least is a whole ring.
LEMMA Lap == \A k \in Nat : k >= 1 => TIME_INDEX * k >= TIME_INDEX
  BY TimeIndexAssumption, SMT

\* A remainder is determined by its range.
LEMMA Remainder ==
  ASSUME NEW q \in Nat, NEW rem \in TimeSlots, NEW a \in Nat, a = TIME_INDEX * q + rem
  PROVE  a % TIME_INDEX = rem
  BY TimeIndexAssumption, SMT DEF TimeSlots

\* Two different seconds less than a lap apart have different slots.
THEOREM SlotsApart ==
  ASSUME NEW a \in Nat, NEW b \in Nat, a < b, b < a + TIME_INDEX
  PROVE  ReadTimeIndex(a) # ReadTimeIndex(b)
<1> SUFFICES ASSUME a % TIME_INDEX = b % TIME_INDEX PROVE FALSE
  BY DEF ReadTimeIndex
<1> DEFINE p == a \div TIME_INDEX
           q == b \div TIME_INDEX
<1>1. /\ a = TIME_INDEX * p + (a % TIME_INDEX) /\ p \in Nat
      /\ b = TIME_INDEX * q + (b % TIME_INDEX) /\ q \in Nat
      /\ a % TIME_INDEX \in Nat
  BY DivMod DEF TimeSlots
<1> HIDE DEF p, q
<1>2. TIME_INDEX * q - TIME_INDEX * p = b - a
  BY <1>1, TimeIndexAssumption, SMT
<1>3. CASE q <= p
  BY <1>1, <1>2, <1>3, TimeIndexAssumption, SMT
<1>4. CASE q >= p + 1
  BY <1>1, <1>2, <1>4, TimeIndexAssumption, SMT
<1> QED
  BY <1>1, <1>3, <1>4

\* A second's slot is a slot.
LEMMA ReadInRange == \A sec \in Nat : ReadTimeIndex(sec) \in TimeSlots
  BY DivMod DEF ReadTimeIndex

\* The successor of a second's slot, wrapped, is the next second's slot.
LEMMA WrapIsNext ==
  ASSUME NEW sec \in Nat
  PROVE  (sec + 1) % TIME_INDEX =
           IF (sec % TIME_INDEX) + 1 >= TIME_INDEX THEN 0 ELSE (sec % TIME_INDEX) + 1
<1> DEFINE q == sec \div TIME_INDEX
           rem == sec % TIME_INDEX
<1>1. sec = TIME_INDEX * q + rem /\ q \in Nat /\ rem \in TimeSlots
  BY DivMod
<1> HIDE DEF q, rem
<1>2. CASE rem + 1 >= TIME_INDEX
  <2>1. sec + 1 = TIME_INDEX * (q + 1) + 0
    BY <1>1, <1>2, TimeIndexAssumption, SMT DEF TimeSlots
  <2>2. 0 \in TimeSlots /\ q + 1 \in Nat /\ sec + 1 \in Nat
    BY <1>1, TimeIndexAssumption, SMT DEF TimeSlots
  <2>3. (sec + 1) % TIME_INDEX = 0
    BY <2>1, <2>2, Remainder
  <2> QED
    BY <2>3, <1>2 DEF rem
<1>3. CASE ~(rem + 1 >= TIME_INDEX)
  <2>1. /\ sec + 1 = TIME_INDEX * q + (rem + 1)
        /\ rem + 1 \in TimeSlots /\ sec + 1 \in Nat
    BY <1>1, <1>3, TimeIndexAssumption, SMT DEF TimeSlots
  <2>2. (sec + 1) % TIME_INDEX = rem + 1
    BY <2>1, <1>1, Remainder
  <2> QED
    BY <2>2, <1>3 DEF rem
<1> QED
  BY <1>2, <1>3

\* PKT_WRITE_TIME_INDEX is the slot a consumer meets one second later.
THEOREM WriteIsReadNext ==
  \A sec \in Nat : /\ WriteTimeIndex(sec) = ReadTimeIndex(sec + 1)
                   /\ WriteTimeIndex(sec) \in TimeSlots
  BY WrapIsNext, ReadInRange DEF WriteTimeIndex, WriteIndex, ReadTimeIndex

\* Whatever the macro reads, the place it leads to is in the column of the slot
\* of the second it read last: only the row can be wrong.
THEOREM ColumnOfLastRead ==
  ASSUME NEW first \in Nat, NEW now \in Nat
  PROVE  LET last == LastRead(first, now)
         IN  /\ WriteIndex(first, last) \in WriteIndices
             /\ ColumnOf(WriteIndex(first, last)) = WriteTimeIndex(last)
<1>1. first % TIME_INDEX \in TimeSlots /\ now % TIME_INDEX \in TimeSlots
  BY DivMod
<1>2. CASE ReadsAgain(first)
  BY <1>1, <1>2, TimeIndexAssumption, SMT
     DEF ReadsAgain, LastRead, WriteIndex, WriteTimeIndex, WriteIndices, ColumnOf, TimeSlots
<1>3. CASE ~ReadsAgain(first)
  BY <1>1, <1>3, TimeIndexAssumption, SMT
     DEF ReadsAgain, LastRead, WriteIndex, WriteTimeIndex, WriteIndices, ColumnOf, TimeSlots
<1> QED
  BY <1>2, <1>3

\* Read once, the macro's argument gives a slot.
LEMMA ReadOnce ==
  ASSUME NEW sec \in Nat
  PROVE  /\ WriteIndex(sec, sec) = WriteTimeIndex(sec)
         /\ WriteIndex(sec, sec) \in TimeSlots /\ WriteIndex(sec, sec) \in WriteIndices
         /\ ColumnOf(WriteIndex(sec, sec)) = WriteTimeIndex(sec)
<1>1. WriteTimeIndex(sec) \in TimeSlots
  BY WriteIsReadNext
<1> QED
  BY <1>1, TimeIndexAssumption DEF WriteTimeIndex, WriteIndices, ColumnOf, TimeSlots

\* PKT_READ_NEXT_TIME_INDEX walks the ring as the clock does.
THEOREM NextFollowsClock ==
  \A sec \in Nat : ReadNextTimeIndex(ReadTimeIndex(sec)) = ReadTimeIndex(sec + 1)
  BY WrapIsNext DEF ReadNextTimeIndex, ReadTimeIndex

\* The walk never leaves the ring.
LEMMA NextInRange == \A idx \in TimeSlots : ReadNextTimeIndex(idx) \in TimeSlots
  BY TimeIndexAssumption DEF ReadNextTimeIndex, TimeSlots

\* A lap later a second has the same slot again.
LEMMA SameSlotNextLap ==
  ASSUME NEW sec \in Nat PROVE ReadTimeIndex(sec + TIME_INDEX) = ReadTimeIndex(sec)
<1> DEFINE k == sec \div TIME_INDEX
           rem == sec % TIME_INDEX
<1>1. sec = TIME_INDEX * k + rem /\ k \in Nat /\ rem \in TimeSlots
  BY DivMod
<1> HIDE DEF k, rem
<1>2. sec + TIME_INDEX = TIME_INDEX * (k + 1) + rem /\ sec + TIME_INDEX \in Nat /\ k + 1 \in Nat
  BY <1>1, TimeIndexAssumption, SMT DEF TimeSlots
<1>3. (sec + TIME_INDEX) % TIME_INDEX = rem
  BY <1>1, <1>2, Remainder
<1> QED
  BY <1>3 DEF ReadTimeIndex, rem

-----------------------------------------------------------------------------
(* A ring as a queue.  A cell is a record of a slot, known by the second of *)
(* the slot and by the record's index in it.                                *)
Cell == Nat \X Nat

Before(c, d) == c[1] < d[1] \/ (c[1] = d[1] /\ c[2] < d[2])

IsFirst(f, cells) == f \in cells /\ \A c \in cells : c = f \/ Before(f, c)

\* The cells hold, in their order, the items taken in and not yet given out.
\* An item's id is its position among those taken in.
HoldsQueue(items, cells, rec, taken, given) ==
  /\ cells \subseteq Cell /\ taken \in Seq(items) /\ given \in Seq(items)
  /\ Len(given) <= Len(taken)
  /\ \A n \in 1 .. Len(taken) : taken[n].id = n
  /\ \A c \in cells : /\ rec[c].id \in Len(given) + 1 .. Len(taken)
                       /\ taken[rec[c].id] = rec[c]
  /\ \A c, d \in cells : Before(c, d) => rec[c].id < rec[d].id
  /\ \A n \in Len(given) + 1 .. Len(taken) : \E c \in cells : rec[c].id = n

\* The item to be given out next.
NextOut(taken, given) == taken[Len(given) + 1]

\* What the cells hold is what the records in them say.
LEMMA SameQueue ==
  ASSUME NEW items, NEW cells, NEW rec, NEW other, NEW taken, NEW given,
         HoldsQueue(items, cells, rec, taken, given), \A c \in cells : other[c] = rec[c]
  PROVE  HoldsQueue(items, cells, other, taken, given)
  BY Zenon DEF HoldsQueue

\* An item put after all the others is the last of the queue.
LEMMA PutLast ==
  ASSUME NEW items, NEW cells, NEW rec, NEW taken, NEW given,
         HoldsQueue(items, cells, rec, taken, given),
         NEW w \in Cell, \A c \in cells : Before(c, w),
         rec[w] \in items, rec[w].id = Len(taken) + 1
  PROVE  HoldsQueue(items, cells \cup {w}, rec, Append(taken, rec[w]), given)
<1> DEFINE x == rec[w]
           more == Append(taken, x)
           all == cells \cup {w}
<1>1. /\ Len(taken) \in Nat /\ Len(given) \in Nat /\ Len(more) = Len(taken) + 1
      /\ \A n \in 1 .. Len(taken) : more[n] = taken[n]
      /\ more[Len(taken) + 1] = x /\ more \in Seq(items)
  BY DEF HoldsQueue
<1> HIDE DEF more
<1>2. \A n \in 1 .. Len(more) : more[n].id = n
  BY <1>1 DEF HoldsQueue
<1>3. ASSUME NEW c \in all
      PROVE  rec[c].id \in Len(given) + 1 .. Len(more) /\ more[rec[c].id] = rec[c]
  BY <1>1, <1>3 DEF HoldsQueue
<1>4. ASSUME NEW c \in all, NEW d \in all, Before(c, d)
      PROVE  rec[c].id < rec[d].id
  <2>1. CASE c \in cells /\ d \in cells
    BY <1>4, <2>1 DEF HoldsQueue
  <2>2. CASE c \in cells /\ d = w
    BY <1>1, <2>2 DEF HoldsQueue
  <2>3. CASE c = w
    <3>1. w[1] \in Nat /\ w[2] \in Nat
      BY DEF Cell
    <3>2. d \in cells => d[1] \in Nat /\ d[2] \in Nat /\ Before(d, w)
      BY DEF HoldsQueue, Cell
    <3> QED
      BY <1>4, <2>3, <3>1, <3>2 DEF Before
  <2> QED
    BY <2>1, <2>2, <2>3
<1>5. ASSUME NEW n \in Len(given) + 1 .. Len(more)
      PROVE  \E c \in all : rec[c].id = n
  BY <1>1 DEF HoldsQueue
<1> QED
  BY <1>1, <1>2, <1>3, <1>4, <1>5 DEF HoldsQueue, more

\* The item in the first cell is the head of the queue: given out, it is the
\* one that was taken in next.
LEMMA TakeFirst ==
  ASSUME NEW items, NEW cells, NEW rec, NEW taken, NEW given,
         HoldsQueue(items, cells, rec, taken, given),
         NEW f, IsFirst(f, cells)
  PROVE  /\ Len(given) < Len(taken)
         /\ rec[f] = NextOut(taken, given)
         /\ HoldsQueue(items, cells \ {f}, rec, taken, Append(given, rec[f]))
<1> DEFINE more == Append(given, rec[f])
<1>1. /\ Len(taken) \in Nat /\ Len(given) \in Nat /\ f \in cells
      /\ taken \in Seq(items) /\ given \in Seq(items)
  BY DEF IsFirst, HoldsQueue
<1>2. /\ rec[f].id \in Len(given) + 1 .. Len(taken) /\ taken[rec[f].id] = rec[f]
      /\ Len(given) < Len(taken)
  BY <1>1 DEF HoldsQueue
<1>3. rec[f].id = Len(given) + 1
  <2>1. PICK c \in cells : rec[c].id = Len(given) + 1
    BY <1>1, <1>2 DEF HoldsQueue
  <2>2. CASE c = f
    BY <2>1, <2>2
  <2>3. CASE Before(f, c)
    <3>1. rec[f].id < rec[c].id
      BY <1>1, <2>3 DEF HoldsQueue
    <3> QED
      BY <1>1, <1>2, <2>1, <3>1
  <2> QED
    BY <2>2, <2>3 DEF IsFirst
<1>4. rec[f] \in items
  BY <1>1, <1>2
<1>5. more \in Seq(items) /\ Len(more) = Len(given) + 1
  BY <1>1, <1>4
<1> HIDE DEF more
<1>6. ASSUME NEW c \in cells \ {f}
      PROVE  rec[c].id \in Len(more) + 1 .. Len(taken) /\ taken[rec[c].id] = rec[c]
  <2>1. rec[f].id < rec[c].id
    BY <1>1, <1>6 DEF HoldsQueue, IsFirst
  <2>2. rec[c].id \in Len(given) + 1 .. Len(taken) /\ taken[rec[c].id] = rec[c]
    BY DEF HoldsQueue
  <2> QED
    BY <1>1, <1>3, <1>5, <2>1, <2>2
<1>7. ASSUME NEW n \in Len(more) + 1 .. Len(taken)
      PROVE  \E c \in cells \ {f} : rec[c].id = n
  <2>1. PICK c \in cells : rec[c].id = n
    BY <1>1, <1>5 DEF HoldsQueue
  <2> QED
    BY <1>1, <1>3, <1>5, <2>1
<1>8. HoldsQueue(items, cells \ {f}, rec, taken, more)
  BY <1>1, <1>2, <1>5, <1>6, <1>7 DEF HoldsQueue
<1> QED
  BY <1>2, <1>3, <1>8 DEF more, NextOut

=============================================================================
