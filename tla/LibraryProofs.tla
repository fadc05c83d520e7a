---------------------------- MODULE LibraryProofs ----------------------------
(***************************************************************************)
(* Proofs about the library as it is delivered: the check of the versions  *)
(* it is compiled with is right whatever the versions and the bounds, for  *)
(* packed versions compare like versions; its contract test passes for all *)
(* sizes and numbers of rounds; and each of the fixed fifos implements the *)
(* bounded fifo of the capacity in its name.                               *)
(***************************************************************************)
EXTENDS VersionCheck, Contract, SequenceTheorems, TLAPS

-----------------------------------------------------------------------------
(* The version check.                                                      *)

(* The parts of a version are numbers in their ranges.                     *)
LEMMA PartsInRange ==
  ASSUME NEW v \in AllVersions
  PROVE  /\ v = << v[1], v[2], v[3] >>
         /\ v[1] \in Wide /\ v[2] \in Wide /\ v[3] \in Narrow
BY SMT DEF AllVersions

(* The arithmetic, on the parts themselves.                                *)
LEMMA PackFits ==
  ASSUME NEW a \in Wide, NEW b \in Wide, NEW c \in Narrow
  PROVE  Pack(a, b, c) \in Nat /\ Pack(a, b, c) <= 4294967295
BY SMT DEF Pack, Wide, Narrow

(* They are compared as one number.                                        *)
LEMMA PackOrder ==
  ASSUME NEW a \in Wide, NEW b \in Wide, NEW c \in Narrow,
         NEW d \in Wide, NEW e \in Wide, NEW f \in Narrow
  PROVE  Pack(a, b, c) < Pack(d, e, f) <=> Before(<< a, b, c >>, << d, e, f >>)
<1>1. /\ a \in 0 .. 4095 /\ b \in 0 .. 4095 /\ c \in 0 .. 255
      /\ d \in 0 .. 4095 /\ e \in 0 .. 4095 /\ f \in 0 .. 255
  BY DEF Wide, Narrow
<1>2. /\ Pack(a, b, c) \in Nat /\ Pack(d, e, f) \in Nat
      /\ a \in Int /\ b \in Int /\ c \in Int /\ d \in Int /\ e \in Int /\ f \in Int
  BY <1>1, PackFits
<1>3. Before(<< a, b, c >>, << d, e, f >>)
        <=> a < d \/ (a = d /\ b < e) \/ (a = d /\ b = e /\ c < f)
  BY DEF Before
<1>4. CASE a < d
  <2>1. Pack(a, b, c) < Pack(d, e, f)
    BY <1>1, <1>4, SMT DEF Pack
  <2> QED
    BY <1>3, <1>4, <2>1
<1>5. CASE d < a
  <2>1. Pack(d, e, f) < Pack(a, b, c)
    BY <1>1, <1>5, SMT DEF Pack
  <2> QED
    BY <1>2, <1>3, <1>5, <2>1
<1>6. CASE a = d /\ b < e
  <2>1. Pack(a, b, c) < Pack(d, e, f)
    BY <1>1, <1>6, SMT DEF Pack
  <2> QED
    BY <1>3, <1>6, <2>1
<1>7. CASE a = d /\ e < b
  <2>1. Pack(d, e, f) < Pack(a, b, c)
    BY <1>1, <1>7, SMT DEF Pack
  <2> QED
    BY <1>2, <1>3, <1>7, <2>1
<1>8. CASE a = d /\ b = e
  <2>1. Pack(a, b, c) < Pack(d, e, f) <=> c < f
    BY <1>1, <1>8, SMT DEF Pack
  <2> QED
    BY <1>2, <1>3, <1>8, <2>1
<1> QED
  BY <1>2, <1>4, <1>5, <1>6, <1>7, <1>8

(* Each part is found again in the number.                                 *)
LEMMA Unpack ==
  ASSUME NEW a \in Wide, NEW b \in Wide, NEW c \in Narrow
  PROVE  /\ Major(Pack(a, b, c)) = a
         /\ Minor(Pack(a, b, c)) = b
         /\ Patch(Pack(a, b, c)) = c
<1>1. a \in 0 .. 4095 /\ b \in 0 .. 4095 /\ c \in 0 .. 255
  BY DEF Wide, Narrow
<1> QED
  BY <1>1, SMTT(30) DEF Pack, Major, Minor, Patch

(* A packed version fits the uint32_t that mulle_fifo_get_version returns. *)
THEOREM FitsUInt32 ==
  \A v \in AllVersions : Encode(v) \in Nat /\ Encode(v) <= 4294967295
BY PartsInRange, PackFits DEF Encode

(* Packed versions are ordered as the versions are: no minor and no patch  *)
(* is large enough to outweigh the part before it.                         *)
THEOREM OrderPreserved ==
  \A v, w \in AllVersions : Encode(v) < Encode(w) <=> Before(v, w)
<1> SUFFICES ASSUME NEW v \in AllVersions, NEW w \in AllVersions
             PROVE  Encode(v) < Encode(w) <=> Before(v, w)
  OBVIOUS
<1>1. v[1] \in Wide /\ v[2] \in Wide /\ v[3] \in Narrow
  BY PartsInRange
<1>2. w[1] \in Wide /\ w[2] \in Wide /\ w[3] \in Narrow
  BY PartsInRange
<1>3. Encode(v) < Encode(w)
        <=> Before(<< v[1], v[2], v[3] >>, << w[1], w[2], w[3] >>)
  BY <1>1, <1>2, PackOrder, Zenon DEF Encode
<1>4. v = << v[1], v[2], v[3] >> /\ w = << w[1], w[2], w[3] >>
  BY PartsInRange
<1> QED
  BY <1>3, <1>4, Zenon

(* The getters of mulle-fifo.h take apart what the macro packed.           *)
THEOREM DecodeEncoded ==
  \A v \in AllVersions :
     << Major(Encode(v)), Minor(Encode(v)), Patch(Encode(v)) >> = v
<1> SUFFICES ASSUME NEW v \in AllVersions
             PROVE  << Major(Encode(v)), Minor(Encode(v)), Patch(Encode(v)) >> = v
  OBVIOUS
<1>1. v[1] \in Wide /\ v[2] \in Wide /\ v[3] \in Narrow
  BY PartsInRange
<1>2. /\ Major(Encode(v)) = v[1]
      /\ Minor(Encode(v)) = v[2]
      /\ Patch(Encode(v)) = v[3]
  BY <1>1, Unpack, Zenon DEF Encode
<1>3. v = << v[1], v[2], v[3] >>
  BY PartsInRange
<1> QED
  BY <1>2, <1>3, Zenon

-----------------------------------------------------------------------------
(* The bounds that the header defines are versions.                        *)
LEMMA DefaultsAreVersions ==
  ASSUME NEW l
  PROVE  DefaultMin(l) \in AllVersions /\ DefaultMax(l) \in AllVersions
<1>1. /\ << 9, 0, 0 >> \in AllVersions /\ << 10, 0, 0 >> \in AllVersions
      /\ << 4, 11, 0 >> \in AllVersions /\ << 5, 0, 0 >> \in AllVersions
  <2>1. \A a, b \in Wide, c \in Narrow : << a, b, c >> \in AllVersions
    BY Zenon DEF AllVersions
  <2>2. 0 \in Narrow /\ \A a \in { 0, 4, 5, 9, 10, 11 } : a \in Wide
    BY DEF Wide, Narrow
  <2> QED
    BY <2>1, <2>2, Zenon
<1>2. CASE l = "allocator"
  BY <1>1, <1>2 DEF DefaultMin, DefaultMax
<1>3. CASE l # "allocator"
  BY <1>1, <1>3 DEF DefaultMin, DefaultMax
<1> QED
  BY <1>2, <1>3

(* The inductive invariant: what is compared is a version, and the verdict *)
(* is what the comparisons of the packed words say.                        *)
VerdictInv == TypeOK /\ VerdictIsRight

(* It holds before the check,                                              *)
LEMMA InvInit == CheckInit => VerdictInv
BY VersionsAssumption DEF CheckInit, VerdictInv, TypeOK, VerdictIsRight

(* and in all that the preprocessor does.                                  *)
LEMMA InvStep == VerdictInv /\ [CheckNext]_checkVars => VerdictInv'
<1> SUFFICES ASSUME VerdictInv, [CheckNext]_checkVars
             PROVE  VerdictInv'
  OBVIOUS
<1> USE DEF VerdictInv
<1>1. CASE Skip
  BY <1>1 DEF Skip, TypeOK, VerdictIsRight
<1>2. CASE DefineBounds
  <2>1. min' \in AllVersions /\ max' \in AllVersions /\ version' \in AllVersions
    BY <1>2, DefaultsAreVersions DEF DefineBounds, TypeOK
  <2>2. TypeOK'
    BY <1>2, <2>1, VersionsAssumption DEF DefineBounds, TypeOK
  <2>3. VerdictIsRight'
    BY <1>2 DEF DefineBounds, VerdictIsRight
  <2> QED
    BY <2>2, <2>3
<1>3. CASE Check
  <2>1. TypeOK'
    BY <1>3 DEF Check, TypeOK
  <2>2. min \in AllVersions /\ max \in AllVersions /\ version \in AllVersions
    BY <1>3 DEF Check, TypeOK
  <2>3. TooOld <=> Before(version, min)
    BY <2>2, OrderPreserved DEF TooOld
  <2>4. TooNew <=> ~ Before(version, max)
    <3>1. Encode(version) \in Int /\ Encode(max) \in Int
      BY <2>2, FitsUInt32
    <3> QED
      BY <2>2, <3>1, OrderPreserved DEF TooNew
  <2>5. VerdictIsRight'
    BY <1>3, <2>3, <2>4 DEF Check, VerdictIsRight, Before
  <2> QED
    BY <2>1, <2>5
<1>4. CASE Compiled \/ UNCHANGED checkVars
  BY <1>4 DEF Compiled, checkVars, TypeOK, VerdictIsRight
<1> QED
  BY <1>1, <1>2, <1>3, <1>4 DEF CheckNext

(* A library is accepted exactly within the window, and rejected for the   *)
(* bound that it misses.                                                   *)
THEOREM VerdictCorrect == CheckSpec => []VerdictIsRight
<1>1. VerdictInv => VerdictIsRight
  BY DEF VerdictInv
<1> QED
  BY InvInit, InvStep, <1>1, PTL DEF CheckSpec

(* Whatever version a library has, the getters give it back.               *)
THEOREM GettersCorrect == CheckSpec => []GettersDecode
<1>1. VerdictInv => GettersDecode
  BY DecodeEncoded DEF VerdictInv, TypeOK, GettersDecode
<1> QED
  BY InvInit, InvStep, <1>1, PTL DEF CheckSpec

-----------------------------------------------------------------------------
(* The contract test.                                                      *)

(* The lemmas about the dynamic fifo, for the pointers of the test.        *)
Lemmas == INSTANCE PointerFifoProofs WITH
            Sizes <- {Size}, Pointers <- 1 .. Rounds, Observers <- {"main"}

(* What is assumed of the constants, in all that follows.                  *)
USE RoundsAssumption, FifoAssumption

(* What the fifo holds before call s: Held(s) pointers in order, the first *)
(* of which is First(s).                                                   *)
Held(s) ==
  IF s <= 7 THEN 0
  ELSE IF s <= Size + 7 THEN s - 7                              \* Fill
  ELSE IF s <= Size + 10 THEN Size                              \* OnePastCapacity
  ELSE IF s = Size + 11 THEN Size - 1                           \* Wraparound
  ELSE IF s <= 2 * Size + 12 THEN 2 * Size + 12 - s             \* Drain
  ELSE IF s > 2 * Size + 14 /\ s <= 2 * Size + 2 * Rounds + 14  \* Interleaved
       THEN s % 2 ELSE 0

First(s) ==
  IF s <= Size + 10 THEN 1
  ELSE IF s = Size + 11 THEN 2
  ELSE IF s <= 2 * Size + 13 THEN s - Size - 10
  ELSE (s - 2 * Size - 12) \div 2

(* A call that is refused, and one that only looks.                        *)
Same(s) == Held(s + 1) = Held(s) /\ (Held(s) = 0 \/ First(s + 1) = First(s))

(* What a bounded queue of numbers answers: what is expected of call s, c, *)
(* is right.                                                               *)
RightWithoutFifo(s, c) ==
  \/ /\ c.call = "write without fifo" /\ c.arg \in 1 .. Rounds
     /\ c.result = Fifo!FifoFull
  \/ c.call = "read without fifo"  /\ c.result = NULL
  \/ c.call = "count without fifo" /\ c.result = 0

RightWrite(s, c) ==
  /\ c.call = "write"
  /\ \/ c.arg = NULL /\ c.result = Fifo!NullPointer /\ Same(s)
     \/ /\ c.arg \in 1 .. Rounds /\ c.result = Fifo!FifoFull
        /\ Held(s) = Size /\ Same(s)
     \/ /\ c.arg \in 1 .. Rounds /\ c.result = Fifo!Stored
        /\ Held(s) < Size /\ c.arg = First(s) + Held(s)
        /\ Held(s + 1) = Held(s) + 1 /\ First(s + 1) = First(s)

RightRead(s, c) ==
  /\ c.call = "read"
  /\ \/ c.result = NULL /\ Held(s) = 0 /\ Same(s)
     \/ /\ c.result = First(s) /\ Held(s) > 0
        /\ Held(s + 1) = Held(s) - 1
        /\ Held(s + 1) = 0 \/ First(s + 1) = First(s) + 1

RightCount(s, c) == c.call = "count" /\ c.result = Held(s) /\ Same(s)

Right(s, c) ==
  \/ s \in 1 .. 3 /\ RightWithoutFifo(s, c)
  \/ s = 4 /\ c.call = "init"
  \/ s \in 5 .. Last - 2 /\ (RightWrite(s, c) \/ RightRead(s, c) \/ RightCount(s, c))
  \/ s \in Last - 1 .. Last /\ c.call = "done"

-----------------------------------------------------------------------------
(* What a concatenation holds, part by part.                               *)
LEMMA Joined ==
  ASSUME NEW S, NEW s \in Seq(S), NEW t \in Seq(S)
  PROVE  /\ s \o t \in Seq(S)
         /\ Len(s \o t) = Len(s) + Len(t)
         /\ \A k \in 1 .. Len(s) : (s \o t)[k] = s[k]
         /\ \A k \in 1 .. Len(t) : (s \o t)[Len(s) + k] = t[k]
<1>1. Len(s) \in Nat /\ Len(t) \in Nat
  OBVIOUS
<1>2. /\ s \o t \in Seq(S)
      /\ Len(s \o t) = Len(s) + Len(t)
      /\ \A i \in 1 .. Len(s) + Len(t) : (s \o t)[i] =
                     IF i <= Len(s) THEN s[i] ELSE t[i - Len(s)]
  BY ConcatProperties
<1>3. \A k \in 1 .. Len(s) : (s \o t)[k] = s[k]
  BY <1>1, <1>2
<1>4. ASSUME NEW k \in 1 .. Len(t)
      PROVE  (s \o t)[Len(s) + k] = t[k]
  <2>1. /\ Len(s) + k \in 1 .. Len(s) + Len(t) /\ ~ (Len(s) + k <= Len(s))
        /\ Len(s) + k - Len(s) = k
    BY <1>1
  <2>2. QED
    BY <1>2, <2>1
<1>5. QED
  BY <1>2, <1>3, <1>4

(* Short sequences.                                                        *)
LEMMA Short ==
  ASSUME NEW S, NEW a \in S, NEW b \in S, NEW c \in S
  PROVE  /\ << a >> \in Seq(S) /\ Len(<< a >>) = 1 /\ << a >>[1] = a
         /\ << a, b >> \in Seq(S) /\ Len(<< a, b >>) = 2
         /\ << a, b >>[1] = a /\ << a, b >>[2] = b
         /\ << a, b, c >> \in Seq(S) /\ Len(<< a, b, c >>) = 3
         /\ << a, b, c >>[1] = a /\ << a, b, c >>[2] = b /\ << a, b, c >>[3] = c
OBVIOUS

(* The calls of the test are of one kind.                                  *)
Names ==
  { "write without fifo", "read without fifo", "count without fifo",
    "init", "write", "read", "count", "done" }
Answers == Int \cup {NULL}
AnyCall == [call : Names, arg : Answers, result : Answers]

(* Each constructor of a call makes one,                                   *)
LEMMA WriteIsTyped ==
  ASSUME NEW a \in Answers, NEW b \in Answers
  PROVE  /\ Write(a, b) \in AnyCall
         /\ NoFifo(Write(a, b), "write without fifo") \in AnyCall
BY DEF AnyCall, Names, Write, NoFifo

(* also those without an argument.                                         *)
LEMMA OthersAreTyped ==
  ASSUME NEW b \in Answers
  PROVE  /\ Read(b) \in AnyCall /\ Count(b) \in AnyCall
         /\ NoFifo(Read(b), "read without fifo") \in AnyCall
         /\ NoFifo(Count(b), "count without fifo") \in AnyCall
         /\ Other("init") \in AnyCall /\ Other("done") \in AnyCall
BY DEF AnyCall, Names, Answers, Read, Count, NoFifo, Other

(* The parts of the test,                                                  *)
LEMMA Parts ==
  /\ WithoutFifo \in Seq(AnyCall) /\ Len(WithoutFifo) = 3
  /\ << Other("init") >> \in Seq(AnyCall)
  /\ RejectNull \in Seq(AnyCall) /\ Len(RejectNull) = 2
  /\ OnePastCapacity \in Seq(AnyCall) /\ Len(OnePastCapacity) = 2
  /\ Wraparound \in Seq(AnyCall) /\ Len(Wraparound) = 2
  /\ << Other("done"), Other("done") >> \in Seq(AnyCall)
<1>1. /\ NULL \in Answers /\ 0 \in Answers /\ 1 \in Answers
      /\ Size \in Answers /\ Size + 1 \in Answers
      /\ Fifo!Stored \in Answers /\ Fifo!FifoFull \in Answers
      /\ Fifo!NullPointer \in Answers
  BY DEF Answers, Fifo!Stored, Fifo!FifoFull,
     Fifo!NullPointer
<1>2. WithoutFifo \in Seq(AnyCall) /\ Len(WithoutFifo) = 3
  <2>1. /\ NoFifo(Write(1, Fifo!FifoFull), "write without fifo")
              \in AnyCall
        /\ NoFifo(Read(NULL), "read without fifo") \in AnyCall
        /\ NoFifo(Count(0), "count without fifo") \in AnyCall
    BY <1>1, WriteIsTyped, OthersAreTyped
  <2>2. QED
    BY <2>1, Short DEF WithoutFifo
<1>3. /\ << Other("init") >> \in Seq(AnyCall)
      /\ << Other("done"), Other("done") >> \in Seq(AnyCall)
  <2>1. Other("init") \in AnyCall /\ Other("done") \in AnyCall
    BY <1>1, OthersAreTyped
  <2>2. QED
    BY <2>1, Short
<1>4. RejectNull \in Seq(AnyCall) /\ Len(RejectNull) = 2
  <2>1. Write(NULL, Fifo!NullPointer) \in AnyCall /\ Count(0) \in AnyCall
    BY <1>1, WriteIsTyped, OthersAreTyped
  <2>2. QED
    BY <2>1, Short DEF RejectNull
<1>5. OnePastCapacity \in Seq(AnyCall) /\ Len(OnePastCapacity) = 2
  <2>1. Write(Size + 1, Fifo!FifoFull) \in AnyCall /\ Count(Size) \in AnyCall
    BY <1>1, WriteIsTyped, OthersAreTyped
  <2>2. QED
    BY <2>1, Short DEF OnePastCapacity
<1>6. Wraparound \in Seq(AnyCall) /\ Len(Wraparound) = 2
  <2>1. Read(1) \in AnyCall /\ Write(Size + 1, Fifo!Stored) \in AnyCall
    BY <1>1, WriteIsTyped, OthersAreTyped
  <2>2. QED
    BY <2>1, Short DEF Wraparound
<1>7. QED
  BY <1>2, <1>3, <1>4, <1>5, <1>6

(* of which three depend on the size or the number of rounds. The first    *)
(* fills the fifo.                                                         *)
LEMMA FillIs ==
  /\ Fill \in Seq(AnyCall) /\ Len(Fill) = Size + 1
  /\ \A k \in 1 .. Size : Fill[k] = Write(k, Fifo!Stored)
  /\ Fill[Size + 1] = Count(Size)
<1> DEFINE loop == [k \in 1 .. Size |-> Write(k, Fifo!Stored)]
           last == << Count(Size) >>
<1>1. Fill = loop \o last
  BY DEF Fill
<1>2. loop \in Seq(AnyCall) /\ Len(loop) = Size
  <2>1. \A k \in 1 .. Size : k \in Answers /\ Fifo!Stored \in Answers
    BY DEF Answers, Fifo!Stored
  <2>2. loop \in [1 .. Size -> AnyCall]
    BY <2>1, WriteIsTyped, OthersAreTyped
  <2>3. QED
    BY <2>2
<1>3. last \in Seq(AnyCall) /\ Len(last) = 1 /\ last[1] = Count(Size)
  <2>1. Size \in Answers
    BY DEF Answers
  <2>2. Count(Size) \in AnyCall
    BY <2>1, OthersAreTyped
  <2>3. QED
    BY <2>2, Short
<1> HIDE DEF loop, last
<1>4. /\ loop \o last \in Seq(AnyCall)
      /\ Len(loop \o last) = Size + 1
      /\ \A k \in 1 .. Size : (loop \o last)[k] = loop[k]
      /\ (loop \o last)[Size + 1] = last[1]
  <2>1. /\ loop \o last \in Seq(AnyCall)
        /\ Len(loop \o last) = Len(loop) + Len(last)
        /\ \A k \in 1 .. Len(loop) : (loop \o last)[k] = loop[k]
        /\ \A k \in 1 .. Len(last) : (loop \o last)[Len(loop) + k] = last[k]
    <3>1. loop \in Seq(AnyCall) /\ last \in Seq(AnyCall)
      BY <1>2, <1>3
    <3>2. QED
      BY ONLY <3>1, Joined
  <2>2. 1 \in 1 .. Len(last)
    BY <1>3
  <2>3. (loop \o last)[Len(loop) + 1] = last[1]
    BY <2>1, <2>2
  <2>4. QED
    BY <1>2, <1>3, <2>1, <2>3
<1>5. \A k \in 1 .. Size : loop[k] = Write(k, Fifo!Stored)
  BY DEF loop
<1>6. QED
  BY <1>1, <1>3, <1>4, <1>5

(* The drain reads what the wraparound left, and then nothing.             *)
LEMMA DrainIs ==
  /\ Drain \in Seq(AnyCall) /\ Len(Drain) = Size + 2
  /\ \A k \in 1 .. Size : Drain[k] = Read(k + 1)
  /\ Drain[Size + 1] = Read(NULL)
  /\ Drain[Size + 2] = Count(0)
<1> DEFINE loop == [k \in 1 .. Size |-> Read(k + 1)]
           last == << Read(NULL), Count(0) >>
<1>1. Drain = loop \o last
  BY DEF Drain
<1>2. loop \in Seq(AnyCall) /\ Len(loop) = Size
  <2>1. \A k \in 1 .. Size : k + 1 \in Answers
    BY DEF Answers
  <2>2. loop \in [1 .. Size -> AnyCall]
    BY <2>1, WriteIsTyped, OthersAreTyped
  <2>3. QED
    BY <2>2
<1>3. /\ last \in Seq(AnyCall) /\ Len(last) = 2
      /\ last[1] = Read(NULL) /\ last[2] = Count(0)
  <2>1. NULL \in Answers /\ 0 \in Answers
    BY DEF Answers
  <2>2. Read(NULL) \in AnyCall /\ Count(0) \in AnyCall
    BY <2>1, OthersAreTyped
  <2>3. QED
    BY <2>2, Short
<1> HIDE DEF loop, last
<1>4. /\ loop \o last \in Seq(AnyCall)
      /\ Len(loop \o last) = Size + 2
      /\ \A k \in 1 .. Size : (loop \o last)[k] = loop[k]
      /\ (loop \o last)[Size + 1] = last[1]
      /\ (loop \o last)[Size + 2] = last[2]
  <2>1. /\ loop \o last \in Seq(AnyCall)
        /\ Len(loop \o last) = Len(loop) + Len(last)
        /\ \A k \in 1 .. Len(loop) : (loop \o last)[k] = loop[k]
        /\ \A k \in 1 .. Len(last) : (loop \o last)[Len(loop) + k] = last[k]
    <3>1. loop \in Seq(AnyCall) /\ last \in Seq(AnyCall)
      BY <1>2, <1>3
    <3>2. QED
      BY ONLY <3>1, Joined
  <2>2. 1 \in 1 .. Len(last) /\ 2 \in 1 .. Len(last)
    BY <1>3
  <2>3. /\ (loop \o last)[Len(loop) + 1] = last[1]
        /\ (loop \o last)[Len(loop) + 2] = last[2]
    BY <2>1, <2>2
  <2>4. QED
    BY <1>2, <1>3, <2>1, <2>3
<1>5. \A k \in 1 .. Size : loop[k] = Read(k + 1)
  BY DEF loop
<1>6. QED
  BY <1>1, <1>3, <1>4, <1>5

(* The last part writes a number and reads it, Rounds times.               *)
LEMMA InterleavedIs ==
  /\ Interleaved \in Seq(AnyCall) /\ Len(Interleaved) = 2 * Rounds + 1
  /\ \A k \in 1 .. 2 * Rounds : Interleaved[k] =
       IF k % 2 = 1 THEN Write((k + 1) \div 2, Fifo!Stored)
                    ELSE Read(k \div 2)
  /\ Interleaved[2 * Rounds + 1] = Count(0)
<1> DEFINE loop == [k \in 1 .. 2 * Rounds |->
                      IF k % 2 = 1 THEN Write((k + 1) \div 2, Fifo!Stored)
                                   ELSE Read(k \div 2)]
           last == << Count(0) >>
<1>1. Interleaved = loop \o last
  BY DEF Interleaved
<1>2. loop \in Seq(AnyCall) /\ Len(loop) = 2 * Rounds
  <2>1. \A k \in 1 .. 2 * Rounds :
           /\ (k + 1) \div 2 \in Answers /\ k \div 2 \in Answers
           /\ Fifo!Stored \in Answers
    BY DEF Answers, Fifo!Stored
  <2>2. loop \in [1 .. 2 * Rounds -> AnyCall]
    BY <2>1, WriteIsTyped, OthersAreTyped
  <2>3. QED
    BY <2>2
<1>3. last \in Seq(AnyCall) /\ Len(last) = 1 /\ last[1] = Count(0)
  <2>1. 0 \in Answers
    BY DEF Answers
  <2>2. Count(0) \in AnyCall
    BY <2>1, OthersAreTyped
  <2>3. QED
    BY <2>2, Short
<1> HIDE DEF loop, last
<1>4. /\ loop \o last \in Seq(AnyCall)
      /\ Len(loop \o last) = 2 * Rounds + 1
      /\ \A k \in 1 .. 2 * Rounds : (loop \o last)[k] = loop[k]
      /\ (loop \o last)[2 * Rounds + 1] = last[1]
  <2>1. /\ loop \o last \in Seq(AnyCall)
        /\ Len(loop \o last) = Len(loop) + Len(last)
        /\ \A k \in 1 .. Len(loop) : (loop \o last)[k] = loop[k]
        /\ \A k \in 1 .. Len(last) : (loop \o last)[Len(loop) + k] = last[k]
    <3>1. loop \in Seq(AnyCall) /\ last \in Seq(AnyCall)
      BY <1>2, <1>3
    <3>2. QED
      BY ONLY <3>1, Joined
  <2>2. 1 \in 1 .. Len(last)
    BY <1>3
  <2>3. (loop \o last)[Len(loop) + 1] = last[1]
    BY <2>1, <2>2
  <2>4. QED
    BY <1>2, <1>3, <2>1, <2>3
<1>5. \A k \in 1 .. 2 * Rounds : loop[k] =
          IF k % 2 = 1 THEN Write((k + 1) \div 2, Fifo!Stored)
                       ELSE Read(k \div 2)
  BY DEF loop
<1>6. QED
  BY <1>1, <1>3, <1>4, <1>5

(* That the test begins with s, and goes on with t after its first m calls. *)
Begins(s)  == \A k \in 1 .. Len(s) : Calls[k] = s[k]
Goes(m, t) == \A k \in 1 .. Len(t) : Calls[m + k] = t[k]

(* Whatever begins with s followed by t begins with s and has t after it.  *)
LEMMA PartOf ==
  ASSUME NEW s \in Seq(AnyCall), NEW t \in Seq(AnyCall), Begins(s \o t)
  PROVE  Begins(s) /\ Goes(Len(s), t)
<1>1. Len(s) \in Nat /\ Len(t) \in Nat
  OBVIOUS
<1>2. /\ Len(s \o t) = Len(s) + Len(t)
      /\ \A k \in 1 .. Len(s) : (s \o t)[k] = s[k]
      /\ \A k \in 1 .. Len(t) : (s \o t)[Len(s) + k] = t[k]
  BY Joined
<1>3. /\ \A k \in 1 .. Len(s) : k \in 1 .. Len(s \o t)
      /\ \A k \in 1 .. Len(t) : Len(s) + k \in 1 .. Len(s \o t)
  BY <1>1, <1>2
<1>4. QED
  BY <1>2, <1>3 DEF Begins, Goes

(* The whole test: 2 * Size + 2 * Rounds + 16 calls.                       *)
LEMMA CallsAre ==
  /\ Last = 2 * Size + 2 * Rounds + 16
  /\ \A k \in 1 .. 3 : Calls[k] = WithoutFifo[k]
  /\ Calls[4] = Other("init")
  /\ \A k \in 1 .. 2 : Calls[4 + k] = RejectNull[k]
  /\ \A k \in 1 .. Size + 1 : Calls[6 + k] = Fill[k]
  /\ \A k \in 1 .. 2 : Calls[Size + 7 + k] = OnePastCapacity[k]
  /\ \A k \in 1 .. 2 : Calls[Size + 9 + k] = Wraparound[k]
  /\ \A k \in 1 .. Size + 2 : Calls[Size + 11 + k] = Drain[k]
  /\ \A k \in 1 .. 2 * Rounds + 1 :
       Calls[2 * Size + 13 + k] = Interleaved[k]
  /\ \A k \in 1 .. 2 :
       Calls[2 * Size + 2 * Rounds + 14 + k] = Other("done")
<1> DEFINE init == << Other("init") >>
           done == << Other("done"), Other("done") >>
           c1 == WithoutFifo \o init
           c2 == c1 \o RejectNull
           c3 == c2 \o Fill
           c4 == c3 \o OnePastCapacity
           c5 == c4 \o Wraparound
           c6 == c5 \o Drain
           c7 == c6 \o Interleaved
           c8 == c7 \o done
<1>1. Calls = c8
  BY DEF Calls
<1>2. /\ Len(init) = 1 /\ init[1] = Other("init")
      /\ Len(done) = 2 /\ \A k \in 1 .. 2 : done[k] = Other("done")
  OBVIOUS
<1>3. /\ init \in Seq(AnyCall) /\ done \in Seq(AnyCall)
      /\ WithoutFifo \in Seq(AnyCall) /\ RejectNull \in Seq(AnyCall)
      /\ Fill \in Seq(AnyCall) /\ OnePastCapacity \in Seq(AnyCall)
      /\ Wraparound \in Seq(AnyCall) /\ Drain \in Seq(AnyCall)
      /\ Interleaved \in Seq(AnyCall)
  BY Parts, FillIs, DrainIs, InterleavedIs
<1>4. /\ Len(WithoutFifo) = 3 /\ Len(RejectNull) = 2
      /\ Len(Fill) = Size + 1 /\ Len(OnePastCapacity) = 2
      /\ Len(Wraparound) = 2 /\ Len(Drain) = Size + 2
      /\ Len(Interleaved) = 2 * Rounds + 1
  BY Parts, FillIs, DrainIs, InterleavedIs
<1>5. Size \in Nat /\ Rounds \in Nat
  BY RoundsAssumption
<1> HIDE DEF init, done
<1>6. c1 \in Seq(AnyCall) /\ Len(c1) = Len(WithoutFifo) + Len(init)
  BY ONLY <1>3, Joined
<1> HIDE DEF c1
<1>7. c2 \in Seq(AnyCall) /\ Len(c2) = Len(c1) + Len(RejectNull)
  BY ONLY <1>3, <1>6, Joined
<1> HIDE DEF c2
<1>8. c3 \in Seq(AnyCall) /\ Len(c3) = Len(c2) + Len(Fill)
  BY ONLY <1>3, <1>7, Joined
<1> HIDE DEF c3
<1>9. c4 \in Seq(AnyCall) /\ Len(c4) = Len(c3) + Len(OnePastCapacity)
  BY ONLY <1>3, <1>8, Joined
<1> HIDE DEF c4
<1>10. c5 \in Seq(AnyCall) /\ Len(c5) = Len(c4) + Len(Wraparound)
  BY ONLY <1>3, <1>9, Joined
<1> HIDE DEF c5
<1>11. c6 \in Seq(AnyCall) /\ Len(c6) = Len(c5) + Len(Drain)
  BY ONLY <1>3, <1>10, Joined
<1> HIDE DEF c6
<1>12. c7 \in Seq(AnyCall) /\ Len(c7) = Len(c6) + Len(Interleaved)
  BY ONLY <1>3, <1>11, Joined
<1> HIDE DEF c7
<1>13. c8 \in Seq(AnyCall) /\ Len(c8) = Len(c7) + Len(done)
  BY ONLY <1>3, <1>12, Joined
<1> HIDE DEF c8
<1>14. /\ Len(c1) = 4
       /\ Len(c2) = 6
       /\ Len(c3) = Size + 7
       /\ Len(c4) = Size + 9
       /\ Len(c5) = Size + 11
       /\ Len(c6) = 2 * Size + 13
       /\ Len(c7) = 2 * Size + 2 * Rounds + 14
       /\ Len(c8) = 2 * Size + 2 * Rounds + 16
  BY <1>2, <1>4, <1>5, <1>6, <1>7, <1>8, <1>9, <1>10, <1>11, <1>12, <1>13
<1>15. Begins(c8)
  BY <1>1 DEF Begins
<1>16. Begins(c7) /\ Goes(Len(c7), done)
  BY ONLY <1>15, <1>3, <1>12, PartOf DEF c8
<1>17. Begins(c6) /\ Goes(Len(c6), Interleaved)
  BY ONLY <1>16, <1>3, <1>11, PartOf DEF c7
<1>18. Begins(c5) /\ Goes(Len(c5), Drain)
  BY ONLY <1>17, <1>3, <1>10, PartOf DEF c6
<1>19. Begins(c4) /\ Goes(Len(c4), Wraparound)
  BY ONLY <1>18, <1>3, <1>9, PartOf DEF c5
<1>20. Begins(c3) /\ Goes(Len(c3), OnePastCapacity)
  BY ONLY <1>19, <1>3, <1>8, PartOf DEF c4
<1>21. Begins(c2) /\ Goes(Len(c2), Fill)
  BY ONLY <1>20, <1>3, <1>7, PartOf DEF c3
<1>22. Begins(c1) /\ Goes(Len(c1), RejectNull)
  BY ONLY <1>21, <1>3, <1>6, PartOf DEF c2
<1>23. Begins(WithoutFifo) /\ Goes(Len(WithoutFifo), init)
  BY ONLY <1>22, <1>3, PartOf DEF c1
<1>24. Last = 2 * Size + 2 * Rounds + 16
  BY <1>1, <1>14 DEF Last
<1>25. /\ Begins(WithoutFifo) /\ Goes(3, init)
       /\ Goes(4, RejectNull) /\ Goes(6, Fill)
       /\ Goes(Size + 7, OnePastCapacity) /\ Goes(Size + 9, Wraparound)
       /\ Goes(Size + 11, Drain) /\ Goes(2 * Size + 13, Interleaved)
       /\ Goes(2 * Size + 2 * Rounds + 14, done)
  BY <1>4, <1>14, <1>16, <1>17, <1>18, <1>19, <1>20, <1>21, <1>22, <1>23
<1>26. Calls[4] = Other("init")
  <2>1. Calls[3 + 1] = init[1]
    BY <1>2, <1>25 DEF Goes
  <2>2. QED
    BY <1>2, <2>1
<1>27. \A k \in 1 .. 2 : Calls[2 * Size + 2 * Rounds + 14 + k] = Other("done")
  BY <1>2, <1>25 DEF Goes
<1>28. /\ \A k \in 1 .. 3 : Calls[k] = WithoutFifo[k]
       /\ \A k \in 1 .. 2 : Calls[4 + k] = RejectNull[k]
       /\ \A k \in 1 .. 2 : Calls[Size + 7 + k] = OnePastCapacity[k]
       /\ \A k \in 1 .. 2 : Calls[Size + 9 + k] = Wraparound[k]
  BY <1>4, <1>25 DEF Begins, Goes
<1>29. /\ \A k \in 1 .. Size + 1 : Calls[6 + k] = Fill[k]
       /\ \A k \in 1 .. Size + 2 : Calls[Size + 11 + k] = Drain[k]
       /\ \A k \in 1 .. 2 * Rounds + 1 :
            Calls[2 * Size + 13 + k] = Interleaved[k]
  BY <1>4, <1>25 DEF Goes
<1>30. QED
  BY <1>24, <1>26, <1>27, <1>28, <1>29

(* The test expects what a bounded queue answers: call by call.            *)
LEMMA CallsAreRight ==
  \A s \in 1 .. Last : Right(s, Calls[s])
<1> DEFINE S == Size
           R == Rounds
           Asked(s) == RightWrite(s, Calls[s]) \/ RightRead(s, Calls[s])
                         \/ RightCount(s, Calls[s])
<1>1. /\ S \in Nat /\ S >= 1 /\ R \in Nat /\ R > S
      /\ Last = 2 * S + 2 * R + 16
  BY CallsAre
<1>2. ASSUME NEW s \in 1 .. 3
      PROVE  RightWithoutFifo(s, Calls[s])
  <2>1. Calls[s] = WithoutFifo[s]
    BY CallsAre
  <2>2. /\ WithoutFifo[1] = NoFifo(Write(1, Fifo!FifoFull), "write without fifo")
        /\ WithoutFifo[2] = NoFifo(Read(NULL), "read without fifo")
        /\ WithoutFifo[3] = NoFifo(Count(0), "count without fifo")
    BY DEF WithoutFifo
  <2>3. CASE s = 1
    <3>1. 1 \in 1 .. Rounds
      BY <1>1
    <3>2. /\ Calls[s].call = "write without fifo" /\ Calls[s].arg = 1
          /\ Calls[s].result = Fifo!FifoFull
      BY <2>1, <2>2, <2>3 DEF NoFifo, Write
    <3>3. QED
      BY <3>1, <3>2 DEF RightWithoutFifo
  <2>4. CASE s = 2
    BY <2>1, <2>2, <2>4 DEF RightWithoutFifo, NoFifo, Read
  <2>5. CASE s = 3
    BY <2>1, <2>2, <2>5 DEF RightWithoutFifo, NoFifo, Count
  <2>6. QED
    BY <2>3, <2>4, <2>5
<1>3. Calls[4].call = "init"
  BY CallsAre DEF Other
<1> USE DEF Held, First, Same
<1>4. ASSUME NEW s \in 5 .. 6
      PROVE  Asked(s)
  <2>1. Calls[4 + 1] = RejectNull[1] /\ Calls[4 + 2] = RejectNull[2]
    BY CallsAre
  <2>2. /\ Calls[5] = Write(NULL, Fifo!NullPointer)
        /\ Calls[6] = Count(0)
    BY <2>1 DEF RejectNull
  <2>3. QED
    BY <1>1, <2>2 DEF RightWrite, RightCount, Write, Count
<1>5. ASSUME NEW s \in 7 .. S + 6
      PROVE  Asked(s)
  <2>1. s - 6 \in 1 .. S /\ s - 6 \in 1 .. S + 1 /\ s - 6 \in 1 .. R /\ 6 + (s - 6) = s
    BY <1>1
  <2>2. Calls[s] = Write(s - 6, Fifo!Stored)
    <3>1. Calls[6 + (s - 6)] = Fill[s - 6]
      BY <2>1, CallsAre
    <3>2. Fill[s - 6] = Write(s - 6, Fifo!Stored)
      BY <2>1, FillIs
    <3>3. QED
      BY <2>1, <3>1, <3>2
  <2>3. Held(s) = s - 7 /\ Held(s + 1) = s - 6 /\ First(s) = 1 /\ First(s + 1) = 1
    BY <1>1
  <2>4. QED
    BY <1>1, <2>1, <2>2, <2>3 DEF RightWrite, Write
<1>6. Asked(S + 7)
  <2>1. S + 1 \in 1 .. S + 1 /\ 6 + (S + 1) = S + 7
    BY <1>1
  <2>2. Calls[S + 7] = Count(Size)
    BY <2>1, CallsAre, FillIs
  <2>3. QED
    BY <1>1, <2>2 DEF RightCount, Count
<1>7. Asked(S + 8) /\ Asked(S + 9)
  <2>1. S + 7 + 1 = S + 8 /\ S + 7 + 2 = S + 9 /\ S + 1 \in 1 .. R
    BY <1>1
  <2>2. /\ Calls[S + 8] = Write(S + 1, Fifo!FifoFull)
        /\ Calls[S + 9] = Count(S)
    BY <2>1, CallsAre DEF OnePastCapacity
  <2>3. QED
    BY <1>1, <2>1, <2>2 DEF RightWrite, RightCount, Write, Count
<1>8. Asked(S + 10) /\ Asked(S + 11)
  <2>1. S + 9 + 1 = S + 10 /\ S + 9 + 2 = S + 11 /\ S + 1 \in 1 .. R
    BY <1>1
  <2>2. /\ Calls[S + 10] = Read(1)
        /\ Calls[S + 11] = Write(S + 1, Fifo!Stored)
    BY <2>1, CallsAre DEF Wraparound
  <2>3. /\ Held(S + 10) = S /\ Held(S + 11) = S - 1 /\ Held(S + 12) = S
        /\ First(S + 10) = 1 /\ First(S + 11) = 2 /\ First(S + 12) = 2
    BY <1>1
  <2>4. QED
    BY <1>1, <2>1, <2>2, <2>3 DEF RightWrite, RightRead, Write, Read
<1>9. ASSUME NEW s \in S + 12 .. 2 * S + 11
      PROVE  Asked(s)
  <2>1. s - S - 11 \in 1 .. S /\ s - S - 11 \in 1 .. S + 2 /\ S + 11 + (s - S - 11) = s
    BY <1>1
  <2>2. Calls[s] = Read((s - S - 11) + 1)
    <3>1. Calls[S + 11 + (s - S - 11)] = Drain[s - S - 11]
      BY <2>1, CallsAre
    <3>2. Drain[s - S - 11] = Read((s - S - 11) + 1)
      BY <2>1, DrainIs
    <3>3. QED
      BY <2>1, <3>1, <3>2
  <2>3. /\ Held(s) = 2 * S + 12 - s /\ Held(s + 1) = 2 * S + 11 - s
        /\ First(s) = s - S - 10 /\ First(s + 1) = s - S - 9
    BY <1>1
  <2>4. QED
    BY <1>1, <2>2, <2>3 DEF RightRead, Read
<1>10. Asked(2 * S + 12) /\ Asked(2 * S + 13)
  <2>1. /\ S + 1 \in 1 .. S + 2 /\ S + 11 + (S + 1) = 2 * S + 12
        /\ S + 2 \in 1 .. S + 2 /\ S + 11 + (S + 2) = 2 * S + 13
    BY <1>1
  <2>2. /\ Calls[2 * S + 12] = Read(NULL)
        /\ Calls[2 * S + 13] = Count(0)
    <3>1. /\ Calls[S + 11 + (S + 1)] = Drain[S + 1]
          /\ Calls[S + 11 + (S + 2)] = Drain[S + 2]
      BY <2>1, CallsAre
    <3>2. Drain[S + 1] = Read(NULL) /\ Drain[S + 2] = Count(0)
      BY DrainIs
    <3>3. QED
      BY <2>1, <3>1, <3>2
  <2>3. QED
    BY <1>1, <2>2 DEF RightRead, RightCount, Read, Count
<1>11. ASSUME NEW k \in 1 .. 2 * R
       PROVE  Asked(2 * S + 13 + k)
  <2>1. k \in 1 .. 2 * R + 1
    BY <1>1
  <2>2. Calls[2 * S + 13 + k] =
          IF k % 2 = 1 THEN Write((k + 1) \div 2, Fifo!Stored)
                       ELSE Read(k \div 2)
    BY <2>1, CallsAre, InterleavedIs
  <2>3. CASE k % 2 = 1
    <3>1. PICK j \in Nat : k = 2 * j + 1
      BY <2>3
    <3>2. j + 1 \in 1 .. R /\ (k + 1) \div 2 = j + 1
      BY <1>1, <3>1
    <3>3. /\ Held(2 * S + 13 + k) = 0 /\ Held(2 * S + 13 + k + 1) = 1
          /\ First(2 * S + 13 + k) = j + 1 /\ First(2 * S + 13 + k + 1) = j + 1
      BY <1>1, <3>1
    <3>4. QED
      BY <1>1, <2>2, <2>3, <3>2, <3>3 DEF RightWrite, Write
  <2>4. CASE k % 2 = 0
    <3>1. PICK j \in Nat : k = 2 * j
      BY <2>4
    <3>2. k \div 2 = j
      BY <3>1
    <3>3. /\ Held(2 * S + 13 + k) = 1 /\ Held(2 * S + 13 + k + 1) = 0
          /\ First(2 * S + 13 + k) = j
      BY <1>1, <3>1
    <3>4. QED
      BY <1>1, <2>2, <2>4, <3>2, <3>3 DEF RightRead, Read
  <2>5. QED
    BY <2>3, <2>4
<1>12. Asked(2 * S + 2 * R + 14)
  <2>1. 2 * R + 1 \in 1 .. 2 * R + 1 /\ 2 * S + 13 + (2 * R + 1) = 2 * S + 2 * R + 14
    BY <1>1
  <2>2. Calls[2 * S + 2 * R + 14] = Count(0)
    BY <2>1, CallsAre, InterleavedIs
  <2>3. /\ Held(2 * S + 2 * R + 14) = 0 /\ Held(2 * S + 2 * R + 14 + 1) = 0
    BY <1>1
  <2>4. QED
    BY <2>2, <2>3 DEF RightCount, Count
<1>13. ASSUME NEW s \in 2 * S + 2 * R + 15 .. 2 * S + 2 * R + 16
       PROVE  Calls[s].call = "done"
  <2>1. /\ s - (2 * S + 2 * R + 14) \in 1 .. 2
        /\ 2 * S + 2 * R + 14 + (s - (2 * S + 2 * R + 14)) = s
    BY <1>1
  <2>2. Calls[s] = Other("done")
    BY <2>1, CallsAre
  <2>3. QED
    BY <2>2 DEF Other
<1> HIDE DEF Asked
<1>14. ASSUME NEW s \in 5 .. Last - 2
       PROVE  Asked(s)
  <2>1. CASE s \in 2 * S + 14 .. 2 * S + 2 * R + 13
    <3>1. s - 2 * S - 13 \in 1 .. 2 * R /\ 2 * S + 13 + (s - 2 * S - 13) = s
      BY <1>1, <2>1
    <3>2. QED
      BY <1>11, <3>1
  <2>2. CASE ~ s \in 2 * S + 14 .. 2 * S + 2 * R + 13
    BY <1>1, <1>4, <1>5, <1>6, <1>7, <1>8, <1>9, <1>10, <1>12, <2>2
  <2>3. QED
    BY <2>1, <2>2
<1>15. QED
  BY <1>1, <1>2, <1>3, <1>13, <1>14 DEF Right, Asked

-----------------------------------------------------------------------------
(* The fifo of the test: both instances have the same queue,               *)
LEMMA SameQueue ==
  Fifo!Queue = Lemmas!Queue /\ Fifo!Queue' = Lemmas!Queue'
BY DEF Fifo!Queue, Fifo!At, Fifo!Oldest, Fifo!Back, Lemmas!Queue,
   Lemmas!At, Lemmas!Oldest, Lemmas!Back

(* the same invariant,                                                     *)
LEMMA SameInvariant ==
  /\ Fifo!RingInv <=> Lemmas!RingInv
  /\ Fifo!RingInv' <=> Lemmas!RingInv'
BY DEF Fifo!RingInv, Fifo!TypeOK, Fifo!OwnsOneBlock,
   Fifo!BlockFitsSize, Fifo!ClosedIsQuiet, Fifo!NullStopped,
   Fifo!ChecksStayTrue, Fifo!IndicesMatchCount, Fifo!SlotsHoldPointers,
   Fifo!TakenPointerIntact, Fifo!Stored, Fifo!FifoFull,
   Fifo!NullPointer, Fifo!At, Fifo!Oldest, Fifo!Back,
   Lemmas!RingInv, Lemmas!TypeOK, Lemmas!OwnsOneBlock, Lemmas!BlockFitsSize,
   Lemmas!ClosedIsQuiet, Lemmas!NullStopped, Lemmas!ChecksStayTrue,
   Lemmas!IndicesMatchCount, Lemmas!SlotsHoldPointers, Lemmas!TakenPointerIntact,
   Lemmas!Stored, Lemmas!FifoFull, Lemmas!NullPointer, Lemmas!At, Lemmas!Oldest,
   Lemmas!Back

(* and the same steps.                                                     *)
LEMMA SameCalls ==
  /\ Fifo!WriteStep <=> Lemmas!WriteStep
  /\ Fifo!ReadStep <=> Lemmas!ReadStep
  /\ Fifo!WriteReturn <=> Lemmas!WriteReturn
  /\ Fifo!ReadReturn <=> Lemmas!ReadReturn
  /\ Fifo!CallRead <=> Lemmas!CallRead
  /\ Fifo!ReadNoFifo <=> Lemmas!ReadNoFifo
  /\ \A p : /\ Fifo!CallWrite(p) <=> Lemmas!CallWrite(p)
            /\ Fifo!WriteNoFifo(p) <=> Lemmas!WriteNoFifo(p)
  /\ \A o : /\ Fifo!GetCount(o) <=> Lemmas!GetCount(o)
            /\ Fifo!GetCountNoFifo(o) <=> Lemmas!GetCountNoFifo(o)
BY DEF Fifo!CallWrite, Fifo!WriteNoFifo, Fifo!WriteStep,
   Fifo!WriteNull, Fifo!WriteFull, Fifo!WriteHasRoom,
   Fifo!WriteStore, Fifo!WriteAdvance, Fifo!WriteIncrement,
   Fifo!WriteReturn, Fifo!CallRead, Fifo!ReadNoFifo, Fifo!ReadStep,
   Fifo!ReadEmpty, Fifo!ReadHasPointer, Fifo!ReadLoad,
   Fifo!ReadAdvance, Fifo!ReadDecrement, Fifo!ReadReturn,
   Fifo!GetCount, Fifo!GetCountNoFifo, Fifo!Count, Fifo!Wrap,
   Fifo!vars, Fifo!fifoVars, Fifo!heapVars, Fifo!producerVars,
   Fifo!consumerVars, Fifo!Stored, Fifo!FifoFull, Fifo!NullPointer,
   Lemmas!CallWrite, Lemmas!WriteNoFifo, Lemmas!WriteStep, Lemmas!WriteNull,
   Lemmas!WriteFull, Lemmas!WriteHasRoom, Lemmas!WriteStore, Lemmas!WriteAdvance,
   Lemmas!WriteIncrement, Lemmas!WriteReturn, Lemmas!CallRead, Lemmas!ReadNoFifo,
   Lemmas!ReadStep, Lemmas!ReadEmpty, Lemmas!ReadHasPointer, Lemmas!ReadLoad,
   Lemmas!ReadAdvance, Lemmas!ReadDecrement, Lemmas!ReadReturn, Lemmas!GetCount,
   Lemmas!GetCountNoFifo, Lemmas!Count, Lemmas!Wrap, Lemmas!vars, Lemmas!fifoVars,
   Lemmas!heapVars, Lemmas!producerVars, Lemmas!consumerVars, Lemmas!Stored,
   Lemmas!FifoFull, Lemmas!NullPointer

(* The same init, with and without memory, and done.                       *)
LEMMA SameLifeCycle ==
  /\ Fifo!Init <=> Lemmas!Init
  /\ Fifo!InitFifo(Size) <=> Lemmas!InitFifo(Size)
  /\ Fifo!AllocationFails(Size) <=> Lemmas!AllocationFails(Size)
  /\ Fifo!DoneFifo <=> Lemmas!DoneFifo
BY DEF Fifo!Init, Fifo!Stored, Fifo!InitFifo, Fifo!AllocationFails,
   Fifo!Asserted, Fifo!CellsOf, Fifo!CanInit, Fifo!Idle,
   Fifo!NoCells, Fifo!DoneFifo, Fifo!Done, Fifo!Release,
   Fifo!heapVars, Fifo!producerVars, Fifo!consumerVars,
   Lemmas!Init, Lemmas!Stored, Lemmas!InitFifo, Lemmas!AllocationFails,
   Lemmas!Asserted, Lemmas!CellsOf, Lemmas!CanInit, Lemmas!Idle, Lemmas!NoCells,
   Lemmas!DoneFifo, Lemmas!Done, Lemmas!Release, Lemmas!heapVars,
   Lemmas!producerVars, Lemmas!consumerVars

(* What the lemmas assume of the constants.                                *)
LEMMA Assumptions ==
  Lemmas!WidthAssumption /\ Lemmas!SizesAssumption /\ Lemmas!PointerAssumption
BY DEF Lemmas!WidthAssumption, Lemmas!SizesAssumption,
   Lemmas!PointerAssumption, Fifo!WidthAssumption, Fifo!SizesAssumption,
   Fifo!PointerAssumption

(* The steps the test takes keep the invariant of the fifo.                *)
LEMMA FifoStep ==
  ASSUME Fifo!RingInv,
         \/ Fifo!InitFifo(Size) \/ Fifo!AllocationFails(Size)
         \/ Fifo!DoneFifo
         \/ \E p \in (1 .. Rounds) \cup {NULL} :
              Fifo!CallWrite(p) \/ Fifo!WriteNoFifo(p)
         \/ Fifo!WriteStep
         \/ Fifo!CallRead \/ Fifo!ReadNoFifo \/ Fifo!ReadStep
         \/ Fifo!GetCount("main") \/ Fifo!GetCountNoFifo("main")
         \/ UNCHANGED ringVars
  PROVE  Fifo!RingInv'
<1>1. CASE UNCHANGED ringVars
  <2>1. UNCHANGED Lemmas!vars
    BY <1>1 DEF ringVars, Lemmas!vars, Lemmas!fifoVars, Lemmas!heapVars,
       Lemmas!producerVars, Lemmas!consumerVars
  <2>2. QED
    BY <2>1, Assumptions, Lemmas!RingStep, SameInvariant
<1>2. CASE ~ UNCHANGED ringVars
  <2>1. Lemmas!Next
    BY <1>2, SameCalls, SameLifeCycle DEF Lemmas!Next
  <2>2. QED
    BY <2>1, Assumptions, Lemmas!RingStep, SameInvariant
<1>3. QED
  BY <1>1, <1>2

(* The queue of an open fifo has as many numbers as the counter says.      *)
LEMMA QueueIsSeq ==
  ASSUME Fifo!RingInv, phase = "open"
  PROVE  /\ Fifo!Queue \in Seq(1 .. Rounds) /\ Len(Fifo!Queue) = n
         /\ n \in Nat /\ size \in Nat
<1>1. n \in Nat /\ size \in Nat
  BY DEF Fifo!RingInv, Fifo!TypeOK,
     Fifo!WidthAssumption
<1>2. QED
  BY <1>1, Assumptions, Lemmas!QueueIsSeq, SameInvariant, SameQueue

(* What a step of a call does, when it does not return.                    *)
LEMMA WriteOutcome ==
  ASSUME Fifo!RingInv, Fifo!WriteStep, wpc # "return"
  PROVE  /\ phase = "open" /\ UNCHANGED << phase, size, warg, rpc, pointer >>
         /\ \/ /\ wpc' \in { "store", "advance", "increment" }
               /\ UNCHANGED << n, Fifo!Queue >>
            \/ /\ wpc' = "return" /\ wres' = Fifo!NullPointer /\ warg = NULL
               /\ UNCHANGED << n, Fifo!Queue >>
            \/ /\ wpc' = "return" /\ wres' = Fifo!FifoFull
               /\ warg # NULL /\ n = size
               /\ UNCHANGED << n, Fifo!Queue >>
            \/ /\ wpc' = "return" /\ wres' = Fifo!Stored
               /\ warg # NULL /\ n \in 0 .. size - 1
               /\ n' = n + 1 /\ Fifo!Queue' = Append(Fifo!Queue, warg)
<1>1. wpc \in { "store", "advance", "increment" } => warg # NULL
  BY DEF Fifo!RingInv, Fifo!NullStopped
<1>2. QED
  BY <1>1, Assumptions, Lemmas!WriteOutcome, SameInvariant, SameCalls,
     SameQueue
     DEF Fifo!Stored, Fifo!FifoFull, Fifo!NullPointer, Lemmas!Stored,
     Lemmas!FifoFull, Lemmas!NullPointer

(* The same for _read.                                                     *)
LEMMA ReadOutcome ==
  ASSUME Fifo!RingInv, Fifo!ReadStep, rpc # "return"
  PROVE  /\ phase = "open" /\ UNCHANGED << phase, size, wpc, warg, wres >>
         /\ \/ /\ rpc' \in { "load", "advance", "decrement" }
               /\ UNCHANGED << n, Fifo!Queue >>
            \/ /\ rpc' = "return" /\ pointer' = NULL /\ n = 0
               /\ UNCHANGED << n, Fifo!Queue >>
            \/ /\ rpc' = "return" /\ pointer' = Head(Fifo!Queue) /\ n \in 1 .. size
               /\ n' = n - 1 /\ Fifo!Queue' = Tail(Fifo!Queue)
BY Assumptions, Lemmas!ReadOutcome, SameInvariant, SameCalls, SameQueue

(* Neither to enter a call nor to return from one moves a number.          *)
LEMMA CallsKeepQueue ==
  ASSUME Fifo!RingInv,
         \/ \E p : Fifo!CallWrite(p)
         \/ Fifo!WriteReturn \/ Fifo!CallRead \/ Fifo!ReadReturn
  PROVE  UNCHANGED << n, size, phase, live, Fifo!Queue >>
BY Assumptions, Lemmas!CallsKeepQueue, SameInvariant, SameCalls,
   SameQueue

(* get_count is exact.                                                     *)
LEMMA CountOutcome ==
  ASSUME Fifo!RingInv, Fifo!GetCount("main")
  PROVE  /\ phase = "open" /\ observed'["main"].count = n
         /\ UNCHANGED << n, size, phase, Fifo!Queue, wpc, warg, wres, rpc, pointer >>
<1>1. "main" \in {"main"}
  OBVIOUS
<1>2. QED
  BY <1>1, Assumptions, Lemmas!CountOutcome, SameInvariant, SameCalls,
     SameQueue

-----------------------------------------------------------------------------
(* The inductive invariant of the test: how far it is,                     *)
Progress ==
  /\ step \in 1 .. Last + 1 /\ failures = 0
  /\ phase = "raw" => step \in 1 .. 4
  /\ phase = "open" => step \in 5 .. Last - 1 /\ size = Size
  /\ phase = "aborted" => step = 5 /\ Fifo!Idle
  /\ phase = "done" => step \in Last .. Last + 1 /\ Fifo!Idle

(* that it is in the call of that number, which answers what is expected   *)
(* once it answers,                                                        *)
InOneCall ==
  /\ wpc = "idle" \/ rpc = "idle"
  /\ wpc # "idle" =>
       /\ step \in 1 .. Last /\ warg = Call.arg
       /\ \/ Call.call = "write"
          \/ wpc = "return" /\ Call.call = "write without fifo"
  /\ rpc # "idle" =>
       /\ step \in 1 .. Last
       /\ \/ Call.call = "read"
          \/ rpc = "return" /\ Call.call = "read without fifo"
  /\ wpc = "return" => wres = Call.result
  /\ rpc = "return" => pointer = Call.result

(* and what the fifo holds then.  A call that is about to return has had   *)
(* its effect.                                                             *)
Now == IF wpc = "return" \/ rpc = "return" THEN step + 1 ELSE step

Holds(s) ==
  /\ n = Held(s)
  /\ \A k \in 1 .. n : Fifo!Queue[k] = First(s) + k - 1

ContractInv ==
  /\ Fifo!RingInv
  /\ Progress /\ InOneCall
  /\ phase = "open" => Holds(Now)

(* What the name of the call tells of its number and of what is expected.  *)
LEMMA CallIs ==
  ASSUME step \in 1 .. Last
  PROVE  /\ Call.call = "init" => step = 4
         /\ Call.call = "done" => step \in Last - 1 .. Last
         /\ Call.call = "write" =>
              step \in 5 .. Last - 2 /\ RightWrite(step, Call)
         /\ Call.call = "read" =>
              step \in 5 .. Last - 2 /\ RightRead(step, Call)
         /\ Call.call = "count" =>
              step \in 5 .. Last - 2 /\ RightCount(step, Call)
         /\ Call.call = "write without fifo" =>
              /\ step \in 1 .. 3 /\ Call.arg \in 1 .. Rounds
              /\ Call.result = Fifo!FifoFull
         /\ Call.call = "read without fifo" =>
              step \in 1 .. 3 /\ Call.result = NULL
         /\ Call.call = "count without fifo" =>
              step \in 1 .. 3 /\ Call.result = 0
<1>1. Right(step, Call)
  BY CallsAreRight DEF Call
<1>2. QED
  BY <1>1 DEF Right, RightWithoutFifo, RightWrite, RightRead, RightCount

(* The test is long enough.                                                *)
LEMMA LastIs ==
  Last \in Nat /\ Last >= 20
BY CallsAre

(* A refused or looking call leaves the range as it is.                    *)
LEMMA SameHolds ==
  ASSUME NEW s \in Nat, Same(s), Holds(s)
  PROVE  Holds(s + 1)
BY DEF Same, Holds

(* The invariant holds before the first call,                              *)
LEMMA InitContract ==
  ASSUME Init
  PROVE  ContractInv
<1>1. Fifo!RingInv
  BY Assumptions, SameLifeCycle, SameInvariant, Lemmas!InitRing DEF Init
<1>2. phase = "raw" /\ step = 1 /\ failures = 0 /\ wpc = "idle" /\ rpc = "idle"
  BY DEF Init, Fifo!Init
<1>3. QED
  BY <1>1, <1>2, LastIs DEF ContractInv, Progress, InOneCall

(* The range after a step.                                                 *)
HoldsThen(s) ==
  /\ n' = Held(s)
  /\ \A k \in 1 .. n' : Fifo!Queue'[k] = First(s) + k - 1

(* A stored number extends the range at its end.                           *)
LEMMA StoredHolds ==
  ASSUME Fifo!RingInv, phase = "open",
         NEW s \in Nat, Held(s) \in Nat, First(s) \in Int, Holds(s),
         Held(s + 1) = Held(s) + 1, First(s + 1) = First(s),
         n' = n + 1, Fifo!Queue' = Append(Fifo!Queue, First(s) + Held(s))
  PROVE  HoldsThen(s + 1)
<1> DEFINE q == Fifo!Queue
<1>1. q \in Seq(1 .. Rounds) /\ Len(q) = n /\ n \in Nat
  BY QueueIsSeq
<1>2. n = Held(s) /\ \A k \in 1 .. n : q[k] = First(s) + k - 1
  BY DEF Holds
<1> HIDE DEF q
<1>3. \A k \in 1 .. n + 1 :
         Append(q, First(s) + Held(s))[k] = IF k <= n THEN q[k] ELSE First(s) + Held(s)
  BY <1>1
<1>4. \A k \in 1 .. n + 1 : Append(q, First(s) + Held(s))[k] = First(s) + k - 1
  BY <1>1, <1>2, <1>3
<1>5. n' = Held(s + 1) /\ \A k \in 1 .. n' : Fifo!Queue'[k] = First(s + 1) + k - 1
  BY <1>2, <1>4 DEF q
<1>6. QED
  BY <1>5 DEF HoldsThen

(* A number that was read is gone from its front.                          *)
LEMMA ReadHolds ==
  ASSUME Fifo!RingInv, phase = "open",
         NEW s \in Nat, First(s) \in Int, Holds(s), n >= 1,
         Held(s + 1) = Held(s) - 1, Held(s + 1) = 0 \/ First(s + 1) = First(s) + 1,
         n' = n - 1, Fifo!Queue' = Tail(Fifo!Queue)
  PROVE  Head(Fifo!Queue) = First(s) /\ HoldsThen(s + 1)
<1> DEFINE q == Fifo!Queue
<1>1. q \in Seq(1 .. Rounds) /\ Len(q) = n /\ n \in Nat
  BY QueueIsSeq
<1>2. n = Held(s) /\ \A k \in 1 .. n : q[k] = First(s) + k - 1
  BY DEF Holds
<1> HIDE DEF q
<1>3. Head(q) = q[1] /\ \A k \in 1 .. n - 1 : Tail(q)[k] = q[k + 1]
  BY <1>1
<1>4. \A k \in 1 .. n - 1 : Tail(q)[k] = First(s) + k
  BY <1>1, <1>2, <1>3
<1>5. n' = Held(s + 1) /\ \A k \in 1 .. n' : Fifo!Queue'[k] = First(s + 1) + k - 1
  BY <1>1, <1>2, <1>4 DEF q
<1>6. Head(q) = First(s)
  BY <1>1, <1>2, <1>3
<1>7. QED
  BY <1>5, <1>6 DEF HoldsThen, q

(* The numbers are numbers.                                                *)
LEMMA HeldIs ==
  ASSUME NEW s \in Nat
  PROVE  Held(s) \in Nat /\ First(s) \in Int
BY DEF Held, First

(* and every step of the test preserves it.                                *)
LEMMA ContractStep ==
  ASSUME ContractInv, [Next]_vars
  PROVE  ContractInv'
<1>1. /\ Fifo!RingInv /\ Progress /\ InOneCall
      /\ phase = "open" => Holds(Now)
  BY DEF ContractInv
<1>2. /\ Last \in Nat /\ Last >= 20 /\ step \in Nat /\ step >= 1
      /\ phase \in { "raw", "open", "done", "aborted" }
      /\ Size \in Nat /\ n \in Nat
  BY <1>1, LastIs DEF Progress, Fifo!RingInv, Fifo!TypeOK, Fifo!WidthAssumption
<1>3. Held(step) \in Nat /\ First(step) \in Int
  BY <1>2, HeldIs
<1>4. step' = step => Call' = Call
  BY DEF Call
<1> USE DEF Fifo!Idle
<1>5. CASE CallInit
  <2>1. /\ step = 4 /\ step' = 5 /\ failures' = 0 /\ wpc = "idle" /\ rpc = "idle"
        /\ Fifo!InitFifo(Size) \/ Fifo!AllocationFails(Size)
    BY <1>1, <1>2, <1>5, CallIs DEF CallInit, Ready, Progress
  <2>2. /\ wpc' = "idle" /\ rpc' = "idle"
        /\ \/ phase' = "open" /\ n' = 0 /\ size' = Size
           \/ phase' = "aborted"
    BY <2>1 DEF Fifo!InitFifo, Fifo!AllocationFails, Fifo!producerVars,
       Fifo!consumerVars
  <2>3. Fifo!RingInv'
    BY <1>1, <2>1, FifoStep
  <2>4. Progress' /\ InOneCall'
    BY <1>2, <2>1, <2>2 DEF Progress, InOneCall
  <2>5. phase' = "open" => Holds(Now)'
    <3>1. Now' = 5
      BY <2>1, <2>2 DEF Now
    <3>2. Held(5) = 0
      BY DEF Held
    <3>3. QED
      BY <2>2, <3>1, <3>2 DEF Holds
  <2>6. QED
    BY <2>3, <2>4, <2>5 DEF ContractInv
<1>6. CASE CallDone
  <2>1. /\ step \in Last - 1 .. Last /\ step' = step + 1 /\ failures' = 0
        /\ wpc = "idle" /\ rpc = "idle" /\ Fifo!DoneFifo
    BY <1>1, <1>2, <1>6, CallIs DEF CallDone, Ready, Progress
  <2>2. wpc' = "idle" /\ rpc' = "idle" /\ phase' = "done"
    BY <2>1 DEF Fifo!DoneFifo, Fifo!Done, Fifo!producerVars,
       Fifo!consumerVars
  <2>3. Fifo!RingInv'
    BY <1>1, <2>1, FifoStep
  <2>4. Progress' /\ InOneCall'
    BY <1>2, <2>1, <2>2 DEF Progress, InOneCall
  <2>5. QED
    BY <2>2, <2>3, <2>4 DEF ContractInv
<1>7. CASE CallWrite
  <2>1. /\ step \in 1 .. Last /\ step' = step /\ failures' = failures
        /\ wpc = "idle" /\ rpc = "idle" /\ Now = step
        /\ \/ Call.call = "write" /\ Fifo!CallWrite(Call.arg)
           \/ /\ Call.call = "write without fifo"
              /\ Fifo!WriteNoFifo(Call.arg)
    <3>1. step <= Last /\ wpc = "idle" /\ rpc = "idle"
      BY <1>7 DEF CallWrite, Ready
    <3>2. step \in 1 .. Last /\ Now = step
      BY <1>2, <3>1 DEF Now
    <3>3. QED
      BY <1>7, <3>1, <3>2 DEF CallWrite
  <2>2. CASE Call.call = "write" /\ Fifo!CallWrite(Call.arg)
    <3>1. /\ phase = "open" /\ wpc' = "enter" /\ warg' = Call.arg /\ rpc' = "idle"
          /\ UNCHANGED << n, size, phase, Fifo!Queue >>
      BY <1>1, <2>1, <2>2, CallsKeepQueue DEF Fifo!CallWrite,
         Fifo!consumerVars
    <3>2. Call.arg \in (1 .. Rounds) \cup {NULL}
      BY <2>1, <2>2, CallIs DEF RightWrite
    <3>3. Fifo!RingInv'
      BY <1>1, <2>2, <3>2, FifoStep
    <3>4. Progress' /\ InOneCall'
      BY <1>1, <1>4, <2>1, <2>2, <3>1 DEF Progress, InOneCall
    <3>5. Holds(Now)'
      BY <1>1, <2>1, <3>1 DEF Holds, Now
    <3>6. QED
      BY <3>3, <3>4, <3>5 DEF ContractInv
  <2>3. CASE /\ Call.call = "write without fifo"
             /\ Fifo!WriteNoFifo(Call.arg)
    <3>1. step \in 1 .. 3 /\ Call.result = Fifo!FifoFull /\ phase = "raw"
      <4>1. step \in 1 .. 3 /\ Call.result = Fifo!FifoFull
        BY <2>1, <2>3, CallIs
      <4>2. phase = "raw"
        BY <1>1, <1>2, <4>1 DEF Progress
      <4>3. QED
        BY <4>1, <4>2
    <3>2. /\ wpc' = "return" /\ warg' = Call.arg /\ wres' = Fifo!FifoFull
          /\ rpc' = "idle" /\ phase' = "raw"
      BY <2>1, <2>3, <3>1 DEF Fifo!WriteNoFifo, Fifo!consumerVars,
         Fifo!fifoVars
    <3>3. Fifo!RingInv'
      <4>1. Call.arg \in (1 .. Rounds) \cup {NULL}
        BY <2>1, <2>3, CallIs
      <4>2. QED
        BY <1>1, <2>3, <4>1, FifoStep
    <3>4. Progress' /\ InOneCall'
      BY <1>1, <1>4, <2>1, <2>3, <3>1, <3>2 DEF Progress, InOneCall
    <3>5. QED
      BY <3>2, <3>3, <3>4 DEF ContractInv
  <2>4. QED
    BY <2>1, <2>2, <2>3
<1>8. CASE CallRead
  <2>1. /\ step \in 1 .. Last /\ step' = step /\ failures' = failures
        /\ wpc = "idle" /\ rpc = "idle" /\ Now = step
        /\ \/ Call.call = "read" /\ Fifo!CallRead
           \/ Call.call = "read without fifo" /\ Fifo!ReadNoFifo
    <3>1. step <= Last /\ wpc = "idle" /\ rpc = "idle"
      BY <1>8 DEF CallRead, Ready
    <3>2. step \in 1 .. Last /\ Now = step
      BY <1>2, <3>1 DEF Now
    <3>3. QED
      BY <1>8, <3>1, <3>2 DEF CallRead
  <2>2. Fifo!RingInv'
    BY <1>1, <2>1, FifoStep
  <2>3. CASE Call.call = "read" /\ Fifo!CallRead
    <3>1. /\ phase = "open" /\ rpc' = "enter" /\ wpc' = "idle"
          /\ UNCHANGED << n, size, phase, Fifo!Queue >>
      BY <1>1, <2>1, <2>3, CallsKeepQueue DEF Fifo!CallRead,
         Fifo!producerVars
    <3>2. Progress' /\ InOneCall'
      BY <1>1, <1>4, <2>1, <2>3, <3>1 DEF Progress, InOneCall
    <3>3. Holds(Now)'
      BY <1>1, <2>1, <3>1 DEF Holds, Now
    <3>4. QED
      BY <2>2, <3>2, <3>3 DEF ContractInv
  <2>4. CASE Call.call = "read without fifo" /\ Fifo!ReadNoFifo
    <3>1. step \in 1 .. 3 /\ Call.result = NULL /\ phase = "raw"
      <4>1. step \in 1 .. 3 /\ Call.result = NULL
        BY <2>1, <2>4, CallIs
      <4>2. phase = "raw"
        BY <1>1, <1>2, <4>1 DEF Progress
      <4>3. QED
        BY <4>1, <4>2
    <3>2. /\ rpc' = "return" /\ pointer' = NULL /\ wpc' = "idle" /\ phase' = "raw"
      BY <2>1, <2>4, <3>1 DEF Fifo!ReadNoFifo, Fifo!producerVars,
         Fifo!fifoVars
    <3>3. Progress' /\ InOneCall'
      BY <1>1, <1>4, <2>1, <2>4, <3>1, <3>2 DEF Progress, InOneCall
    <3>4. QED
      BY <2>2, <3>2, <3>3 DEF ContractInv
  <2>5. QED
    BY <2>1, <2>3, <2>4
<1>9. CASE CallCount
  <2>1. /\ step \in 1 .. Last /\ step' = step + 1
        /\ observed'["main"].count = Call.result => failures' = failures
        /\ wpc = "idle" /\ rpc = "idle" /\ Now = step
        /\ \/ Call.call = "count" /\ Fifo!GetCount("main")
           \/ Call.call = "count without fifo" /\ Fifo!GetCountNoFifo("main")
    <3>1. step <= Last /\ wpc = "idle" /\ rpc = "idle"
      BY <1>9 DEF CallCount, Ready
    <3>2. step \in 1 .. Last /\ Now = step
      BY <1>2, <3>1 DEF Now
    <3>3. /\ step' = step + 1
          /\ observed'["main"].count = Call.result => failures' = failures
      BY <1>9 DEF CallCount, Compare
    <3>4. QED
      BY <1>9, <3>1, <3>2, <3>3 DEF CallCount
  <2>2. Fifo!RingInv'
    BY <1>1, <2>1, FifoStep
  <2>3. CASE Call.call = "count" /\ Fifo!GetCount("main")
    <3>1. /\ phase = "open" /\ observed'["main"].count = n
          /\ UNCHANGED << n, size, phase, Fifo!Queue, wpc, rpc >>
      BY <1>1, <2>3, CountOutcome
    <3>2. step \in 5 .. Last - 2 /\ Call.result = Held(step) /\ Same(step)
      BY <2>1, <2>3, CallIs DEF RightCount
    <3>3. failures' = 0
      BY <1>1, <2>1, <3>1, <3>2 DEF Holds, Progress
    <3>4. Progress' /\ InOneCall'
      <4>1. phase' = "open" /\ size' = Size /\ step' \in 5 .. Last - 1
        <5>1. step' = step + 1 /\ phase' = "open" /\ size' = size
          BY <2>1, <3>1
        <5>2. size = Size
          BY <1>1, <3>1 DEF Progress
        <5>3. QED
          BY <1>2, <3>2, <5>1, <5>2
      <4>2. Progress'
        BY <1>2, <3>3, <4>1 DEF Progress
      <4>3. InOneCall'
        BY <2>1, <3>1 DEF InOneCall
      <4>4. QED
        BY <4>2, <4>3
    <3>5. Holds(step + 1)
      BY <1>1, <1>2, <2>1, <3>1, <3>2, SameHolds
    <3>6. Now' = step + 1
      BY <2>1, <3>1 DEF Now
    <3>7. Holds(Now)'
      BY <3>1, <3>5, <3>6 DEF Holds
    <3>8. QED
      BY <2>2, <3>4, <3>7 DEF ContractInv
  <2>4. CASE Call.call = "count without fifo" /\ Fifo!GetCountNoFifo("main")
    <3>1. step \in 1 .. 3 /\ Call.result = 0 /\ phase = "raw"
      <4>1. step \in 1 .. 3 /\ Call.result = 0
        BY <2>1, <2>4, CallIs
      <4>2. phase = "raw"
        BY <1>1, <1>2, <4>1 DEF Progress
      <4>3. QED
        BY <4>1, <4>2
    <3>2. "main" \in DOMAIN observed
      BY <1>1 DEF Fifo!RingInv, Fifo!TypeOK
    <3>3. observed'["main"].count = 0 /\ phase' = "raw" /\ wpc' = "idle" /\ rpc' = "idle"
      BY <2>1, <2>4, <3>1, <3>2 DEF Fifo!GetCountNoFifo, Fifo!fifoVars,
         Fifo!producerVars, Fifo!consumerVars
    <3>4. Progress' /\ InOneCall'
      <4>1. failures' = 0 /\ step' \in 1 .. 4
        <5>1. step' = step + 1 /\ failures' = failures
          BY <2>1, <3>1, <3>3
        <5>2. failures = 0
          BY <1>1 DEF Progress
        <5>3. QED
          BY <3>1, <5>1, <5>2
      <4>2. Progress'
        BY <1>2, <3>3, <4>1 DEF Progress
      <4>3. InOneCall'
        BY <3>3 DEF InOneCall
      <4>4. QED
        BY <4>2, <4>3
    <3>5. QED
      BY <2>2, <3>3, <3>4 DEF ContractInv
  <2>5. QED
    BY <2>1, <2>3, <2>4
<1>10. CASE /\ wpc # "return" /\ Fifo!WriteStep
            /\ UNCHANGED << step, failures >>
  <2>1. Fifo!RingInv'
    BY <1>1, <1>10, FifoStep
  <2>2. /\ phase = "open" /\ phase' = "open" /\ size = Size /\ size' = Size
        /\ warg' = warg /\ rpc' = rpc
    BY <1>1, <1>10, WriteOutcome DEF Progress
  <2>3. wpc # "idle"
    BY <1>10 DEF Fifo!WriteStep, Fifo!WriteNull, Fifo!WriteFull,
       Fifo!WriteHasRoom, Fifo!WriteStore, Fifo!WriteAdvance,
       Fifo!WriteIncrement, Fifo!WriteReturn
  <2>4. /\ rpc = "idle" /\ Call.call = "write" /\ warg = Call.arg
        /\ step \in 1 .. Last /\ Now = step
    BY <1>1, <1>10, <2>3 DEF InOneCall, Now
  <2>5. RightWrite(step, Call) /\ Holds(step)
    BY <1>1, <2>2, <2>4, CallIs
  <2>6. /\ NULL \notin 1 .. Rounds
        /\ Fifo!Stored # Fifo!FifoFull /\ Fifo!Stored # Fifo!NullPointer
        /\ Fifo!FifoFull # Fifo!NullPointer
    BY DEF Fifo!PointerAssumption, Fifo!Stored,
       Fifo!FifoFull, Fifo!NullPointer
  <2>7. wpc' # "return" => UNCHANGED << n, Fifo!Queue >>
    BY <1>1, <1>10, WriteOutcome
  <2>8. wpc' = "return" => wres' = Call.result /\ HoldsThen(step + 1)
    <3> SUFFICES ASSUME wpc' = "return"
                 PROVE  wres' = Call.result /\ HoldsThen(step + 1)
      OBVIOUS
    <3>1. CASE /\ wres' = Fifo!NullPointer /\ warg = NULL
               /\ UNCHANGED << n, Fifo!Queue >>
      <4>1. Call.result = Fifo!NullPointer /\ Same(step)
        BY <2>4, <2>5, <2>6, <3>1 DEF RightWrite
      <4>2. Holds(step + 1)
        BY <1>2, <2>5, <4>1, SameHolds
      <4>3. QED
        BY <3>1, <4>1, <4>2 DEF Holds, HoldsThen
    <3>2. CASE /\ wres' = Fifo!FifoFull /\ warg # NULL /\ n = size
               /\ UNCHANGED << n, Fifo!Queue >>
      <4>1. Held(step) = Size
        BY <2>2, <2>5, <3>2 DEF Holds
      <4>2. Call.result = Fifo!FifoFull /\ Same(step)
        BY <1>2, <2>4, <2>5, <3>2, <4>1 DEF RightWrite
      <4>3. Holds(step + 1)
        BY <1>2, <2>5, <4>2, SameHolds
      <4>4. QED
        BY <3>2, <4>2, <4>3 DEF Holds, HoldsThen
    <3>3. CASE /\ wres' = Fifo!Stored /\ warg # NULL /\ n \in 0 .. size - 1
               /\ n' = n + 1 /\ Fifo!Queue' = Append(Fifo!Queue, warg)
      <4>1. Held(step) # Size
        BY <1>2, <2>2, <2>5, <3>3 DEF Holds
      <4>2. /\ Call.result = Fifo!Stored
            /\ warg = First(step) + Held(step)
            /\ Held(step + 1) = Held(step) + 1 /\ First(step + 1) = First(step)
        BY <2>4, <2>5, <3>3, <4>1 DEF RightWrite
      <4>3. HoldsThen(step + 1)
        BY <1>1, <1>2, <1>3, <2>2, <2>5, <3>3, <4>2, StoredHolds
      <4>4. QED
        BY <3>3, <4>2, <4>3
    <3>4. QED
      BY <1>1, <1>10, <3>1, <3>2, <3>3, WriteOutcome
  <2>9. wpc' \in { "store", "advance", "increment", "return" }
    BY <1>1, <1>10, WriteOutcome
  <2>10. Progress' /\ InOneCall'
    BY <1>1, <1>4, <1>10, <2>2, <2>4, <2>8, <2>9 DEF Progress, InOneCall
  <2>11. Holds(Now)'
    <3>1. CASE wpc' = "return"
      <4>1. Now' = step + 1
        BY <1>10, <3>1 DEF Now
      <4>2. QED
        BY <2>8, <3>1, <4>1 DEF Holds, HoldsThen
    <3>2. CASE wpc' # "return"
      <4>1. Now' = step
        BY <1>10, <2>2, <2>4, <3>2 DEF Now
      <4>2. QED
        BY <2>5, <2>7, <3>2, <4>1 DEF Holds
    <3>3. QED
      BY <3>1, <3>2
  <2>12. QED
    BY <2>1, <2>10, <2>11 DEF ContractInv
<1>11. CASE /\ rpc # "return" /\ Fifo!ReadStep
            /\ UNCHANGED << step, failures >>
  <2>1. Fifo!RingInv'
    BY <1>1, <1>11, FifoStep
  <2>2. /\ phase = "open" /\ phase' = "open" /\ size = Size /\ size' = Size
        /\ warg' = warg /\ wpc' = wpc
    BY <1>1, <1>11, ReadOutcome DEF Progress
  <2>3. rpc # "idle"
    BY <1>11 DEF Fifo!ReadStep, Fifo!ReadEmpty, Fifo!ReadHasPointer,
       Fifo!ReadLoad, Fifo!ReadAdvance, Fifo!ReadDecrement,
       Fifo!ReadReturn
  <2>4. /\ wpc = "idle" /\ Call.call = "read"
        /\ step \in 1 .. Last /\ Now = step
    BY <1>1, <1>11, <2>3 DEF InOneCall, Now
  <2>5. RightRead(step, Call) /\ Holds(step)
    BY <1>1, <2>2, <2>4, CallIs
  <2>6. rpc' # "return" => UNCHANGED << n, Fifo!Queue >>
    BY <1>1, <1>11, ReadOutcome
  <2>7. rpc' = "return" => pointer' = Call.result /\ HoldsThen(step + 1)
    <3> SUFFICES ASSUME rpc' = "return"
                 PROVE  pointer' = Call.result /\ HoldsThen(step + 1)
      OBVIOUS
    <3>1. CASE pointer' = NULL /\ n = 0 /\ UNCHANGED << n, Fifo!Queue >>
      <4>1. Held(step) = 0
        BY <2>5, <3>1 DEF Holds
      <4>2. Call.result = NULL /\ Same(step)
        BY <2>5, <4>1 DEF RightRead
      <4>3. Holds(step + 1)
        BY <1>2, <2>5, <4>2, SameHolds
      <4>4. QED
        BY <3>1, <4>2, <4>3 DEF Holds, HoldsThen
    <3>2. CASE /\ pointer' = Head(Fifo!Queue) /\ n \in 1 .. size
               /\ n' = n - 1 /\ Fifo!Queue' = Tail(Fifo!Queue)
      <4>1. n >= 1 /\ Held(step) # 0
        BY <1>2, <2>2, <2>5, <3>2 DEF Holds
      <4>2. /\ Call.result = First(step)
            /\ Held(step + 1) = Held(step) - 1
            /\ Held(step + 1) = 0 \/ First(step + 1) = First(step) + 1
        BY <2>5, <4>1 DEF RightRead
      <4>3. Head(Fifo!Queue) = First(step) /\ HoldsThen(step + 1)
        BY <1>1, <1>2, <1>3, <2>2, <2>5, <3>2, <4>1, <4>2, ReadHolds
      <4>4. QED
        BY <3>2, <4>2, <4>3
    <3>3. QED
      BY <1>1, <1>11, <3>1, <3>2, ReadOutcome
  <2>8. rpc' \in { "load", "advance", "decrement", "return" }
    BY <1>1, <1>11, ReadOutcome
  <2>9. Progress' /\ InOneCall'
    BY <1>1, <1>4, <1>11, <2>2, <2>4, <2>7, <2>8 DEF Progress, InOneCall
  <2>10. Holds(Now)'
    <3>1. CASE rpc' = "return"
      <4>1. Now' = step + 1
        BY <1>11, <3>1 DEF Now
      <4>2. QED
        BY <2>7, <3>1, <4>1 DEF Holds, HoldsThen
    <3>2. CASE rpc' # "return"
      <4>1. Now' = step
        BY <1>11, <2>2, <2>4, <3>2 DEF Now
      <4>2. QED
        BY <2>5, <2>6, <3>2, <4>1 DEF Holds
    <3>3. QED
      BY <3>1, <3>2
  <2>11. QED
    BY <2>1, <2>9, <2>10 DEF ContractInv
<1>12. CASE WriteReturned
  <2>1. /\ wpc = "return" /\ wpc' = "idle" /\ rpc' = rpc /\ step' = step + 1
        /\ failures' = IF wres = Call.result THEN failures ELSE failures + 1
        /\ UNCHANGED << n, size, phase, Fifo!Queue >>
    BY <1>1, <1>12, CallsKeepQueue DEF WriteReturned, Compare,
       Fifo!WriteReturn, Fifo!consumerVars
  <2>2. /\ rpc = "idle" /\ wres = Call.result /\ step \in 1 .. Last
        /\ Call.call = "write" \/ Call.call = "write without fifo"
    BY <1>1, <2>1 DEF InOneCall
  <2>3. step \in 5 .. Last - 2 \/ step \in 1 .. 3
    BY <2>2, CallIs
  <2>4. Fifo!RingInv'
    BY <1>1, <1>12, FifoStep DEF WriteReturned, Fifo!WriteStep
  <2>5. Progress' /\ InOneCall'
    <3>1. failures' = 0 /\ step' = step + 1 /\ phase' = phase /\ size' = size
      BY <1>1, <2>1, <2>2 DEF Progress
    <3>2. \/ phase = "raw" /\ step <= 3
          \/ phase = "open" /\ step \in 5 .. Last - 2
      BY <1>1, <1>2, <2>1, <2>3 DEF Progress
    <3>3. Progress'
      BY <1>1, <1>2, <3>1, <3>2 DEF Progress
    <3>4. InOneCall'
      BY <2>1, <2>2 DEF InOneCall
    <3>5. QED
      BY <3>3, <3>4
  <2>6. Now = step + 1 /\ Now' = step + 1
    BY <2>1, <2>2 DEF Now
  <2>7. phase' = "open" => Holds(Now)'
    BY <1>1, <2>1, <2>6 DEF Holds
  <2>8. QED
    BY <2>4, <2>5, <2>7 DEF ContractInv
<1>13. CASE ReadReturned
  <2>1. /\ rpc = "return" /\ rpc' = "idle" /\ wpc' = wpc /\ step' = step + 1
        /\ failures' = IF pointer = Call.result THEN failures ELSE failures + 1
        /\ UNCHANGED << n, size, phase, Fifo!Queue >>
    BY <1>1, <1>13, CallsKeepQueue DEF ReadReturned, Compare,
       Fifo!ReadReturn, Fifo!producerVars
  <2>2. /\ wpc = "idle" /\ pointer = Call.result /\ step \in 1 .. Last
        /\ Call.call = "read" \/ Call.call = "read without fifo"
    BY <1>1, <2>1 DEF InOneCall
  <2>3. step \in 5 .. Last - 2 \/ step \in 1 .. 3
    BY <2>2, CallIs
  <2>4. Fifo!RingInv'
    BY <1>1, <1>13, FifoStep DEF ReadReturned, Fifo!ReadStep
  <2>5. Progress' /\ InOneCall'
    <3>1. failures' = 0 /\ step' = step + 1 /\ phase' = phase /\ size' = size
      BY <1>1, <2>1, <2>2 DEF Progress
    <3>2. \/ phase = "raw" /\ step <= 3
          \/ phase = "open" /\ step \in 5 .. Last - 2
      BY <1>1, <1>2, <2>1, <2>3 DEF Progress
    <3>3. Progress'
      BY <1>1, <1>2, <3>1, <3>2 DEF Progress
    <3>4. InOneCall'
      BY <2>1, <2>2 DEF InOneCall
    <3>5. QED
      BY <3>3, <3>4
  <2>6. Now = step + 1 /\ Now' = step + 1
    BY <2>1, <2>2 DEF Now
  <2>7. phase' = "open" => Holds(Now)'
    BY <1>1, <2>1, <2>6 DEF Holds
  <2>8. QED
    BY <2>4, <2>5, <2>7 DEF ContractInv
<1>14. CASE UNCHANGED vars
  <2>1. UNCHANGED ringVars /\ UNCHANGED << step, failures >>
    BY <1>14 DEF vars
  <2>2. Fifo!RingInv'
    BY <1>1, <2>1, FifoStep
  <2>3. UNCHANGED << n, phase, size, wpc, warg, wres, rpc, pointer, Fifo!Queue >>
    BY <2>1 DEF ringVars, Fifo!Queue, Fifo!At, Fifo!Oldest,
       Fifo!Back
  <2>4. Progress' /\ InOneCall' /\ Now' = Now
    BY <1>1, <1>4, <2>1, <2>3 DEF Progress, InOneCall, Now
  <2>5. phase' = "open" => Holds(Now)'
    BY <1>1, <2>3, <2>4 DEF Holds
  <2>6. QED
    BY <2>2, <2>4, <2>5 DEF ContractInv
<1>15. QED
  BY <1>5, <1>6, <1>7, <1>8, <1>9, <1>10, <1>11, <1>12, <1>13, <1>14
     DEF Next, Main, InCall, Ended

(* The contract test passes, whatever the size of the fifo and the number  *)
(* of rounds: every call returns what is expected, over any number of      *)
(* wraparounds, and at the end no storage is left.                         *)
THEOREM ContractPasses == Spec => []Passes
<1>1. Init => ContractInv
  BY InitContract
<1>2. ContractInv /\ [Next]_vars => ContractInv'
  BY ContractStep
<1>3. ContractInv => Passes
  <2> SUFFICES ASSUME ContractInv
               PROVE  failures = 0 /\ (step > Last => live = {})
    BY DEF Passes
  <2>1. failures = 0
    BY DEF ContractInv, Progress
  <2>2. ASSUME step > Last
        PROVE  live = {}
    <3>1. phase # "open"
      BY <2>2, LastIs DEF ContractInv, Progress
    <3>2. live = {storage} \cap Blocks /\ storage \notin Blocks
      BY <3>1 DEF ContractInv, Fifo!RingInv, Fifo!OwnsOneBlock
    <3>3. QED
      BY <3>2
  <2>3. QED
    BY <2>1, <2>2
<1>4. QED
  BY <1>1, <1>2, <1>3, PTL DEF Spec

-----------------------------------------------------------------------------
(* The generated fifos.                                                    *)

CONSTANTS Pointers, Observers

VARIABLES open

Generated == INSTANCE GeneratedFifos

(* Every delivered fifo implements the bounded fifo of the capacity in its *)
(* name, on every platform whose unsigned int can hold the largest one,    *)
(* which C guarantees (at least 16 bits), and whose uintptr_t is no        *)
(* narrower.                                                               *)
THEOREM AllImplement ==
  ASSUME UIntMod \in Nat, UIntPtrMod \in Nat,
         8192 < UIntMod, UIntMod <= UIntPtrMod,
         NULL \notin Pointers, Garbage \notin Pointers
  PROVE  /\ Generated!Fifo4!Spec => Generated!Fifo4!Implements
         /\ Generated!Fifo8!Spec => Generated!Fifo8!Implements
         /\ Generated!Fifo16!Spec => Generated!Fifo16!Implements
         /\ Generated!Fifo32!Spec => Generated!Fifo32!Implements
         /\ Generated!Fifo64!Spec => Generated!Fifo64!Implements
         /\ Generated!Fifo128!Spec => Generated!Fifo128!Implements
         /\ Generated!Fifo256!Spec => Generated!Fifo256!Implements
         /\ Generated!Fifo512!Spec => Generated!Fifo512!Implements
         /\ Generated!Fifo1024!Spec => Generated!Fifo1024!Implements
         /\ Generated!Fifo2048!Spec => Generated!Fifo2048!Implements
         /\ Generated!Fifo4096!Spec => Generated!Fifo4096!Implements
         /\ Generated!Fifo8192!Spec => Generated!Fifo8192!Implements
<1>1. Generated!Fifo4!Spec => Generated!Fifo4!Implements
  <2>1. /\ Generated!Fifo4!SizeAssumption
        /\ Generated!Fifo4!WidthAssumption
        /\ Generated!Fifo4!PointerAssumption
    BY DEF Generated!Fifo4!SizeAssumption, Generated!Fifo4!WidthAssumption,
       Generated!Fifo4!PointerAssumption
  <2>2. QED
    BY <2>1, Generated!Fifo4!Refinement
<1>2. Generated!Fifo8!Spec => Generated!Fifo8!Implements
  <2>1. /\ Generated!Fifo8!SizeAssumption
        /\ Generated!Fifo8!WidthAssumption
        /\ Generated!Fifo8!PointerAssumption
    BY DEF Generated!Fifo8!SizeAssumption, Generated!Fifo8!WidthAssumption,
       Generated!Fifo8!PointerAssumption
  <2>2. QED
    BY <2>1, Generated!Fifo8!Refinement
<1>3. Generated!Fifo16!Spec => Generated!Fifo16!Implements
  <2>1. /\ Generated!Fifo16!SizeAssumption
        /\ Generated!Fifo16!WidthAssumption
        /\ Generated!Fifo16!PointerAssumption
    BY DEF Generated!Fifo16!SizeAssumption, Generated!Fifo16!WidthAssumption,
       Generated!Fifo16!PointerAssumption
  <2>2. QED
    BY <2>1, Generated!Fifo16!Refinement
<1>4. Generated!Fifo32!Spec => Generated!Fifo32!Implements
  <2>1. /\ Generated!Fifo32!SizeAssumption
        /\ Generated!Fifo32!WidthAssumption
        /\ Generated!Fifo32!PointerAssumption
    BY DEF Generated!Fifo32!SizeAssumption, Generated!Fifo32!WidthAssumption,
       Generated!Fifo32!PointerAssumption
  <2>2. QED
    BY <2>1, Generated!Fifo32!Refinement
<1>5. Generated!Fifo64!Spec => Generated!Fifo64!Implements
  <2>1. /\ Generated!Fifo64!SizeAssumption
        /\ Generated!Fifo64!WidthAssumption
        /\ Generated!Fifo64!PointerAssumption
    BY DEF Generated!Fifo64!SizeAssumption, Generated!Fifo64!WidthAssumption,
       Generated!Fifo64!PointerAssumption
  <2>2. QED
    BY <2>1, Generated!Fifo64!Refinement
<1>6. Generated!Fifo128!Spec => Generated!Fifo128!Implements
  <2>1. /\ Generated!Fifo128!SizeAssumption
        /\ Generated!Fifo128!WidthAssumption
        /\ Generated!Fifo128!PointerAssumption
    BY DEF Generated!Fifo128!SizeAssumption, Generated!Fifo128!WidthAssumption,
       Generated!Fifo128!PointerAssumption
  <2>2. QED
    BY <2>1, Generated!Fifo128!Refinement
<1>7. Generated!Fifo256!Spec => Generated!Fifo256!Implements
  <2>1. /\ Generated!Fifo256!SizeAssumption
        /\ Generated!Fifo256!WidthAssumption
        /\ Generated!Fifo256!PointerAssumption
    BY DEF Generated!Fifo256!SizeAssumption, Generated!Fifo256!WidthAssumption,
       Generated!Fifo256!PointerAssumption
  <2>2. QED
    BY <2>1, Generated!Fifo256!Refinement
<1>8. Generated!Fifo512!Spec => Generated!Fifo512!Implements
  <2>1. /\ Generated!Fifo512!SizeAssumption
        /\ Generated!Fifo512!WidthAssumption
        /\ Generated!Fifo512!PointerAssumption
    BY DEF Generated!Fifo512!SizeAssumption, Generated!Fifo512!WidthAssumption,
       Generated!Fifo512!PointerAssumption
  <2>2. QED
    BY <2>1, Generated!Fifo512!Refinement
<1>9. Generated!Fifo1024!Spec => Generated!Fifo1024!Implements
  <2>1. /\ Generated!Fifo1024!SizeAssumption
        /\ Generated!Fifo1024!WidthAssumption
        /\ Generated!Fifo1024!PointerAssumption
    BY DEF Generated!Fifo1024!SizeAssumption, Generated!Fifo1024!WidthAssumption,
       Generated!Fifo1024!PointerAssumption
  <2>2. QED
    BY <2>1, Generated!Fifo1024!Refinement
<1>10. Generated!Fifo2048!Spec => Generated!Fifo2048!Implements
  <2>1. /\ Generated!Fifo2048!SizeAssumption
        /\ Generated!Fifo2048!WidthAssumption
        /\ Generated!Fifo2048!PointerAssumption
    BY DEF Generated!Fifo2048!SizeAssumption, Generated!Fifo2048!WidthAssumption,
       Generated!Fifo2048!PointerAssumption
  <2>2. QED
    BY <2>1, Generated!Fifo2048!Refinement
<1>11. Generated!Fifo4096!Spec => Generated!Fifo4096!Implements
  <2>1. /\ Generated!Fifo4096!SizeAssumption
        /\ Generated!Fifo4096!WidthAssumption
        /\ Generated!Fifo4096!PointerAssumption
    BY DEF Generated!Fifo4096!SizeAssumption, Generated!Fifo4096!WidthAssumption,
       Generated!Fifo4096!PointerAssumption
  <2>2. QED
    BY <2>1, Generated!Fifo4096!Refinement
<1>12. Generated!Fifo8192!Spec => Generated!Fifo8192!Implements
  <2>1. /\ Generated!Fifo8192!SizeAssumption
        /\ Generated!Fifo8192!WidthAssumption
        /\ Generated!Fifo8192!PointerAssumption
    BY DEF Generated!Fifo8192!SizeAssumption, Generated!Fifo8192!WidthAssumption,
       Generated!Fifo8192!PointerAssumption
  <2>2. QED
    BY <2>1, Generated!Fifo8192!Refinement
<1>13. QED
  BY <1>1, <1>2, <1>3, <1>4, <1>5, <1>6, <1>7, <1>8, <1>9, <1>10, <1>11, <1>12

=============================================================================
