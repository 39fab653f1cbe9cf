---- MODULE UsbHidProofs ----
(* Proofs about UsbHid: the ring of waiting reports is a queue that forgets  *)
(* its oldest entry, for every size of the ring and every width of its       *)
(* pointers, and keys are released as long as no key report has to wait.     *)
EXTENDS UsbHid, SequenceTheorems, TLAPS

------------------------------------------------------------------------------
(* Remainders.                                                               *)
LEMMA DivMod ==
    ASSUME NEW m \in Nat \ {0}, NEW x \in Int
    PROVE  \E q \in Int, r \in 0 .. m - 1 : x = m * q + r /\ x % m = r
<1>1. x = m * (x \div m) + (x % m) /\ x % m \in 0 .. m - 1 /\ x \div m \in Int
    OBVIOUS
<1> QED BY <1>1

LEMMA ModUnique ==
    ASSUME NEW m \in Nat \ {0}, NEW q \in Int, NEW p \in Int, NEW r \in 0 .. m - 1, NEW s \in 0 .. m - 1,
           m * q + r = m * p + s
    PROVE  r = s
<1>1. m * (q - p) = s - r
    OBVIOUS
<1>2. CASE q - p >= 1
    <2>1. m * (q - p) >= m
        BY <1>2
    <2> QED BY <1>1, <2>1
<1>3. CASE q - p <= -1
    <2>1. m * (q - p) <= - m
        BY <1>3
    <2> QED BY <1>1, <2>1
<1> QED BY <1>1, <1>2, <1>3

LEMMA ModIs ==
    ASSUME NEW m \in Nat \ {0}, NEW q \in Int, NEW r \in 0 .. m - 1, NEW x \in Int, x = m * q + r
    PROVE  x % m = r
<1>1. PICK p \in Int, s \in 0 .. m - 1 : x = m * p + s /\ x % m = s
    BY DivMod
<1>2. m * q + r = m * p + s
    BY <1>1
<1>3. r = s
    BY <1>2, ModUnique
<1> QED BY <1>1, <1>3

(* Numbers a multiple apart have the same remainder.                         *)
LEMMA ModCongruent ==
    ASSUME NEW m \in Nat \ {0}, NEW x \in Int, NEW y \in Int, NEW k \in Int, y = x + m * k
    PROVE  y % m = x % m
<1>1. PICK p \in Int, s \in 0 .. m - 1 : x = m * p + s /\ x % m = s
    BY DivMod
<1>2. PICK q \in Int, t \in 0 .. m - 1 : y = m * q + t /\ y % m = t
    BY DivMod
<1>3. PICK o \in Int : o = p + k
    OBVIOUS
<1>4. m * o + s = m * q + t
    BY <1>1, <1>2, <1>3
<1>5. s = t
    BY <1>4, ModUnique
<1> QED BY <1>1, <1>2, <1>5

LEMMA ModSmall ==
    ASSUME NEW m \in Nat \ {0}, NEW x \in 0 .. m - 1
    PROVE  x % m = x
<1>1. m * 0 = 0 /\ 0 \in Int
    OBVIOUS
<1>2. PICK q \in Int : m * q = 0
    BY <1>1
<1>3. x = m * q + x /\ x \in Int
    BY <1>2
<1> QED BY <1>3, ModIs

(* Numbers less than m apart have different remainders.                      *)
LEMMA ModDistinct ==
    ASSUME NEW m \in Nat \ {0}, NEW x \in Int, NEW d \in 1 .. m - 1, NEW y \in Int, y = x + d
    PROVE  x % m # y % m
<1>1. PICK p \in Int, s \in 0 .. m - 1 : x = m * p + s /\ x % m = s
    BY DivMod
<1>2. PICK q \in Int, t \in 0 .. m - 1 : y = m * q + t /\ y % m = t
    BY DivMod
<1> SUFFICES ASSUME s = t PROVE FALSE
    BY <1>1, <1>2
<1>3. m * (q - p) = d
    BY <1>1, <1>2
<1>4. CASE q - p >= 1
    <2>1. m * (q - p) >= m
        BY <1>4
    <2> QED BY <1>3, <2>1
<1>5. CASE q - p <= 0
    <2>1. m * (q - p) <= 0
        BY <1>5
    <2> QED BY <1>3, <2>1
<1> QED BY <1>4, <1>5

(* One step forward, and the distance between two pointers.                  *)
LEMMA ModStep ==
    ASSUME NEW m \in Nat \ {0}, NEW w \in 0 .. m - 1, NEW r \in 0 .. m - 1
    PROVE  /\ (w + 1) % m = IF w = m - 1 THEN 0 ELSE w + 1
           /\ (w - r) % m = IF w >= r THEN w - r ELSE w - r + m
<1>1. CASE w = m - 1
    <2>1. PICK x \in Int, q \in Int, z \in 0 .. m - 1 : x = w + 1 /\ q = 1 /\ z = 0 /\ m * q = m
        OBVIOUS
    <2>2. x = m * q + z
        BY <1>1, <2>1
    <2>3. x % m = z
        BY <2>2, ModIs
    <2> QED BY <1>1, <2>1, <2>3
<1>2. CASE w # m - 1
    <2>1. PICK x \in 0 .. m - 1 : x = w + 1
        BY <1>2
    <2> QED BY <1>2, <2>1, ModSmall
<1>3. (w + 1) % m = IF w = m - 1 THEN 0 ELSE w + 1
    BY <1>1, <1>2
<1>4. CASE w >= r
    <2>1. PICK x \in 0 .. m - 1 : x = w - r
        BY <1>4
    <2> QED BY <1>3, <1>4, <2>1, ModSmall
<1>5. CASE w < r
    <2>1. PICK x \in Int, q \in Int, z \in 0 .. m - 1 : x = w - r /\ q = -1 /\ z = w - r + m /\ m * q = - m
        BY <1>5
    <2>2. x = m * q + z
        BY <2>1
    <2>3. x % m = z
        BY <2>2, ModIs
    <2> QED BY <1>3, <1>5, <2>1, <2>3
<1> QED BY <1>4, <1>5

------------------------------------------------------------------------------
(* The pointers of the ring: what a step of either does to the number of     *)
(* entries and to the cells, wrap-around included.                           *)
Pointers == 0 .. PtrMod - 1
Next1(p) == (p + 1) % PtrMod
Cell(p) == p % FifoNum

(* Of a ring with u entries whose pointers are w and r.                      *)
PointerLaws(w, r, u) ==
    /\ u \in 0 .. FifoNum /\ Next1(w) \in Pointers /\ Next1(r) \in Pointers
    /\ u = 0 <=> w = r
    /\ (w + 1 - r) % (2 * FifoNum) = u + 1
    /\ u < FifoNum => (Next1(w) - r) % PtrMod = u + 1
    /\ (Next1(w) - Next1(r)) % PtrMod = u
    /\ u > 0 => (w - Next1(r)) % PtrMod = u - 1
    /\ Cell(w) = Cell(r + u)
    /\ \A i \in Int : Cell(Next1(r) + i - 1) = Cell(r + i)

LEMMA PointerFacts ==
    ASSUME NEW w \in Pointers, NEW r \in Pointers, NEW u, u = (w - r) % PtrMod, u <= FifoNum
    PROVE  PointerLaws(w, r, u)
<1>1. FifoNum \in Nat /\ FifoNum >= 2 /\ PtrMod \in Nat \ {0}
    BY UsbHidAssumption
<1>2. PICK n \in Nat \ {0} : n = 2 * FifoNum
    BY <1>1
<1>3. PtrMod % n = 0
    BY <1>2, UsbHidAssumption
<1>4. PICK k \in Int, z \in 0 .. n - 1 : PtrMod = n * k + z /\ PtrMod % n = z
    <2>1. n \in Nat \ {0} /\ PtrMod \in Int
        BY <1>1
    <2> QED BY <2>1, DivMod
<1>5. PtrMod = n * k
    BY <1>3, <1>4
<1>6. k >= 1
    <2>1. CASE k <= 0
        <3>1. n * k <= 0
            BY <2>1
        <3> QED BY <1>1, <1>5, <3>1
    <2> QED BY <2>1
<1>7. PtrMod >= n
    <2>1. n * k >= n
        BY <1>6
    <2> QED BY <1>5, <2>1
<1>8. w \in 0 .. PtrMod - 1 /\ r \in 0 .. PtrMod - 1
    BY DEF Pointers
<1>9. /\ Next1(w) = IF w = PtrMod - 1 THEN 0 ELSE w + 1
      /\ Next1(r) = IF r = PtrMod - 1 THEN 0 ELSE r + 1
      /\ u = IF w >= r THEN w - r ELSE w - r + PtrMod
    BY <1>1, <1>8, ModStep DEF Next1
<1>10. Next1(w) \in 0 .. PtrMod - 1 /\ Next1(r) \in 0 .. PtrMod - 1
    BY <1>1, <1>8, <1>9
<1>11. u \in 0 .. FifoNum /\ (u = 0 <=> w = r)
    BY <1>1, <1>8, <1>9
<1>12. /\ u < FifoNum => (Next1(w) - r) % PtrMod = u + 1
       /\ (Next1(w) - Next1(r)) % PtrMod = u
       /\ u > 0 => (w - Next1(r)) % PtrMod = u - 1
    <2>1. /\ (Next1(w) - r) % PtrMod = IF Next1(w) >= r THEN Next1(w) - r ELSE Next1(w) - r + PtrMod
          /\ (Next1(w) - Next1(r)) % PtrMod =
                IF Next1(w) >= Next1(r) THEN Next1(w) - Next1(r) ELSE Next1(w) - Next1(r) + PtrMod
          /\ (w - Next1(r)) % PtrMod = IF w >= Next1(r) THEN w - Next1(r) ELSE w - Next1(r) + PtrMod
        BY <1>1, <1>8, <1>10, ModStep
    <2> QED BY <1>1, <1>2, <1>7, <1>8, <1>9, <1>11, <2>1
<1>13. (w + 1 - r) % n = u + 1
    <2>1. PICK x \in Int, y \in 0 .. n - 1 : x = w + 1 - r /\ y = u + 1
        BY <1>1, <1>2, <1>8, <1>11
    <2>2. PICK j \in Int : x = y + n * j
        <3>1. CASE w >= r
            <4>1. n * 0 = 0 /\ 0 \in Int
                OBVIOUS
            <4> QED BY <1>8, <1>9, <2>1, <3>1, <4>1
        <3>2. CASE w < r
            <4>1. n * (- k) = - PtrMod /\ - k \in Int
                BY <1>5
            <4>2. x = y - PtrMod
                BY <1>1, <1>8, <1>9, <2>1, <3>2
            <4> QED BY <1>1, <4>1, <4>2
        <3> QED BY <1>8, <3>1, <3>2
    <2>3. x % n = y % n
        <3>1. PICK v \in Int : v = y
            OBVIOUS
        <3>2. x = v + n * j
            BY <2>2, <3>1
        <3>3. x % n = v % n
            BY <3>2, ModCongruent
        <3> QED BY <3>1, <3>3
    <2>4. y % n = y
        BY ModSmall
    <2> QED BY <2>1, <2>3, <2>4
<1>14. PICK h \in Int : PtrMod = FifoNum * h
    <2>1. PtrMod = FifoNum * (2 * k) /\ 2 * k \in Int
        BY <1>1, <1>2, <1>5
    <2> QED BY <2>1
<1>15. Cell(w) = Cell(r + u)
    <2>1. PICK x \in Int : x = r + u
        BY <1>8, <1>11
    <2>2. CASE x = w
        BY <2>1, <2>2
    <2>3. CASE x = w + FifoNum * h
        <3>1. FifoNum \in Nat \ {0} /\ w \in Int
            BY <1>1, <1>8
        <3>2. x % FifoNum = w % FifoNum
            BY <2>3, <3>1, ModCongruent
        <3> QED BY <2>1, <3>2 DEF Cell
    <2>4. x = w \/ x = w + PtrMod
        BY <1>1, <1>8, <1>9, <2>1
    <2> QED BY <1>14, <2>2, <2>3, <2>4
<1>16. ASSUME NEW i \in Int PROVE Cell(Next1(r) + i - 1) = Cell(r + i)
    <2>1. PICK x \in Int, y \in Int : x = Next1(r) + i - 1 /\ y = r + i
        BY <1>8, <1>10
    <2>2. CASE y = x
        BY <2>1, <2>2
    <2>3. CASE y = x + FifoNum * h
        <3>1. FifoNum \in Nat \ {0}
            BY <1>1
        <3>2. y % FifoNum = x % FifoNum
            BY <2>3, <3>1, ModCongruent
        <3> QED BY <2>1, <3>2 DEF Cell
    <2>4. y = x \/ y = x + PtrMod
        BY <1>1, <1>8, <1>9, <2>1
    <2> QED BY <1>14, <2>2, <2>3, <2>4
<1> QED BY <1>2, <1>10, <1>11, <1>12, <1>13, <1>15, <1>16 DEF Pointers, PointerLaws

(* The cells of one ring's worth of entries are different ones.              *)
LEMMA CellFacts ==
    ASSUME NEW r \in Int
    PROVE  /\ Cell(r) \in 0 .. FifoNum - 1
           /\ \A i, j \in Int : i < j /\ j - i < FifoNum => Cell(r + i) # Cell(r + j)
<1>1. FifoNum \in Nat \ {0}
    BY UsbHidAssumption
<1>2. Cell(r) \in 0 .. FifoNum - 1
    BY <1>1, DivMod DEF Cell
<1>3. ASSUME NEW i \in Int, NEW j \in Int, i < j, j - i < FifoNum PROVE Cell(r + i) # Cell(r + j)
    <2>1. PICK x \in Int, y \in Int, d \in 1 .. FifoNum - 1 : x = r + i /\ y = r + j /\ d = j - i
        BY <1>1, <1>3
    <2>2. y = x + d
        BY <2>1
    <2>3. x % FifoNum # y % FifoNum
        BY <1>1, <2>2, ModDistinct
    <2> QED BY <2>1, <2>3 DEF Cell
<1> QED BY <1>2, <1>3

------------------------------------------------------------------------------
(* The inductive invariant. Both rings hold what their pointers say is in    *)
(* them: reports, and movements of the mouse.                                *)
Entry(i) == slots[Cell(rptr + i - 1)]

InRing(j) == IF frameRptr <= frameWptr THEN frameRptr <= j /\ j < frameWptr
             ELSE frameRptr <= j \/ j < frameWptr

Rings == /\ slots \in [0 .. FifoNum - 1 -> Reports]
         /\ frames \in [0 .. FrameNum - 1 -> 0 .. MaxMoves]
         /\ \A j \in 0 .. FrameNum - 1 : InRing(j) => frames[j] \in Moves
         /\ moves \in 0 .. MaxMoves

(* As long as no key report had to wait, only reports of the mouse wait, and *)
(* a key the host knows of as pressed has its not-released bit.              *)
OnlyMouseWaits == ~ late => \A i \in 1 .. Used : Entry(i).id = "mouse"

PressedIsKnown == ~ late => \A id \in KeyIds : shown[id] # NoKey => id \in notReleased

(* The call the main loop is in is about what a device said last.            *)
CallIsLatest == /\ held \in {NoKey, last}
                /\ call.stage \in {"kb", "sys"} => call.key = held
                /\ call.stage = "media" => call.key \in {held, consumer}

(* What ReleasedInTime says of a kind of key holds from the moment the call  *)
(* has gone past that kind.                                                  *)
KindsPassed ==
    ~ late =>
        /\ call.stage # "kb" /\ held \notin NormalKeys => shown["kb"] = NoKey
        /\ call.stage \notin {"kb", "sys"} /\ held \notin SysKeys => shown["sys"] = NoKey
        /\ call.stage \notin {"kb", "sys", "media"} /\ held \notin MediaKeys /\ consumer = NoKey
              => shown["media"] = NoKey

IInv == TypeOK /\ Rings /\ OnlyMouseWaits /\ PressedIsKnown /\ CallIsLatest /\ KindsPassed

------------------------------------------------------------------------------
(* What the pointers say of the ring now.                                    *)
LEMMA RingFacts ==
    ASSUME TypeOK
    PROVE  /\ rptr \in Pointers /\ wptr \in Pointers /\ rptr \in Int
           /\ Used = (wptr - rptr) % PtrMod /\ Used <= FifoNum /\ Used \in 0 .. FifoNum
           /\ Next1(wptr) \in Pointers /\ Next1(rptr) \in Pointers
           /\ Used = 0 <=> wptr = rptr
           /\ (wptr + 1 - rptr) % (2 * FifoNum) = Used + 1
           /\ Used < FifoNum => (Next1(wptr) - rptr) % PtrMod = Used + 1
           /\ (Next1(wptr) - Next1(rptr)) % PtrMod = Used
           /\ Used > 0 => (wptr - Next1(rptr)) % PtrMod = Used - 1
           /\ Cell(wptr) = Cell(rptr + Used)
           /\ \A i \in Int : Cell(Next1(rptr) + i - 1) = Cell(rptr + i)
<1>1. rptr \in Pointers /\ wptr \in Pointers /\ Used <= FifoNum /\ PtrMod \in Nat \ {0}
    BY UsbHidAssumption DEF TypeOK, Pointers
<1>2. PICK w \in Pointers, r \in Pointers, u \in {Used} : w = wptr /\ r = rptr /\ u = Used
    BY <1>1
<1>3. u = (w - r) % PtrMod /\ u <= FifoNum
    BY <1>1, <1>2 DEF Used
<1>4. PointerLaws(w, r, u)
    BY <1>3, PointerFacts
<1>5. rptr \in Int
    BY <1>1 DEF Pointers
<1> QED BY <1>1, <1>2, <1>3, <1>4, <1>5 DEF PointerLaws

(* Putting a report in: it is the newest entry, and the oldest is forgotten  *)
(* exactly when the ring was full.                                           *)
LEMMA PushFacts ==
    ASSUME TypeOK, Rings, NEW report \in Reports, Enqueue(report)
    PROVE  /\ slots' \in [0 .. FifoNum - 1 -> Reports]
           /\ rptr' \in Pointers /\ wptr' \in Pointers
           /\ Used' = IF Used < FifoNum THEN Used + 1 ELSE Used
           /\ Used' \in 1 .. FifoNum
           /\ \A i \in 1 .. Used' :
                 Entry(i)' = IF i = Used' THEN report
                             ELSE IF Used < FifoNum THEN Entry(i) ELSE Entry(i + 1)
<1> USE TypeOK, Rings
<1>1. FifoNum \in Nat /\ FifoNum >= 2
    BY UsbHidAssumption
<1>2. PICK w \in Pointers, r \in Pointers, u \in 0 .. FifoNum : w = wptr /\ r = rptr /\ u = Used
    BY RingFacts
<1>3. r \in Int /\ w \in Int
    BY UsbHidAssumption DEF Pointers
<1>4. /\ (w + 1 - r) % (2 * FifoNum) = u + 1
      /\ u < FifoNum => (Next1(w) - r) % PtrMod = u + 1
      /\ (Next1(w) - Next1(r)) % PtrMod = u
      /\ Cell(w) = Cell(r + u)
      /\ \A i \in Int : Cell(Next1(r) + i - 1) = Cell(r + i)
      /\ Next1(w) \in Pointers /\ Next1(r) \in Pointers
    BY <1>2, RingFacts
<1>5. Cell(w) \in 0 .. FifoNum - 1 /\ \A i \in Int : Cell(r + i) \in 0 .. FifoNum - 1
    BY <1>3, CellFacts
<1>6. /\ slots' = [slots EXCEPT ![Cell(w)] = report]
      /\ wptr' = Next1(w)
      /\ rptr' = IF u + 1 > FifoNum THEN Next1(r) ELSE r
    BY <1>2, <1>4 DEF Enqueue, Oldest, Cell, Next1
<1>7. slots' \in [0 .. FifoNum - 1 -> Reports]
    BY <1>5, <1>6 DEF Rings
<1>8. rptr' \in Pointers /\ wptr' \in Pointers
    BY <1>4, <1>6
<1>9. Used' = IF u < FifoNum THEN u + 1 ELSE u
    BY <1>1, <1>4, <1>6 DEF Used
<1>10. ASSUME NEW i \in 0 .. FifoNum - 1
       PROVE  slots'[i] = IF i = Cell(w) THEN report ELSE slots[i]
    BY <1>6 DEF Rings
<1>11. ASSUME NEW i \in Int, NEW j \in Int, i < j, j - i < FifoNum PROVE Cell(r + i) # Cell(r + j)
    BY <1>3, <1>11, CellFacts
<1>12. ASSUME NEW i \in 1 .. Used'
       PROVE  Entry(i)' = IF i = Used' THEN report
                          ELSE IF u < FifoNum THEN Entry(i) ELSE Entry(i + 1)
    <2>1. CASE u < FifoNum
        <3>1. PICK j \in Int : j = i - 1 /\ j <= u /\ Entry(i)' = slots'[Cell(r + j)] /\ Entry(i) = slots[Cell(r + j)]
            <4>1. i \in Int /\ i - 1 <= u /\ rptr' = r /\ r + i - 1 = r + (i - 1)
                BY <1>1, <1>3, <1>6, <1>9, <2>1
            <4> QED BY <1>2, <4>1 DEF Entry
        <3>2. CASE j = u
            BY <1>4, <1>5, <1>9, <1>10, <2>1, <3>1, <3>2
        <3>3. CASE j < u
            <4>1. Cell(r + j) # Cell(w) /\ Cell(r + j) \in 0 .. FifoNum - 1
                <5>1. j \in Int /\ u \in Int /\ u - j < FifoNum
                    BY <1>1, <1>12, <2>1, <3>1
                <5>2. Cell(r + j) # Cell(r + u)
                    BY <1>11, <3>3, <5>1
                <5> QED BY <1>4, <1>5, <5>1, <5>2
            <4> QED BY <1>9, <1>10, <2>1, <3>1, <3>3, <4>1
        <3> QED BY <3>1, <3>2, <3>3
    <2>2. CASE u = FifoNum
        <3>1. i \in Int /\ 1 <= i /\ i <= u /\ Used' = u
            BY <1>1, <1>9, <2>2
        <3>2. Entry(i)' = slots'[Cell(r + i)] /\ Entry(i + 1) = slots[Cell(r + i)]
            <4>1. rptr' = Next1(r) /\ r + (i + 1) - 1 = r + i
                BY <1>1, <1>3, <1>6, <2>2, <3>1
            <4>2. Cell(Next1(r) + i - 1) = Cell(r + i)
                BY <1>4, <3>1
            <4> QED BY <1>2, <4>1, <4>2 DEF Entry
        <3>3. CASE i = u
            BY <1>4, <1>5, <1>10, <3>1, <3>2, <3>3
        <3>4. CASE i < u
            <4>1. Cell(r + i) # Cell(w) /\ Cell(r + i) \in 0 .. FifoNum - 1
                <5>1. u \in Int /\ u - i < FifoNum
                    BY <1>1, <2>2, <3>1
                <5>2. Cell(r + i) # Cell(r + u)
                    BY <1>11, <3>1, <3>4, <5>1
                <5> QED BY <1>4, <1>5, <3>1, <5>2
            <4> QED BY <1>10, <2>2, <3>1, <3>2, <3>4, <4>1
        <3> QED BY <3>1, <3>3, <3>4
    <2> QED BY <1>1, <2>1, <2>2
<1>13. Used' \in 1 .. FifoNum
    BY <1>1, <1>9
<1> QED BY <1>2, <1>7, <1>8, <1>9, <1>12, <1>13

(* Taking the oldest report out.                                             *)
LEMMA PopFacts ==
    ASSUME TypeOK, Rings, rptr # wptr, rptr' = Taken, UNCHANGED <<slots, wptr>>
    PROVE  /\ rptr' \in Pointers
           /\ Used \in 1 .. FifoNum /\ Used' = Used - 1
           /\ slots[rptr % FifoNum] = Entry(1) /\ Entry(1) \in Reports
           /\ \A i \in 1 .. Used' : Entry(i)' = Entry(i + 1)
<1>1. FifoNum \in Nat /\ FifoNum >= 2 /\ rptr \in Int
    BY UsbHidAssumption, RingFacts
<1>2. rptr' = Next1(rptr) /\ wptr' = wptr /\ slots' = slots
    BY DEF Taken, Next1
<1>3. Used \in 1 .. FifoNum
    BY <1>1, RingFacts
<1>4. Used' = Used - 1 /\ rptr' \in Pointers
    BY <1>2, <1>3, RingFacts DEF Used
<1>5. rptr + 1 - 1 = rptr
    BY <1>1
<1>6. slots[rptr % FifoNum] = Entry(1)
    BY <1>5 DEF Entry, Cell
<1>7. Cell(rptr) \in 0 .. FifoNum - 1
    BY <1>1, CellFacts
<1>8. Entry(1) \in Reports
    BY <1>5, <1>7 DEF Entry, Rings
<1>9. ASSUME NEW i \in 1 .. Used' PROVE Entry(i)' = Entry(i + 1)
    <2>1. i \in Int /\ rptr + (i + 1) - 1 = rptr + i
        BY <1>1, <1>3, <1>4
    <2>2. Cell(Next1(rptr) + i - 1) = Cell(rptr + i)
        BY <2>1, RingFacts
    <2> QED BY <1>2, <2>1, <2>2 DEF Entry
<1> QED BY <1>3, <1>4, <1>6, <1>8, <1>9

------------------------------------------------------------------------------
(* The parts of TypeOK and Rings that a report posted can disturb.           *)
PostedOK == /\ busy \subseteq {"keyboard", "mouse"}
            /\ shown \in [KeyIds -> Keys \union {NoKey}]
            /\ {rptr, wptr} \subseteq 0 .. PtrMod - 1 /\ Used <= FifoNum
            /\ slots \in [0 .. FifoNum - 1 -> Reports]

LEMMA WriteFacts ==
    ASSUME TypeOK, NEW report \in Reports, Write(report)
    PROVE  /\ busy' \subseteq {"keyboard", "mouse"}
           /\ shown' \in [KeyIds -> Keys \union {NoKey}]
<1>1. EndpointOf(report.id) \in {"keyboard", "mouse"}
    BY DEF EndpointOf
<1>2. busy' \subseteq {"keyboard", "mouse"}
    BY <1>1 DEF Write, TypeOK
<1>3. CASE report \in [id : {"mouse"}, data : Moves]
    BY <1>2, <1>3 DEF Write, TypeOK
<1>4. CASE report \in [id : KeyIds, data : Keys \union {NoKey}]
    <2>1. report.id \in KeyIds /\ report.data \in Keys \union {NoKey} /\ report.id # "mouse"
        BY <1>4 DEF KeyIds
    <2>2. shown' = [shown EXCEPT ![report.id] = report.data]
        BY <2>1 DEF Write
    <2> QED BY <1>2, <2>1, <2>2 DEF TypeOK
<1> QED BY <1>3, <1>4 DEF Reports

LEMMA PostKeepsTypes ==
    ASSUME TypeOK, Rings, NEW report \in Reports, Post(report)
    PROVE  PostedOK'
<1>1. CASE Sent(report.id)
    <2>1. Write(report) /\ UNCHANGED fifo
        BY <1>1 DEF Post
    <2>2. Used' = Used /\ slots' = slots /\ rptr' = rptr /\ wptr' = wptr
        BY <2>1 DEF fifo, Used
    <2> QED BY <2>1, <2>2, WriteFacts DEF PostedOK, TypeOK, Rings
<1>2. CASE ~ Sent(report.id)
    <2>1. Enqueue(report) /\ UNCHANGED endpoints
        BY <1>2 DEF Post
    <2>2. /\ slots' \in [0 .. FifoNum - 1 -> Reports]
          /\ rptr' \in Pointers /\ wptr' \in Pointers /\ Used' \in 1 .. FifoNum
        BY <2>1, PushFacts
    <2>3. FifoNum \in Nat
        BY UsbHidAssumption
    <2>4. Used' <= FifoNum
        BY <2>2, <2>3
    <2>5. busy' = busy /\ shown' = shown
        BY <2>1 DEF endpoints
    <2> QED BY <2>2, <2>4, <2>5 DEF PostedOK, TypeOK, Pointers
<1> QED BY <1>1, <1>2

(* A report of the mouse may wait, one of a key makes it late.               *)
LEMMA PostKeepsMouse ==
    ASSUME TypeOK, Rings, OnlyMouseWaits, NEW report \in Reports, Post(report),
           ~ late' => ~ late /\ (Sent(report.id) \/ report.id = "mouse")
    PROVE  OnlyMouseWaits'
<1> SUFFICES ASSUME ~ late', NEW i \in 1 .. Used' PROVE Entry(i)'.id = "mouse"
    BY DEF OnlyMouseWaits
<1>1. \A j \in 1 .. Used : Entry(j).id = "mouse"
    BY DEF OnlyMouseWaits
<1>2. CASE Sent(report.id)
    <2>1. slots' = slots /\ rptr' = rptr /\ wptr' = wptr
        BY <1>2 DEF Post, fifo
    <2>2. Used' = Used /\ Entry(i)' = Entry(i)
        BY <2>1 DEF Used, Entry
    <2> QED BY <1>1, <2>2
<1>3. CASE ~ Sent(report.id)
    <2>1. report.id = "mouse" /\ Enqueue(report)
        BY <1>3 DEF Post
    <2>2. /\ Used' = IF Used < FifoNum THEN Used + 1 ELSE Used
          /\ Entry(i)' = IF i = Used' THEN report
                         ELSE IF Used < FifoNum THEN Entry(i) ELSE Entry(i + 1)
        BY <2>1, PushFacts
    <2>3. Used \in Nat
        BY RingFacts, UsbHidAssumption
    <2>4. CASE i = Used'
        BY <2>1, <2>2, <2>4
    <2>5. CASE i # Used' /\ Used < FifoNum
        <3>1. i \in 1 .. Used
            BY <2>2, <2>3, <2>5
        <3> QED BY <1>1, <2>2, <2>5, <3>1
    <2>6. CASE i # Used' /\ ~ (Used < FifoNum)
        <3>1. i + 1 \in 1 .. Used
            BY <2>2, <2>3, <2>6
        <3> QED BY <1>1, <2>2, <2>6, <3>1
    <2> QED BY <2>4, <2>5, <2>6
<1> QED BY <1>2, <1>3

LEMMA FifoUntouched ==
    ASSUME OnlyMouseWaits, UNCHANGED fifo, ~ late' => ~ late
    PROVE  OnlyMouseWaits' /\ Used' = Used
<1>1. slots' = slots /\ rptr' = rptr /\ wptr' = wptr
    BY DEF fifo
<1>2. Used' = Used /\ \A i : Entry(i)' = Entry(i)
    BY <1>1 DEF Used, Entry
<1> QED BY <1>2 DEF OnlyMouseWaits

(* A step that leaves the ring of frames and its content alone.              *)
LEMMA FramesUntouched ==
    ASSUME Rings, UNCHANGED <<ring, moves>>, slots' \in [0 .. FifoNum - 1 -> Reports]
    PROVE  Rings'
<1>1. frames' = frames /\ frameRptr' = frameRptr /\ frameWptr' = frameWptr /\ moves' = moves
    BY DEF ring
<1>2. \A j \in 0 .. FrameNum - 1 : InRing(j)' <=> InRing(j)
    BY <1>1 DEF InRing
<1> QED BY <1>1, <1>2 DEF Rings

------------------------------------------------------------------------------
(* What a function of one kind of key does to all parts of the invariant:    *)
(* unless it makes the key late, the host knows what it had to be told, and  *)
(* of the other kinds what it knew before.                                   *)
Told(id, keys) == ~ late' => /\ ~ late
                             /\ call.key \notin keys => shown'[id] = NoKey
                             /\ \A o \in KeyIds \ {id} : shown'[o] = shown[o]

LEMMA ReportKeyFacts ==
    ASSUME IInv, NEW id \in KeyIds, NEW keys \in SUBSET Keys, ReportKey(id, keys),
           UNCHANGED <<ring, moves>>
    PROVE  /\ PostedOK' /\ Rings' /\ OnlyMouseWaits' /\ PressedIsKnown'
           /\ notReleased' \subseteq KeyIds /\ late' \in BOOLEAN
           /\ Told(id, keys)
<1> USE DEF IInv
<1> DEFINE pressed == call.key \in keys
           report == [id |-> id, data |-> IF pressed THEN call.key ELSE NoKey]
<1>1. call.key \in Keys \union {NoKey} /\ late \in BOOLEAN /\ notReleased \subseteq KeyIds
      /\ shown \in [KeyIds -> Keys \union {NoKey}]
    BY DEF TypeOK
<1>2. id # "mouse"
    BY DEF KeyIds
<1>3. CASE pressed \/ id \in notReleased
    <2>1. /\ Post(report)
          /\ notReleased' = Reported(id, pressed)
          /\ late' = (late \/ ~ Sent(id))
        BY <1>3 DEF ReportKey
    <2>2. report \in Reports /\ report.id = id /\ report.data = IF pressed THEN call.key ELSE NoKey
        BY <1>1 DEF Reports
    <2> HIDE DEF report
    <2>3. PostedOK'
        BY <2>1, <2>2, PostKeepsTypes
    <2>4. ~ late' => ~ late /\ Sent(report.id)
        BY <1>1, <2>1, <2>2
    <2>5. OnlyMouseWaits'
        BY <2>1, <2>2, <2>4, PostKeepsMouse
    <2>6. Rings'
        BY <2>3, FramesUntouched DEF PostedOK
    <2>7. late' \in BOOLEAN
        BY <1>1, <2>1
    <2>8. ASSUME ~ late'
          PROVE  /\ ~ late
                 /\ shown' = [shown EXCEPT ![id] = IF pressed THEN call.key ELSE NoKey]
                 /\ notReleased' = IF pressed THEN notReleased \union {id} ELSE notReleased \ {id}
        <3>1. ~ late /\ Sent(id)
            BY <2>2, <2>4, <2>8
        <3>2. Write(report)
            BY <2>1, <2>2, <3>1 DEF Post
        <3>3. shown' = [shown EXCEPT ![id] = IF pressed THEN call.key ELSE NoKey]
            BY <1>2, <2>2, <3>2 DEF Write
        <3>4. notReleased' = IF pressed THEN notReleased \union {id} ELSE notReleased \ {id}
            BY <2>1, <3>1 DEF Reported
        <3> QED BY <3>1, <3>3, <3>4
    <2>9. Told(id, keys)
        BY <1>1, <2>8 DEF Told
    <2>10. PressedIsKnown'
        <3> SUFFICES ASSUME ~ late', NEW o \in KeyIds, shown'[o] # NoKey PROVE o \in notReleased'
            BY DEF PressedIsKnown
        <3>1. CASE o = id
            BY <1>1, <2>8, <3>1
        <3>2. CASE o # id
            <4>1. shown[o] # NoKey /\ ~ late
                BY <1>1, <2>8, <3>2
            <4>2. o \in notReleased
                BY <4>1 DEF PressedIsKnown
            <4> QED BY <2>8, <3>2, <4>2
        <3> QED BY <3>1, <3>2
    <2>11. notReleased' \subseteq KeyIds
        BY <1>1, <2>1 DEF Reported
    <2> QED BY <2>3, <2>5, <2>6, <2>7, <2>9, <2>10, <2>11
<1>4. CASE ~ (pressed \/ id \in notReleased)
    <2>1. UNCHANGED <<endpoints, fifo, notReleased, late>>
        BY <1>4 DEF ReportKey
    <2>2. /\ busy' = busy /\ shown' = shown /\ slots' = slots /\ rptr' = rptr /\ wptr' = wptr
          /\ notReleased' = notReleased /\ late' = late
        BY <2>1 DEF endpoints, fifo
    <2>3. OnlyMouseWaits' /\ Used' = Used
        BY <2>1, <2>2, FifoUntouched
    <2>4. PostedOK'
        BY <2>2, <2>3 DEF PostedOK, TypeOK, Rings
    <2>5. Rings'
        BY <2>4, FramesUntouched DEF PostedOK
    <2>6. PressedIsKnown'
        BY <2>2 DEF PressedIsKnown
    <2>7. Told(id, keys)
        <3>1. ~ late => shown[id] = NoKey
            BY <1>4 DEF PressedIsKnown
        <3> QED BY <2>2, <3>1 DEF Told
    <2> QED BY <1>1, <2>2, <2>3, <2>4, <2>5, <2>6, <2>7
<1> QED BY <1>3, <1>4

LEMMA StageKeeps ==
    ASSUME IInv, KeyStage
    PROVE  IInv'
<1> USE DEF IInv
<1>1. NoKey \notin Keys /\ "kb" \in KeyIds /\ "sys" \in KeyIds /\ "media" \in KeyIds
      /\ NormalKeys \in SUBSET Keys /\ SysKeys \in SUBSET Keys /\ MediaKeys \in SUBSET Keys
    BY UsbHidAssumption DEF KeyIds, Keys
<1>2. ASSUME NEW from, NEW id \in KeyIds, NEW keys \in SUBSET Keys, NEW to \in Stages,
             Stage(from, id, keys, to)
      PROVE  /\ TypeOK' /\ Rings' /\ OnlyMouseWaits' /\ PressedIsKnown' /\ Told(id, keys)
             /\ call.stage = from /\ UNCHANGED <<last, held, consumer>>
             /\ call' = IF to = "idle" THEN Idle ELSE [call EXCEPT !.stage = to]
    <2>1. /\ ReportKey(id, keys) /\ call.stage = from
          /\ call' = IF to = "idle" THEN Idle ELSE [call EXCEPT !.stage = to]
          /\ UNCHANGED <<ring, last, held, consumer, moves>>
        BY <1>2 DEF Stage, history
    <2>2. /\ PostedOK' /\ Rings' /\ OnlyMouseWaits' /\ PressedIsKnown'
          /\ notReleased' \subseteq KeyIds /\ late' \in BOOLEAN
          /\ Told(id, keys)
        BY <2>1, ReportKeyFacts
    <2>3. call' \in [stage : Stages, key : Keys \union {NoKey}]
        BY <2>1 DEF TypeOK, Idle, Stages
    <2>4. TypeOK'
        BY <2>1, <2>2, <2>3 DEF TypeOK, PostedOK, ring
    <2> QED BY <2>1, <2>2, <2>4
<1>3. call \in [stage : Stages, key : Keys \union {NoKey}]
    BY DEF TypeOK
<1>4. CASE Stage("kb", "kb", NormalKeys, "sys")
    <2>1. "sys" \in Stages
        BY DEF Stages
    <2>2. /\ TypeOK' /\ Rings' /\ OnlyMouseWaits' /\ PressedIsKnown' /\ Told("kb", NormalKeys)
          /\ call.stage = "kb" /\ UNCHANGED <<last, held, consumer>>
          /\ call' = [call EXCEPT !.stage = "sys"]
        BY <1>1, <1>2, <1>4, <2>1
    <2>3. call'.stage = "sys" /\ call'.key = call.key
        BY <1>3, <2>2
    <2>4. CallIsLatest'
        BY <2>2, <2>3 DEF CallIsLatest
    <2>5. KindsPassed'
        BY <2>2, <2>3 DEF KindsPassed, CallIsLatest, Told
    <2> QED BY <2>2, <2>4, <2>5
<1>5. CASE Stage("sys", "sys", SysKeys, "media")
    <2>1. "media" \in Stages
        BY DEF Stages
    <2>2. /\ TypeOK' /\ Rings' /\ OnlyMouseWaits' /\ PressedIsKnown' /\ Told("sys", SysKeys)
          /\ call.stage = "sys" /\ UNCHANGED <<last, held, consumer>>
          /\ call' = [call EXCEPT !.stage = "media"]
        BY <1>1, <1>2, <1>5, <2>1
    <2>3. call'.stage = "media" /\ call'.key = call.key
        BY <1>3, <2>2
    <2>4. CallIsLatest'
        BY <2>2, <2>3 DEF CallIsLatest
    <2>5. KindsPassed'
        BY <1>1, <2>2, <2>3 DEF KindsPassed, CallIsLatest, Told
    <2> QED BY <2>2, <2>4, <2>5
<1>6. CASE Stage("media", "media", MediaKeys, "idle")
    <2>1. "idle" \in Stages
        BY DEF Stages
    <2>2. /\ TypeOK' /\ Rings' /\ OnlyMouseWaits' /\ PressedIsKnown' /\ Told("media", MediaKeys)
          /\ call.stage = "media" /\ UNCHANGED <<last, held, consumer>>
          /\ call' = Idle
        BY <1>1, <1>2, <1>6, <2>1
    <2>3. call'.stage = "idle"
        BY <2>2 DEF Idle
    <2>4. CallIsLatest'
        BY <2>2, <2>3 DEF CallIsLatest
    <2>5. KindsPassed'
        BY <1>1, <2>2, <2>3 DEF KindsPassed, CallIsLatest, Told
    <2> QED BY <2>2, <2>4, <2>5
<1> QED BY <1>4, <1>5, <1>6 DEF KeyStage

LEMMA KeyboardKeeps ==
    ASSUME IInv, NEW key \in Keys \union {NoKey}, Keyboard(key)
    PROVE  IInv'
<1> USE DEF IInv
<1>1. /\ busy' = busy /\ shown' = shown /\ slots' = slots /\ rptr' = rptr /\ wptr' = wptr
      /\ UNCHANGED ring /\ UNCHANGED fifo /\ notReleased' = notReleased
      /\ consumer' = consumer /\ late' = late /\ moves' = moves
      /\ held' = key /\ last' = IF key = NoKey THEN last ELSE key
      /\ call.stage = "idle"
      /\ call' = IF Repeats(key) /\ notReleased # {} THEN Idle ELSE [stage |-> "kb", key |-> key]
    BY DEF Keyboard, endpoints, fifo, Idle
<1>2. OnlyMouseWaits' /\ Used' = Used
    BY <1>1, FifoUntouched
<1>3. Rings'
    BY <1>1, FramesUntouched DEF Rings
<1>4. call' \in [stage : Stages, key : Keys \union {NoKey}]
    BY <1>1 DEF Idle, Stages
<1>5. TypeOK'
    BY <1>1, <1>2, <1>4 DEF TypeOK, ring
<1>6. PressedIsKnown'
    BY <1>1 DEF PressedIsKnown
<1>7. CASE Repeats(key) /\ notReleased # {}
    <2>1. call'.stage = "idle" /\ key = last
        BY <1>1, <1>7 DEF Idle, Repeats
    <2>2. CallIsLatest'
        BY <1>1, <2>1 DEF CallIsLatest
    <2>3. KindsPassed'
        BY <1>1, <2>1, UsbHidAssumption DEF KindsPassed, CallIsLatest, Keys
    <2> QED BY <1>2, <1>3, <1>5, <1>6, <2>2, <2>3
<1>8. CASE ~ (Repeats(key) /\ notReleased # {})
    <2>1. call'.stage = "kb" /\ call'.key = key
        BY <1>1, <1>8
    <2>2. CallIsLatest'
        BY <1>1, <2>1 DEF CallIsLatest
    <2>3. KindsPassed'
        BY <2>1 DEF KindsPassed
    <2> QED BY <1>2, <1>3, <1>5, <1>6, <2>2, <2>3
<1> QED BY <1>7, <1>8

LEMMA ConsumerKeeps ==
    ASSUME IInv, NEW key \in MediaKeys \union {NoKey}, Consumer(key)
    PROVE  IInv'
<1> USE DEF IInv
<1>1. /\ busy' = busy /\ shown' = shown /\ slots' = slots /\ rptr' = rptr /\ wptr' = wptr
      /\ UNCHANGED ring /\ UNCHANGED fifo /\ notReleased' = notReleased
      /\ last' = last /\ held' = held /\ late' = late /\ moves' = moves
      /\ consumer' = key /\ call.stage = "idle"
      /\ call' = [stage |-> "media", key |-> key]
    BY DEF Consumer, endpoints, fifo, Idle
<1>2. OnlyMouseWaits' /\ Used' = Used
    BY <1>1, FifoUntouched
<1>3. Rings'
    BY <1>1, FramesUntouched DEF Rings
<1>4. key \in Keys \union {NoKey} /\ call' \in [stage : Stages, key : Keys \union {NoKey}]
    BY <1>1 DEF Keys, Stages
<1>5. TypeOK'
    BY <1>1, <1>2, <1>4 DEF TypeOK, ring
<1>6. PressedIsKnown'
    BY <1>1 DEF PressedIsKnown
<1>7. call'.stage = "media" /\ call'.key = key
    BY <1>1
<1>8. CallIsLatest'
    BY <1>1, <1>7 DEF CallIsLatest
<1>9. KindsPassed'
    BY <1>1, <1>7 DEF KindsPassed
<1> QED BY <1>2, <1>3, <1>5, <1>6, <1>8, <1>9

(* Steps that change nothing the last four parts are about.                  *)
LEMMA KeysUntouched ==
    ASSUME PressedIsKnown, CallIsLatest, KindsPassed,
           UNCHANGED <<shown, notReleased, last, held, consumer, late>>,
           \/ UNCHANGED call
           \/ call.stage \notin {"kb", "sys", "media"} /\ call'.stage \notin {"kb", "sys", "media"}
    PROVE  PressedIsKnown' /\ CallIsLatest' /\ KindsPassed'
<1>1. PressedIsKnown'
    BY DEF PressedIsKnown
<1>2. CallIsLatest'
    BY DEF CallIsLatest
<1>3. KindsPassed'
    BY DEF KindsPassed
<1> QED BY <1>1, <1>2, <1>3

LEMMA MouseKeeps ==
    ASSUME IInv, Mouse
    PROVE  IInv'
<1> USE DEF IInv
<1>1. /\ busy' = busy /\ shown' = shown /\ slots' = slots /\ rptr' = rptr /\ wptr' = wptr
      /\ UNCHANGED fifo /\ notReleased' = notReleased /\ call' = call /\ frameRptr' = frameRptr
      /\ last' = last /\ held' = held /\ consumer' = consumer /\ late' = late
      /\ moves < MaxMoves /\ moves' = moves + 1
      /\ frames' = [frames EXCEPT ![frameWptr] = moves + 1]
      /\ frameWptr' = (frameWptr + 1) % FrameNum
    BY DEF Mouse, endpoints, fifo
<1>2. OnlyMouseWaits' /\ Used' = Used
    BY <1>1, FifoUntouched
<1>3. FrameNum \in Nat \ {0} /\ frameRptr \in 0 .. FrameNum - 1 /\ frameWptr \in 0 .. FrameNum - 1
    BY UsbHidAssumption DEF TypeOK
<1>4. frameWptr' = IF frameWptr = FrameNum - 1 THEN 0 ELSE frameWptr + 1
    BY <1>1, <1>3, ModStep
<1>5. frameWptr' \in 0 .. FrameNum - 1
    BY <1>3, <1>4
<1>6. TypeOK'
    BY <1>1, <1>2, <1>5 DEF TypeOK
<1>7. PressedIsKnown' /\ CallIsLatest' /\ KindsPassed'
    BY <1>1, KeysUntouched
<1>8. /\ frames \in [0 .. FrameNum - 1 -> 0 .. MaxMoves] /\ moves \in 0 .. MaxMoves
      /\ moves + 1 \in Moves /\ Moves \subseteq 0 .. MaxMoves /\ MaxMoves \in Nat
    BY <1>1, UsbHidAssumption DEF Rings, Moves
<1>9. frames' \in [0 .. FrameNum - 1 -> 0 .. MaxMoves] /\ moves' \in 0 .. MaxMoves
    BY <1>1, <1>3, <1>8
<1>10. ASSUME NEW j \in 0 .. FrameNum - 1, InRing(j)' PROVE frames'[j] \in Moves
    <2>1. CASE j = frameWptr
        BY <1>1, <1>3, <1>8, <2>1
    <2>2. CASE j # frameWptr
        <3>1. InRing(j)
            BY <1>1, <1>3, <1>4, <1>10, <2>2 DEF InRing
        <3>2. frames[j] \in Moves
            BY <3>1 DEF Rings
        <3> QED BY <1>1, <1>8, <2>2, <3>2
    <2> QED BY <2>1, <2>2
<1>11. Rings'
    BY <1>1, <1>9, <1>10 DEF Rings
<1> QED BY <1>2, <1>6, <1>7, <1>11

LEMMA HandleKeeps ==
    ASSUME IInv, NEW reset \in BOOLEAN, Handle(reset)
    PROVE  IInv'
<1> USE DEF IInv
<1>1. /\ slots' = slots /\ rptr' = rptr /\ wptr' = wptr /\ UNCHANGED fifo /\ UNCHANGED ring
      /\ notReleased' = notReleased /\ last' = last /\ late' = late
      /\ held' = held /\ consumer' = consumer /\ moves' = moves
      /\ call.stage = "idle" /\ call' = [stage |-> "frame", key |-> NoKey]
    BY DEF Handle, fifo, history, Idle
<1>2. OnlyMouseWaits' /\ Used' = Used
    BY <1>1, FifoUntouched
<1>3. Rings'
    BY <1>1, FramesUntouched DEF Rings
<1>4. call' \in [stage : Stages, key : Keys \union {NoKey}] /\ call'.stage = "frame"
    BY <1>1 DEF Stages
<1>5. CASE ~ reset
    <2>1. busy' = busy /\ shown' = shown
        BY <1>5 DEF Handle
    <2>2. TypeOK'
        BY <1>1, <1>2, <1>4, <2>1 DEF TypeOK, ring
    <2>3. PressedIsKnown' /\ CallIsLatest' /\ KindsPassed'
        BY <1>1, <1>4, <2>1, KeysUntouched
    <2> QED BY <1>2, <1>3, <2>2, <2>3
<1>6. CASE reset
    <2>1. busy' = {} /\ shown' = [id \in KeyIds |-> NoKey]
        BY <1>6 DEF Handle
    <2>2. TypeOK'
        BY <1>1, <1>2, <1>4, <2>1 DEF TypeOK, ring
    <2>3. PressedIsKnown'
        BY <2>1 DEF PressedIsKnown
    <2>4. CallIsLatest'
        BY <1>1, <1>4 DEF CallIsLatest
    <2>5. shown'["kb"] = NoKey /\ shown'["sys"] = NoKey /\ shown'["media"] = NoKey
        BY <2>1 DEF KeyIds
    <2>6. KindsPassed'
        BY <2>5 DEF KindsPassed
    <2> QED BY <1>2, <1>3, <2>2, <2>3, <2>4, <2>6
<1> QED BY <1>5, <1>6

LEMMA FrameKeeps ==
    ASSUME IInv, Frame
    PROVE  IInv'
<1> USE DEF IInv
<1>1. /\ frames' = frames /\ frameWptr' = frameWptr
      /\ notReleased' = notReleased /\ last' = last /\ late' = late
      /\ held' = held /\ consumer' = consumer /\ moves' = moves
      /\ call.stage = "frame" /\ call' = [call EXCEPT !.stage = "fifo"]
    BY DEF Frame, history
<1>2. call' \in [stage : Stages, key : Keys \union {NoKey}] /\ call'.stage = "fifo"
    BY <1>1 DEF Stages, TypeOK
<1>3. FrameNum \in Nat \ {0} /\ frameRptr \in 0 .. FrameNum - 1 /\ frameWptr \in 0 .. FrameNum - 1
    BY UsbHidAssumption DEF TypeOK
<1>4. CASE frameRptr # frameWptr
    <2>1. PICK report : report = [id |-> "mouse", data |-> frames[frameRptr]]
        OBVIOUS
    <2>2. InRing(frameRptr)
        BY <1>3, <1>4 DEF InRing
    <2>3. report \in [id : {"mouse"}, data : Moves] /\ report \in Reports /\ report.id = "mouse"
        BY <1>3, <2>1, <2>2 DEF Rings, Reports
    <2>4. /\ Post(report)
          /\ frameRptr' = IF Sent("mouse") THEN (frameRptr + 1) % FrameNum ELSE frameRptr
        BY <1>4, <2>1 DEF Frame
    <2>5. PostedOK'
        BY <2>3, <2>4, PostKeepsTypes
    <2>6. OnlyMouseWaits'
        BY <1>1, <2>3, <2>4, PostKeepsMouse
    <2>7. shown' = shown
        BY <2>3, <2>4 DEF Post, Write, endpoints
    <2>8. PressedIsKnown' /\ CallIsLatest' /\ KindsPassed'
        BY <1>1, <1>2, <2>7, KeysUntouched
    <2>9. /\ (frameRptr + 1) % FrameNum = IF frameRptr = FrameNum - 1 THEN 0 ELSE frameRptr + 1
          /\ (frameRptr + 1) % FrameNum \in 0 .. FrameNum - 1
        BY <1>3, ModStep
    <2>10. frameRptr' \in 0 .. FrameNum - 1
        BY <1>3, <2>4, <2>9
    <2>11. TypeOK'
        BY <1>1, <1>2, <2>5, <2>10 DEF TypeOK, PostedOK
    <2>12. ASSUME NEW j \in 0 .. FrameNum - 1, InRing(j)' PROVE InRing(j)
        <3>1. frameRptr' = frameRptr \/ frameRptr' = IF frameRptr = FrameNum - 1 THEN 0 ELSE frameRptr + 1
            BY <2>4, <2>9
        <3> QED BY <1>1, <1>3, <1>4, <2>12, <3>1 DEF InRing
    <2>13. Rings'
        BY <1>1, <2>5, <2>12 DEF Rings, PostedOK
    <2> QED BY <2>6, <2>8, <2>11, <2>13
<1>5. CASE frameRptr = frameWptr
    <2>1. /\ busy' = busy /\ shown' = shown /\ slots' = slots /\ rptr' = rptr /\ wptr' = wptr
          /\ UNCHANGED fifo /\ frameRptr' = frameRptr
        BY <1>5 DEF Frame, endpoints, fifo
    <2>2. OnlyMouseWaits' /\ Used' = Used
        BY <1>1, <2>1, FifoUntouched
    <2>3. Rings'
        BY <1>1, <2>1, FramesUntouched DEF Rings, ring
    <2>4. TypeOK'
        BY <1>1, <1>2, <2>1, <2>2 DEF TypeOK
    <2>5. PressedIsKnown' /\ CallIsLatest' /\ KindsPassed'
        BY <1>1, <1>2, <2>1, KeysUntouched
    <2> QED BY <2>2, <2>3, <2>4, <2>5
<1> QED BY <1>4, <1>5

LEMMA FifoProcKeeps ==
    ASSUME IInv, FifoProc
    PROVE  IInv'
<1> USE DEF IInv
<1>1. /\ UNCHANGED ring /\ notReleased' = notReleased /\ last' = last /\ late' = late
      /\ held' = held /\ consumer' = consumer /\ moves' = moves
      /\ call.stage = "fifo" /\ call' = Idle
    BY DEF FifoProc, history
<1>2. call' \in [stage : Stages, key : Keys \union {NoKey}] /\ call'.stage = "idle"
    BY <1>1 DEF Stages, Idle
<1>3. CASE rptr # wptr /\ Sent(slots[rptr % FifoNum].id)
    <2>1. Write(slots[rptr % FifoNum]) /\ rptr' = Taken /\ slots' = slots /\ wptr' = wptr
        BY <1>3 DEF FifoProc
    <2>2. /\ rptr' \in Pointers /\ Used \in 1 .. FifoNum /\ Used' = Used - 1
          /\ slots[rptr % FifoNum] = Entry(1) /\ Entry(1) \in Reports
          /\ \A i \in 1 .. Used' : Entry(i)' = Entry(i + 1)
        BY <1>3, <2>1, PopFacts
    <2>3. busy' \subseteq {"keyboard", "mouse"} /\ shown' \in [KeyIds -> Keys \union {NoKey}]
        BY <2>1, <2>2, WriteFacts
    <2>4. Rings'
        BY <1>1, <2>1, FramesUntouched DEF Rings
    <2>5. FifoNum \in Nat
        BY UsbHidAssumption
    <2>6. TypeOK'
        BY <1>1, <1>2, <2>1, <2>2, <2>3, <2>5 DEF TypeOK, Pointers, ring
    <2>7. OnlyMouseWaits'
        <3> SUFFICES ASSUME ~ late', NEW i \in 1 .. Used' PROVE Entry(i)'.id = "mouse"
            BY DEF OnlyMouseWaits
        <3>1. i + 1 \in 1 .. Used
            BY <2>2, <2>5
        <3>2. Entry(i + 1).id = "mouse"
            BY <1>1, <3>1 DEF OnlyMouseWaits
        <3> QED BY <2>2, <3>2
    <2>8. ~ late => shown' = shown
        <3>1. 1 \in 1 .. Used
            BY <2>2, <2>5
        <3>2. ~ late => Entry(1).id = "mouse"
            BY <3>1 DEF OnlyMouseWaits
        <3> QED BY <2>1, <2>2, <3>2 DEF Write
    <2>9. PressedIsKnown'
        BY <1>1, <2>8 DEF PressedIsKnown
    <2>10. CallIsLatest'
        BY <1>1, <1>2 DEF CallIsLatest
    <2>11. KindsPassed'
        BY <1>1, <2>8 DEF KindsPassed
    <2> QED BY <2>4, <2>6, <2>7, <2>9, <2>10, <2>11
<1>4. CASE ~ (rptr # wptr /\ Sent(slots[rptr % FifoNum].id))
    <2>1. /\ busy' = busy /\ shown' = shown /\ slots' = slots /\ rptr' = rptr /\ wptr' = wptr
          /\ UNCHANGED fifo
        BY <1>4 DEF FifoProc, endpoints, fifo
    <2>2. OnlyMouseWaits' /\ Used' = Used
        BY <1>1, <2>1, FifoUntouched
    <2>3. Rings'
        BY <1>1, <2>1, FramesUntouched DEF Rings
    <2>4. TypeOK'
        BY <1>1, <1>2, <2>1, <2>2 DEF TypeOK, ring
    <2>5. PressedIsKnown' /\ CallIsLatest' /\ KindsPassed'
        BY <1>1, <1>2, <2>1, KeysUntouched
    <2> QED BY <2>2, <2>3, <2>4, <2>5
<1> QED BY <1>3, <1>4

LEMMA FetchKeeps ==
    ASSUME IInv, NEW endpoint \in {"keyboard", "mouse"}, Fetch(endpoint)
    PROVE  IInv'
<1> USE DEF IInv
<1>1. /\ busy' \subseteq busy /\ shown' = shown /\ slots' = slots /\ rptr' = rptr /\ wptr' = wptr
      /\ UNCHANGED fifo /\ UNCHANGED ring /\ notReleased' = notReleased /\ last' = last
      /\ call' = call /\ late' = late /\ held' = held /\ consumer' = consumer /\ moves' = moves
    BY DEF Fetch, fifo, history
<1>2. OnlyMouseWaits' /\ Used' = Used
    BY <1>1, FifoUntouched
<1>3. Rings'
    BY <1>1, FramesUntouched DEF Rings
<1>4. TypeOK'
    BY <1>1, <1>2 DEF TypeOK, ring
<1>5. PressedIsKnown' /\ CallIsLatest' /\ KindsPassed'
    BY <1>1, KeysUntouched
<1> QED BY <1>2, <1>3, <1>4, <1>5

------------------------------------------------------------------------------
LEMMA InitEstablishes == Init => IInv
<1> SUFFICES ASSUME Init PROVE IInv
    OBVIOUS
<1> USE DEF Init
<1>1. /\ FifoNum \in Nat /\ FifoNum >= 2 /\ FrameNum \in Nat \ {0} /\ PtrMod \in Nat \ {0} /\ MaxMoves \in Nat
    BY UsbHidAssumption
<1>2. 0 \in 0 .. PtrMod - 1 /\ 0 \in 0 .. FrameNum - 1
    BY <1>1
<1>3. (0 - 0) % PtrMod = 0
    BY <1>1, <1>2, ModSmall
<1>4. Used = 0
    BY <1>3 DEF Used
<1>5. TypeOK
    <2>1. call \in [stage : Stages, key : Keys \union {NoKey}] /\ late \in BOOLEAN
        BY DEF Idle, Stages
    <2>2. {rptr, wptr} \subseteq 0 .. PtrMod - 1 /\ {frameRptr, frameWptr} \subseteq 0 .. FrameNum - 1
        BY <1>2
    <2>3. Used <= FifoNum
        BY <1>1, <1>4
    <2>4. shown \in [KeyIds -> Keys \union {NoKey}]
        OBVIOUS
    <2> QED BY <2>1, <2>2, <2>3, <2>4 DEF TypeOK
<1>6. [id |-> "kb", data |-> NoKey] \in Reports
    BY DEF Reports, KeyIds
<1>7. slots \in [0 .. FifoNum - 1 -> Reports]
    BY <1>6
<1>8. Rings
    BY <1>1, <1>7 DEF Rings, InRing
<1>9. OnlyMouseWaits
    BY <1>4 DEF OnlyMouseWaits
<1>10. PressedIsKnown
    BY DEF PressedIsKnown
<1>11. CallIsLatest
    BY DEF CallIsLatest, Idle
<1>12. shown["kb"] = NoKey /\ shown["sys"] = NoKey /\ shown["media"] = NoKey
    BY DEF KeyIds
<1>13. KindsPassed
    BY <1>12 DEF KindsPassed
<1> QED BY <1>5, <1>8, <1>9, <1>10, <1>11, <1>13 DEF IInv

LEMMA NextKeeps == IInv /\ [Next]_vars => IInv'
<1> SUFFICES ASSUME IInv, [Next]_vars PROVE IInv'
    OBVIOUS
<1>1. ASSUME NEW key \in Keys \union {NoKey}, Keyboard(key) PROVE IInv'
    BY <1>1, KeyboardKeeps
<1>2. ASSUME NEW key \in MediaKeys \union {NoKey}, Consumer(key) PROVE IInv'
    BY <1>2, ConsumerKeeps
<1>3. CASE Mouse
    BY <1>3, MouseKeeps
<1>4. CASE KeyStage
    BY <1>4, StageKeeps
<1>5. ASSUME NEW reset \in BOOLEAN, Handle(reset) PROVE IInv'
    BY <1>5, HandleKeeps
<1>6. CASE Frame
    BY <1>6, FrameKeeps
<1>7. CASE FifoProc
    BY <1>7, FifoProcKeeps
<1>8. ASSUME NEW endpoint \in {"keyboard", "mouse"}, Fetch(endpoint) PROVE IInv'
    BY <1>8, FetchKeeps
<1>9. CASE UNCHANGED vars
    <2>1. /\ busy' = busy /\ shown' = shown /\ slots' = slots /\ rptr' = rptr /\ wptr' = wptr
          /\ frames' = frames /\ frameRptr' = frameRptr /\ frameWptr' = frameWptr
          /\ notReleased' = notReleased /\ last' = last /\ call' = call
          /\ held' = held /\ consumer' = consumer /\ late' = late /\ moves' = moves
        BY <1>9 DEF vars, endpoints, fifo, ring, history
    <2>2. OnlyMouseWaits' /\ Used' = Used
        BY <2>1, FifoUntouched DEF IInv, fifo
    <2>3. Rings'
        BY <2>1, FramesUntouched DEF IInv, Rings, ring
    <2>4. TypeOK'
        BY <2>1, <2>2 DEF IInv, TypeOK
    <2>5. PressedIsKnown' /\ CallIsLatest' /\ KindsPassed'
        BY <2>1, KeysUntouched DEF IInv
    <2> QED BY <2>2, <2>3, <2>4, <2>5 DEF IInv
<1> QED BY <1>1, <1>2, <1>3, <1>4, <1>5, <1>6, <1>7, <1>8, <1>9 DEF Next

LEMMA Invariance == Spec => []IInv
<1> QED BY InitEstablishes, NextKeeps, PTL DEF Spec

(* All parts of the state have their types, and the ring never holds more    *)
(* reports than it has cells, wherever its pointers wrapped around.          *)
THEOREM TypeCorrect == Spec => []TypeOK
<1>1. IInv => TypeOK
    BY DEF IInv
<1> QED BY <1>1, Invariance, PTL

(* When no key report had to wait and the keyboard has let go of a key, the  *)
(* host has been told, whatever the mouse sends and however often the bus is *)
(* reset (usbkb_not_released, usbkb_hid_report_normal).                      *)
THEOREM KeysAreReleased == Spec => []ReleasedInTime
<1>1. IInv => ReleasedInTime
    <2> SUFFICES ASSUME IInv, call = Idle, ~ late
                 PROVE  /\ held \notin NormalKeys => shown["kb"] = NoKey
                        /\ held \notin SysKeys => shown["sys"] = NoKey
                        /\ held \notin MediaKeys /\ consumer = NoKey => shown["media"] = NoKey
        BY DEF ReleasedInTime
    <2>1. call.stage = "idle"
        BY DEF Idle
    <2> QED BY <2>1 DEF IInv, KindsPassed
<1> QED BY <1>1, Invariance, PTL

------------------------------------------------------------------------------
(* The ring as a queue.                                                      *)
LEMMA FunctionIsSequence ==
    ASSUME NEW S, NEW n \in Nat, NEW q \in [1 .. n -> S]
    PROVE  q \in Seq(S) /\ Len(q) = n
OBVIOUS

LEMMA AppendIs ==
    ASSUME NEW S, NEW n \in Nat, NEW q \in [1 .. n -> S], NEW e \in S
    PROVE  /\ Append(q, e) = [i \in 1 .. n + 1 |-> IF i = n + 1 THEN e ELSE q[i]]
           /\ Append(q, e) \in [1 .. n + 1 -> S]
<1>1. q \in Seq(S) /\ Len(q) = n
    BY FunctionIsSequence
<1>2. PICK k \in Nat : k = n + 1
    OBVIOUS
<1>3. PICK b \in [1 .. k -> S] : b = [i \in 1 .. k |-> IF i = k THEN e ELSE q[i]]
    <2>1. ASSUME NEW i \in 1 .. k PROVE (IF i = k THEN e ELSE q[i]) \in S
        BY <1>2
    <2> QED BY <2>1
<1>4. b \in Seq(S) /\ Len(b) = k
    BY FunctionIsSequence
<1>5. PICK a \in Seq(S) : /\ a = Append(q, e) /\ Len(a) = Len(q) + 1
                          /\ \A i \in 1 .. Len(q) : a[i] = q[i]
                          /\ a[Len(q) + 1] = e
    BY <1>1, AppendProperties
<1>6. \A i \in 1 .. Len(a) : a[i] = b[i]
    BY <1>1, <1>2, <1>3, <1>5
<1>7. a = b
    BY <1>1, <1>2, <1>4, <1>5, <1>6, SeqEqual
<1> QED BY <1>2, <1>3, <1>5, <1>7

LEMMA TailIs ==
    ASSUME NEW S, NEW n \in Nat \ {0}, NEW q \in [1 .. n -> S]
    PROVE  Tail(q) = [i \in 1 .. n - 1 |-> q[i + 1]]
<1>1. q \in Seq(S) /\ Len(q) = n
    BY FunctionIsSequence
<1>2. q # <<>>
    BY <1>1, EmptySeq
<1>3. PICK k \in Nat : k = n - 1
    OBVIOUS
<1>4. PICK b \in [1 .. k -> S] : b = [i \in 1 .. k |-> q[i + 1]]
    <2>1. \A i \in 1 .. k : q[i + 1] \in S
        BY <1>3
    <2> QED BY <2>1
<1>5. b \in Seq(S) /\ Len(b) = k
    BY FunctionIsSequence
<1>6. PICK a \in Seq(S) : a = Tail(q) /\ Len(a) = Len(q) - 1 /\ \A i \in 1 .. Len(a) : a[i] = q[i + 1]
    BY <1>1, <1>2, HeadTailProperties
<1>7. \A i \in 1 .. Len(a) : a[i] = b[i]
    BY <1>1, <1>3, <1>4, <1>6
<1>8. a = b
    BY <1>1, <1>3, <1>5, <1>6, <1>7, SeqEqual
<1> QED BY <1>3, <1>4, <1>6, <1>8

queueNow == [i \in 1 .. Used |-> Entry(i)]

LEMMA QueueNow ==
    ASSUME IInv
    PROVE  /\ Used \in 0 .. FifoNum /\ Used \in Nat
           /\ \A i \in 1 .. Used : Entry(i) \in Reports
           /\ queueNow \in [1 .. Used -> Reports]
<1> USE DEF IInv
<1>1. Used \in 0 .. FifoNum /\ Used \in Nat /\ rptr \in Int
    BY RingFacts, UsbHidAssumption
<1>2. ASSUME NEW i \in 1 .. Used PROVE Entry(i) \in Reports
    <2>1. PICK x \in Int : x = rptr + i - 1
        BY <1>1
    <2>2. Cell(x) \in 0 .. FifoNum - 1
        BY CellFacts
    <2> QED BY <2>1, <2>2 DEF Entry, Rings
<1> QED BY <1>1, <1>2 DEF queueNow

(* What a report posted does to the queue.                                   *)
LEMMA PostRefines ==
    ASSUME IInv, NEW report \in Reports, Post(report)
    PROVE  queueNow' = queueNow \/ queueNow' = IF Used < FifoNum THEN Append(queueNow, report)
                                               ELSE Tail(Append(queueNow, report))
<1>1. CASE Sent(report.id)
    <2>1. slots' = slots /\ rptr' = rptr /\ wptr' = wptr
        BY <1>1 DEF Post, fifo
    <2> QED BY <2>1 DEF queueNow, Used, Entry
<1>2. CASE ~ Sent(report.id)
    <2>1. /\ Used' = IF Used < FifoNum THEN Used + 1 ELSE Used
          /\ \A i \in 1 .. Used' :
                Entry(i)' = IF i = Used' THEN report
                            ELSE IF Used < FifoNum THEN Entry(i) ELSE Entry(i + 1)
        BY <1>2, PushFacts DEF IInv, Post
    <2>2. Used \in Nat /\ FifoNum \in Nat /\ FifoNum >= 2 /\ Used <= FifoNum
        BY QueueNow, UsbHidAssumption
    <2>3. queueNow' = [i \in 1 .. Used' |-> IF i = Used' THEN report
                                            ELSE IF Used < FifoNum THEN Entry(i) ELSE Entry(i + 1)]
        BY <2>1 DEF queueNow
    <2>0. PICK n \in Nat : n = Used
        BY QueueNow
    <2>4. PICK q \in [1 .. n -> Reports] : n = Used /\ q = queueNow
        BY <2>0, QueueNow
    <2>5. \A i \in 1 .. n : q[i] = Entry(i)
        BY <2>4 DEF queueNow
    <2>6. PICK longer : longer = Append(q, report)
        OBVIOUS
    <2>7. /\ longer = [i \in 1 .. n + 1 |-> IF i = n + 1 THEN report ELSE q[i]]
          /\ longer \in [1 .. n + 1 -> Reports]
        <3>1. /\ Append(q, report) = [i \in 1 .. n + 1 |-> IF i = n + 1 THEN report ELSE q[i]]
              /\ Append(q, report) \in [1 .. n + 1 -> Reports]
            BY AppendIs, Zenon
        <3> QED BY <2>6, <3>1, Zenon
    <2>8. CASE Used < FifoNum
        <3>1. Used' = n + 1
            BY <2>1, <2>4, <2>8
        <3>2. queueNow' = [i \in 1 .. n + 1 |-> IF i = n + 1 THEN report ELSE Entry(i)]
            BY <2>3, <2>8, <3>1
        <3>3. \A i \in 1 .. n + 1 : i # n + 1 => i \in 1 .. n
            BY <2>4
        <3>4. queueNow' = longer
            BY <2>5, <2>7, <3>2, <3>3
        <3> QED BY <2>4, <2>6, <2>8, <3>4
    <2>9. CASE ~ (Used < FifoNum)
        <3>1. Used' = n /\ n \in Nat \ {0}
            BY <2>1, <2>2, <2>4, <2>9
        <3>2. queueNow' = [i \in 1 .. n |-> IF i = n THEN report ELSE Entry(i + 1)]
            BY <2>3, <2>9, <3>1
        <3>3. PICK m \in Nat \ {0} : m = n + 1
            BY <3>1
        <3>4. Tail(longer) = [i \in 1 .. m - 1 |-> longer[i + 1]]
            BY <2>7, <3>3, TailIs
        <3>5. ASSUME NEW i \in 1 .. n PROVE longer[i + 1] = IF i = n THEN report ELSE Entry(i + 1)
            <4>1. i + 1 \in 1 .. n + 1 /\ (i + 1 = n + 1 <=> i = n) /\ (i # n => i + 1 \in 1 .. n)
                BY <3>1
            <4> QED BY <2>5, <2>7, <4>1
        <3>6. m - 1 = n
            BY <3>1, <3>3
        <3>7. Tail(longer) = [i \in 1 .. n |-> longer[i + 1]]
            BY <3>4, <3>6
        <3>8. queueNow' = Tail(longer)
            BY <3>2, <3>5, <3>7
        <3> QED BY <2>4, <2>6, <2>9, <3>8
    <2> QED BY <2>8, <2>9
<1> QED BY <1>1, <1>2

(* Push and Pop of LossyQueue, of this queue.                                *)
Pushed == \E report \in Reports :
             queueNow' = IF Used < FifoNum THEN Append(queueNow, report)
                         ELSE Tail(Append(queueNow, report))
Popped == queueNow # <<>> /\ queueNow' = Tail(queueNow)

LEMMA QueueLength ==
    ASSUME IInv
    PROVE  queueNow \in Seq(Reports) /\ Len(queueNow) = Used /\ (queueNow = <<>> <=> Used = 0)
<1>1. PICK n \in Nat : n = Used
    BY QueueNow
<1>2. PICK q \in [1 .. n -> Reports] : q = queueNow
    BY <1>1, QueueNow
<1>3. q \in Seq(Reports) /\ Len(q) = n
    BY FunctionIsSequence
<1>4. q = <<>> <=> n = 0
    BY <1>3, EmptySeq
<1> QED BY <1>1, <1>2, <1>3, <1>4

LEMMA FifoProcRefines ==
    ASSUME IInv, FifoProc
    PROVE  queueNow' = queueNow \/ Popped
<1>1. CASE rptr # wptr /\ Sent(slots[rptr % FifoNum].id)
    <2>1. /\ Used \in 1 .. FifoNum /\ Used' = Used - 1
          /\ \A i \in 1 .. Used' : Entry(i)' = Entry(i + 1)
        BY <1>1, PopFacts DEF IInv, FifoProc
    <2>2. PICK n \in Nat \ {0} : n = Used
        BY <2>1, QueueNow
    <2>3. PICK q \in [1 .. n -> Reports] : q = queueNow
        BY <2>2, QueueNow
    <2>4. Tail(q) = [i \in 1 .. n - 1 |-> q[i + 1]]
        BY TailIs
    <2>5. \A i \in 1 .. n - 1 : q[i + 1] = Entry(i + 1)
        BY <2>2, <2>3 DEF queueNow
    <2>6. queueNow' = [i \in 1 .. n - 1 |-> Entry(i + 1)]
        BY <2>1, <2>2 DEF queueNow
    <2>7. queueNow' = Tail(q)
        BY <2>4, <2>5, <2>6
    <2>8. queueNow # <<>>
        BY <2>2, QueueLength
    <2> QED BY <2>3, <2>7, <2>8 DEF Popped
<1>2. CASE ~ (rptr # wptr /\ Sent(slots[rptr % FifoNum].id))
    <2>1. slots' = slots /\ rptr' = rptr /\ wptr' = wptr
        BY <1>2 DEF FifoProc, fifo
    <2> QED BY <2>1 DEF queueNow, Used, Entry
<1> QED BY <1>1, <1>2

LEMMA StepRefines ==
    ASSUME IInv, [Next]_vars
    PROVE  queueNow' = queueNow \/ Pushed \/ Popped
<1>1. ASSUME slots' = slots, rptr' = rptr, wptr' = wptr PROVE queueNow' = queueNow
    BY <1>1 DEF queueNow, Used, Entry
<1>2. ASSUME NEW key \in Keys \union {NoKey}, Keyboard(key) PROVE queueNow' = queueNow
    BY <1>1, <1>2 DEF Keyboard, fifo
<1>3. ASSUME NEW key \in MediaKeys \union {NoKey}, Consumer(key) PROVE queueNow' = queueNow
    BY <1>1, <1>3 DEF Consumer, fifo
<1>4. CASE Mouse
    BY <1>1, <1>4 DEF Mouse, fifo
<1>5. ASSUME NEW report \in Reports, Post(report) PROVE queueNow' = queueNow \/ Pushed
    BY <1>5, PostRefines DEF Pushed
<1>6. ASSUME NEW id \in KeyIds, NEW keys \in SUBSET Keys, ReportKey(id, keys)
      PROVE  queueNow' = queueNow \/ Pushed
    <2>1. PICK report : report = [id |-> id, data |-> IF call.key \in keys THEN call.key ELSE NoKey]
        OBVIOUS
    <2>2. report \in Reports
        BY <2>1 DEF IInv, TypeOK, Reports
    <2>3. Post(report) \/ UNCHANGED fifo
        BY <1>6, <2>1 DEF ReportKey
    <2> QED BY <1>1, <1>5, <2>2, <2>3 DEF fifo
<1>7. CASE KeyStage
    <2>1. PICK id \in KeyIds, keys \in SUBSET Keys : ReportKey(id, keys)
        BY <1>7 DEF KeyStage, Stage, KeyIds, Keys
    <2> QED BY <1>6, <2>1
<1>8. ASSUME NEW reset \in BOOLEAN, Handle(reset) PROVE queueNow' = queueNow
    BY <1>1, <1>8 DEF Handle, fifo
<1>9. CASE Frame
    <2>1. CASE frameRptr # frameWptr
        <3>1. PICK report : report = [id |-> "mouse", data |-> frames[frameRptr]]
            OBVIOUS
        <3>2. frameRptr \in 0 .. FrameNum - 1 /\ frameWptr \in 0 .. FrameNum - 1 /\ FrameNum \in Nat
            BY UsbHidAssumption DEF IInv, TypeOK
        <3>3. InRing(frameRptr)
            BY <2>1, <3>2 DEF InRing
        <3>4. report \in Reports
            BY <3>1, <3>2, <3>3 DEF IInv, Rings, Reports
        <3>5. Post(report)
            BY <1>9, <2>1, <3>1 DEF Frame
        <3> QED BY <1>5, <3>4, <3>5
    <2>2. CASE frameRptr = frameWptr
        BY <1>1, <1>9, <2>2 DEF Frame, fifo
    <2> QED BY <2>1, <2>2
<1>10. CASE FifoProc
    BY <1>10, FifoProcRefines
<1>11. ASSUME NEW endpoint \in {"keyboard", "mouse"}, Fetch(endpoint) PROVE queueNow' = queueNow
    BY <1>1, <1>11 DEF Fetch, fifo
<1>12. CASE UNCHANGED vars
    BY <1>1, <1>12 DEF vars, fifo
<1> QED BY <1>2, <1>3, <1>4, <1>7, <1>8, <1>9, <1>10, <1>11, <1>12 DEF Next

(* The ring of waiting reports is a queue that forgets its oldest report     *)
(* when a further one comes to a full ring, and nothing else, whatever its   *)
(* size, and also when its pointers wrap around at a multiple of twice that  *)
(* size (usb_ff_rptr, usb_ff_wptr).                                          *)
THEOREM RingIsLossyQueue == Spec => ImplementsLossyQueue
<1>1. Init => Queue!Init
    <2> SUFFICES ASSUME Init PROVE Queue!Init
        OBVIOUS
    <2>1. IInv
        BY InitEstablishes
    <2>2. Used = 0
        <3>1. rptr = 0 /\ wptr = 0 /\ PtrMod \in Nat \ {0}
            BY UsbHidAssumption DEF Init
        <3>2. 0 \in 0 .. PtrMod - 1
            BY <3>1
        <3> QED BY <3>1, <3>2, ModSmall DEF Used
    <2>3. queueNow = <<>>
        BY <2>1, <2>2, QueueLength
    <2> QED BY <2>3 DEF Queue!Init, queueNow, Entry, Cell
<1>2. IInv /\ [Next]_vars => [Queue!Push \/ Queue!Pop]_queueNow
    <2> SUFFICES ASSUME IInv, [Next]_vars PROVE [Queue!Push \/ Queue!Pop]_queueNow
        OBVIOUS
    <2>1. CASE queueNow' = queueNow
        BY <2>1
    <2>2. CASE Pushed
        <3>1. PICK report \in Reports :
                 queueNow' = IF Used < FifoNum THEN Append(queueNow, report)
                             ELSE Tail(Append(queueNow, report))
            BY <2>2 DEF Pushed
        <3>2. PICK longer : longer = Append(queueNow, report)
            OBVIOUS
        <3>3. Len(longer) = Used + 1
            BY <3>2, QueueLength, AppendProperties
        <3>4. Len(longer) > FifoNum <=> ~ (Used < FifoNum)
            BY <3>3, QueueNow, UsbHidAssumption
        <3>5. queueNow' = IF Len(longer) > FifoNum THEN Tail(longer) ELSE longer
            BY <3>1, <3>2, <3>4
        <3>6. queueNow' = Queue!After(report)
            BY <3>2, <3>5 DEF Queue!After, queueNow, Entry, Cell
        <3> QED BY <3>6 DEF Queue!Push, queueNow, Entry, Cell
    <2>3. CASE Popped
        BY <2>3 DEF Popped, Queue!Pop, queueNow, Entry, Cell
    <2> QED BY <2>1, <2>2, <2>3, StepRefines
<1>3. IInv /\ [Next]_vars => [Queue!Push \/ Queue!Pop]_([i \in 1 .. Used |-> slots[(rptr + i - 1) % FifoNum]])
    BY <1>2 DEF queueNow, Entry, Cell
<1> QED BY <1>1, <1>3, Invariance, PTL DEF Spec, ImplementsLossyQueue, Queue!Spec
====
