---- MODULE BmsApplicationProofs ----
(* For every parameter table whose pairs are not split over pages, every set *)
(* of batches, every capacity of the log and size of its pages.              *)
EXTENDS BmsApplication, TLAPS, WellFoundedInduction

(* The pairs of bms_parameters_validate, by their place in g_descriptors,    *)
(* are on one of the pages of 18.                                            *)
LEMMA RealPagesHoldPairs ==
    \A pair \in {<<1, 2>>, <<3, 4>>, <<8, 9>>, <<10, 11>>, <<17, 18>>, <<20, 21>>} :
        \E k \in 0 .. 21 : {pair[1], pair[2]} \subseteq k * 18 + 1 .. k * 18 + 18
<1>1. ASSUME NEW pair \in {<<1, 2>>, <<3, 4>>, <<8, 9>>, <<10, 11>>, <<17, 18>>}
      PROVE  {pair[1], pair[2]} \subseteq 0 * 18 + 1 .. 0 * 18 + 18
  BY <1>1
<1>2. ASSUME NEW pair \in {<<20, 21>>}
      PROVE  {pair[1], pair[2]} \subseteq 1 * 18 + 1 .. 1 * 18 + 18
  BY <1>2
<1>3. 0 \in 0 .. 21 /\ 1 \in 0 .. 21 OBVIOUS
<1>4. QED BY <1>1, <1>2, <1>3

LEMMA Modulo ==
    ASSUME NEW f \in Slots, NEW i \in Slots
    PROVE  (f + i) % Capacity = IF f + i < Capacity THEN f + i ELSE f + i - Capacity
<1>1. PICK x \in 0 .. 2 * Capacity - 1 : x = f + i BY EventLogAssumption DEF Slots
<1>2. x % Capacity = IF x < Capacity THEN x ELSE x - Capacity BY EventLogAssumption
<1>3. QED BY <1>1, <1>2, EventLogAssumption DEF Slots

LEMMA Products ==
    ASSUME NEW p \in Nat \ {0}, NEW m \in Nat, NEW k \in Nat, m * p < k * p
    PROVE  m * p + p <= k * p
<1>1. m < k
  <2>1. SUFFICES ASSUME k <= m PROVE k * p <= m * p OBVIOUS
  <2>2. PICK d \in Nat : m = k + d BY <2>1
  <2>3. QED BY <2>2
<1>2. PICK d \in Nat : k = m + 1 + d BY <1>1
<1>3. k * p = m * p + p + d * p BY <1>2
<1>4. d * p >= 0 OBVIOUS
<1>5. QED BY <1>3, <1>4
------------------------------------------------------------------------------
(* The ring.                                                                 *)
RingOK == /\ entries \in [Slots -> Nat] /\ first \in Slots /\ count \in 0 .. Capacity
          /\ appended \in Nat
          /\ count < Capacity => first = 0 /\ appended = count
          /\ count <= appended
          /\ \A i \in 0 .. count - 1 : entries[Slot(i)] = appended - count + 1 + i

LEMMA SlotIs ==
    ASSUME first \in Slots, NEW i \in Slots
    PROVE  Slot(i) = IF first + i < Capacity THEN first + i ELSE first + i - Capacity
BY Modulo DEF Slot

LEMMA SlotInSlots ==
    ASSUME first \in Slots, NEW i \in Slots
    PROVE  Slot(i) \in Slots
BY SlotIs, EventLogAssumption DEF Slots

LEMMA RingInit == ASSUME LogInit PROVE RingOK /\ seen = <<>>
BY EventLogAssumption DEF LogInit, RingOK, Slots, Unset

LEMMA AppendNotFull ==
    ASSUME RingOK, count < Capacity, appended' = appended + 1, count' = count + 1,
           entries' = [entries EXCEPT ![Slot(count)] = appended + 1], UNCHANGED first
    PROVE  RingOK'
<1>1. first = 0 /\ appended = count /\ first' = 0 BY DEF RingOK
<1>2. \A i \in Slots : Slot(i) = i
  BY <1>1, SlotIs, EventLogAssumption DEF Slots
<1>3. \A i \in Slots : Slot(i)' = i
  BY <1>1, <1>2 DEF Slot
<1>4. count \in Slots BY EventLogAssumption DEF RingOK, Slots
<1>5. entries' = [entries EXCEPT ![count] = appended + 1] BY <1>2, <1>4
<1>6. ASSUME NEW i \in 0 .. count' - 1
      PROVE  entries'[Slot(i)'] = appended' - count' + 1 + i
  <2>1. i \in Slots BY <1>4, EventLogAssumption DEF Slots, RingOK
  <2>2. Slot(i)' = i BY <2>1, <1>3
  <2>3. CASE i = count BY <1>1, <1>4, <1>5, <2>2, <2>3 DEF RingOK
  <2>4. CASE i # count
    <3>1. i \in 0 .. count - 1 BY <2>4 DEF RingOK
    <3>2. entries[Slot(i)] = appended - count + 1 + i BY <3>1 DEF RingOK
    <3>3. entries[i] = appended - count + 1 + i BY <3>2, <2>1, <1>2
    <3>4. entries'[i] = entries[i] BY <1>4, <1>5, <2>1, <2>4 DEF RingOK
    <3>5. QED BY <1>1, <2>2, <3>3, <3>4 DEF RingOK
  <2>5. QED BY <2>3, <2>4
<1>7. entries' \in [Slots -> Nat]
  <2>1. entries \in [Slots -> Nat] /\ appended + 1 \in Nat BY DEF RingOK
  <2>2. QED BY <1>4, <1>5, <2>1
<1>8. first' \in Slots /\ count' \in 0 .. Capacity /\ appended' \in Nat /\ appended' = count'
  BY <1>1, EventLogAssumption DEF RingOK
<1>9. QED BY <1>1, <1>6, <1>7, <1>8, EventLogAssumption DEF RingOK

LEMMA AppendFull ==
    ASSUME RingOK, count = Capacity, appended' = appended + 1, Overwrite, UNCHANGED count,
           entries' = [entries EXCEPT ![first] = appended + 1]
    PROVE  RingOK'
<1>1. first \in Slots /\ Capacity \in Nat \ {0} BY EventLogAssumption DEF RingOK
<1>2. first' = IF first + 1 < Capacity THEN first + 1 ELSE 0
  BY <1>1 DEF Overwrite, Slots
<1>3. first' \in Slots BY <1>1, <1>2 DEF Slots
<1>4. ASSUME NEW i \in Slots
      PROVE  entries'[Slot(i)'] = appended' - count' + 1 + i
  <2>1. Slot(i)' = IF first' + i < Capacity THEN first' + i ELSE first' + i - Capacity
    BY <1>3, <1>4, Modulo DEF Slot
  <2>2. CASE i = Capacity - 1
    <3>1. Slot(i)' = first BY <1>1, <1>2, <2>1, <2>2 DEF Slots
    <3>2. QED BY <1>1, <2>2, <3>1 DEF RingOK
  <2>3. CASE i # Capacity - 1
    <3>1. i + 1 \in Slots BY <1>1, <2>3 DEF Slots
    <3>2. Slot(i)' = Slot(i + 1) BY <1>1, <1>2, <2>1, <3>1, SlotIs DEF Slots
    <3>3. Slot(i + 1) # first BY <1>1, <3>1, SlotIs DEF Slots
    <3>4. Slot(i + 1) \in Slots BY <1>1, <3>1, SlotInSlots
    <3>5. entries[Slot(i + 1)] = appended - count + 1 + (i + 1) BY <1>1, <3>1 DEF RingOK, Slots
    <3>6. entries'[Slot(i + 1)] = entries[Slot(i + 1)] BY <3>3, <3>4 DEF RingOK
    <3>7. QED BY <1>1, <3>2, <3>5, <3>6 DEF RingOK, Slots
  <2>4. QED BY <2>2, <2>3
<1>5. entries' \in [Slots -> Nat] BY <1>1 DEF RingOK
<1>6. \A i \in 0 .. count' - 1 : i \in Slots BY <1>1 DEF Slots
<1>7. QED BY <1>1, <1>3, <1>4, <1>5, <1>6 DEF RingOK

LEMMA AppendKeepsRing == ASSUME RingOK, LogAppend PROVE RingOK'
BY AppendNotFull, AppendFull DEF LogAppend

LEMMA ContentIs ==
    ASSUME RingOK
    PROVE  Content = [i \in 1 .. count |-> appended - count + i]
<1>1. ASSUME NEW i \in 1 .. count PROVE entries[Slot(i - 1)] = appended - count + i
  <2>1. i - 1 \in 0 .. count - 1 BY DEF RingOK
  <2>2. entries[Slot(i - 1)] = appended - count + 1 + (i - 1) BY <2>1 DEF RingOK
  <2>3. QED BY <2>2 DEF RingOK
<1>2. QED BY <1>1 DEF Content

LEMMA ContentAfter ==
    ASSUME RingOK'
    PROVE  Content' = [i \in 1 .. count' |-> appended' - count' + i]
<1>1. /\ count' \in 0 .. Capacity /\ appended' \in Nat
      /\ \A i \in 0 .. count' - 1 : entries'[Slot(i)'] = appended' - count' + 1 + i
  BY Zenon DEF RingOK
<1>2. PICK n \in Nat : n = count' BY <1>1, EventLogAssumption
<1>3. PICK a \in Nat : a = appended' BY <1>1
<1>4. \A i \in 0 .. n - 1 : entries'[Slot(i)'] = a - n + 1 + i BY <1>1, <1>2, <1>3
<1>5. ASSUME NEW i \in 1 .. n PROVE entries'[Slot(i - 1)'] = a - n + i
  <2>1. i - 1 \in 0 .. n - 1 OBVIOUS
  <2>2. entries'[Slot(i - 1)'] = a - n + 1 + (i - 1) BY <1>4, <2>1
  <2>3. QED BY <2>2
<1>6. QED BY <1>2, <1>3, <1>5 DEF Content

LEMMA AppendRefines ==
    ASSUME RingOK, LogAppend
    PROVE  Log!Add
<1>. DEFINE kept == IF Len(Content) < Capacity THEN Content ELSE Tail(Content)
<1>1. RingOK' BY AppendKeepsRing
<1>2. Content = [i \in 1 .. count |-> appended - count + i] BY ContentIs
<1>3. Content' = [i \in 1 .. count' |-> appended' - count' + i] BY <1>1, ContentAfter
<1>4. count \in Nat /\ appended \in Nat /\ count <= Capacity /\ count <= appended /\ Capacity \in Nat \ {0}
  BY EventLogAssumption DEF RingOK
<1>5. Content \in Seq(Int) /\ Len(Content) = count BY <1>2, <1>4
<1>6. appended' = appended + 1 BY DEF LogAppend
<1>7. CASE count < Capacity
  <2>1. kept = Content BY <1>5, <1>7
  <2>2. count' = count + 1 BY <1>4, <1>7 DEF LogAppend
  <2>3. Append(Content, appended + 1) = [i \in 1 .. count + 1 |-> appended - count + i]
    BY <1>2, <1>4, <1>5
  <2>4. Content' = [i \in 1 .. count + 1 |-> appended - count + i]
    BY <1>3, <1>4, <1>6, <2>2
  <2>5. QED BY <1>6, <2>1, <2>3, <2>4 DEF Log!Add
<1>8. CASE count = Capacity
  <2>1. kept = Tail(Content) BY <1>4, <1>5, <1>8
  <2>2. count' = count BY <1>4, <1>8 DEF LogAppend
  <2>3. Tail(Content) = [i \in 1 .. count - 1 |-> appended - count + (i + 1)]
    BY <1>2, <1>4, <1>5, <1>8
  <2>4. Tail(Content) \in Seq(Int) /\ Len(Tail(Content)) = count - 1 BY <2>3, <1>4, <1>5, <1>8
  <2>5. Append(Tail(Content), appended + 1) = Content'
    <3>1. \A i \in 1 .. count : Content'[i] = appended + 1 - count + i
      BY <1>3, <1>4, <1>6, <2>2
    <3>2. ASSUME NEW i \in 1 .. count - 1 PROVE Tail(Content)[i] = appended + 1 - count + i
      <4>1. Tail(Content)[i] = appended - count + (i + 1) BY <2>3
      <4>2. i \in Int BY <1>4
      <4>3. appended - count + (i + 1) = appended + 1 - count + i BY <1>4, <4>2
      <4>4. QED BY <4>1, <4>3
    <3>3. Content' \in Seq(Int) /\ Len(Content') = count BY <1>3, <1>4, <1>6, <2>2
    <3>4. \A i \in 1 .. count : Append(Tail(Content), appended + 1)[i] = Content'[i]
      BY <1>4, <2>4, <3>1, <3>2
    <3>5. Append(Tail(Content), appended + 1) \in Seq(Int) /\ Len(Append(Tail(Content), appended + 1)) = count
      BY <1>4, <2>4
    <3>6. QED BY <3>3, <3>4, <3>5
  <2>6. kept = Tail(Content) BY <2>1
  <2>7. QED BY <1>6, <2>5, <2>6 DEF Log!Add
<1>9. QED BY <1>4, <1>7, <1>8

LEMMA LogInitRefines == ASSUME LogInit PROVE Log!Init
<1>1. RingOK BY RingInit
<1>2. Content = <<>> BY <1>1, ContentIs DEF LogInit
<1>3. QED BY <1>2 DEF LogInit, Log!Init

LEMMA RingStutters == ASSUME UNCHANGED ring PROVE UNCHANGED <<Content, appended>>
BY DEF ring, Content, Slot

LEMMA RingKept == ASSUME RingOK, UNCHANGED ring PROVE RingOK'
BY DEF ring, RingOK, Slot, Slots
------------------------------------------------------------------------------
(* Reading the log in pages.                                                 *)
SeenOK == /\ seen \in Seq(Nat)
          /\ Len(seen) <= count
          /\ \A i \in 1 .. Len(seen) - 1 : seen[i] < seen[i + 1]
          /\ seen # <<>> => seen[Len(seen)] - Len(seen) <= appended - count

LEMMA SeenImpliesGaps ==
    ASSUME RingOK, SeenOK
    PROVE  GapsAreBounded
<1>1. CASE seen = <<>> BY <1>1 DEF GapsAreBounded, SeenOK
<1>2. CASE seen # <<>>
  <2>1. Len(seen) \in Nat \ {0} /\ seen[1] \in Nat /\ seen[Len(seen)] \in Nat BY <1>2 DEF SeenOK
  <2>2. appended \in Nat /\ count \in Nat BY EventLogAssumption DEF RingOK
  <2>3. seen[Len(seen)] - Len(seen) <= appended - count BY <1>2 DEF SeenOK
  <2>4. QED BY <2>1, <2>2, <2>3 DEF SeenOK, GapsAreBounded
<1>3. QED BY <1>1, <1>2

LEMMA ReadKeepsSeen ==
    ASSUME RingOK, SeenOK, ReadEvents
    PROVE  SeenOK'
<1>. DEFINE n == Len(seen)
            e == IF n + EventPage < count THEN n + EventPage ELSE count
            page == SubSeq(Content, n + 1, e)
            lost == appended - count
<1>1. /\ n \in Nat /\ e \in Nat /\ n <= e /\ e <= count
      /\ lost \in Nat /\ count \in Nat /\ appended \in Nat
  BY EventLogAssumption DEF RingOK, SeenOK
<1>2. Content = [i \in 1 .. count |-> lost + i] BY ContentIs
<1>3. Content \in Seq(Nat) /\ Len(Content) = count BY <1>1, <1>2
<1>4. page \in Seq(Nat) /\ Len(page) = e - n BY <1>1, <1>3
<1>5. \A i \in 1 .. e - n : page[i] = lost + (n + i) BY <1>1, <1>2, <1>3
<1>6. seen' = seen \o page BY DEF ReadEvents
<1>7. seen \in Seq(Nat) BY DEF SeenOK
<1>8. seen' \in Seq(Nat) /\ Len(seen') = e BY <1>1, <1>4, <1>6, <1>7
<1>9. \A i \in 1 .. n : seen'[i] = seen[i] BY <1>1, <1>4, <1>6, <1>7
<1>10. ASSUME NEW i \in n + 1 .. e PROVE seen'[i] = lost + i
  <2>1. PICK j \in 1 .. e - n : i = n + j
    <3>1. i - n \in 1 .. e - n /\ i = n + (i - n) BY <1>1
    <3>2. QED BY <3>1
  <2>2. seen'[n + j] = page[j]
    <3>1. PICK p \in Seq(Nat) : p = page /\ Len(p) = e - n BY <1>4
    <3>2. j \in 1 .. Len(p) BY <3>1
    <3>3. (seen \o p)[Len(seen) + j] = p[j] BY <1>7, <3>1, <3>2
    <3>4. QED BY <1>6, <3>1, <3>3
  <2>3. QED BY <1>5, <2>1, <2>2
<1>11. UNCHANGED <<count, appended>> BY DEF ReadEvents, ring
<1>12. n # 0 => seen[n] \in Nat /\ seen[n] <= lost + n BY <1>1, <1>7 DEF SeenOK
<1>13. ASSUME NEW i \in 1 .. e - 1 PROVE seen'[i] < seen'[i + 1]
  <2>1. CASE i < n
    <3>1. i \in 1 .. n - 1 /\ i \in 1 .. n /\ i + 1 \in 1 .. n BY <1>1, <2>1
    <3>2. seen[i] < seen[i + 1] BY <3>1 DEF SeenOK
    <3>3. QED BY <1>9, <3>1, <3>2
  <2>2. CASE i = n
    <3>1. i \in 1 .. n /\ i + 1 \in n + 1 .. e BY <1>1, <2>2
    <3>2. seen'[i] = seen[n] /\ seen'[i + 1] = lost + (i + 1) BY <1>9, <1>10, <2>2, <3>1
    <3>3. seen[n] \in Nat /\ seen[n] <= lost + n BY <1>1, <1>12, <2>2, <3>1
    <3>4. QED BY <1>1, <2>2, <3>2, <3>3
  <2>3. CASE i > n
    <3>1. i \in n + 1 .. e /\ i + 1 \in n + 1 .. e BY <1>1, <2>3
    <3>2. seen'[i] = lost + i /\ seen'[i + 1] = lost + (i + 1) BY <1>10, <3>1
    <3>3. QED BY <1>1, <3>1, <3>2
  <2>4. QED BY <1>1, <2>1, <2>2, <2>3
<1>14. ASSUME seen' # <<>> PROVE seen'[e] <= lost + e
  <2>1. CASE e = n
    <3>1. n # 0 BY <1>8, <1>14, <2>1
    <3>2. seen'[n] = seen[n] BY <1>1, <1>9, <3>1
    <3>3. QED BY <1>12, <2>1, <3>1, <3>2
  <2>2. CASE e # n
    <3>1. e \in n + 1 .. e BY <1>1, <2>2
    <3>2. seen'[e] = lost + e BY <1>10, <3>1
    <3>3. QED BY <1>1, <3>2
  <2>3. QED BY <2>1, <2>2
<1>15. seen' # <<>> => seen'[Len(seen')] - Len(seen') <= appended' - count'
  <2>1. SUFFICES ASSUME seen' # <<>> PROVE seen'[e] - e <= appended - count BY <1>8, <1>11
  <2>2. seen'[e] \in Nat BY <1>1, <1>8, <2>1
  <2>3. QED BY <1>1, <1>14, <2>1, <2>2
<1>16. Len(seen') <= count' /\ \A i \in 1 .. Len(seen') - 1 : seen'[i] < seen'[i + 1]
  BY <1>1, <1>8, <1>11, <1>13
<1>17. QED BY <1>8, <1>15, <1>16 DEF SeenOK

LEMMA AppendKeepsSeen ==
    ASSUME RingOK, SeenOK, LogAppend, UNCHANGED seen
    PROVE  SeenOK'
<1>1. count \in Nat /\ appended \in Nat BY EventLogAssumption DEF RingOK
<1>2. appended' = appended + 1 /\ (count' = count \/ count' = count + 1)
  BY <1>1 DEF LogAppend
<1>3. count <= count' /\ appended - count <= appended' - count' BY <1>1, <1>2
<1>4. count' \in Nat /\ appended' \in Nat /\ Len(seen) \in Nat BY <1>1, <1>2 DEF SeenOK
<1>5. seen # <<>> => seen[Len(seen)] \in Nat BY DEF SeenOK
<1>6. seen # <<>> => seen[Len(seen)] - Len(seen) <= appended' - count'
  <2>1. SUFFICES ASSUME seen # <<>> PROVE seen[Len(seen)] - Len(seen) <= appended' - count' OBVIOUS
  <2>2. PICK last \in Nat : last = seen[Len(seen)] BY <1>5, <2>1
  <2>3. last - Len(seen) <= appended - count BY <2>1, <2>2 DEF SeenOK
  <2>4. PICK n \in Nat, later \in Nat, c \in Nat : n = Len(seen) /\ later = appended' /\ c = count'
    BY <1>4
  <2>5. last - n <= appended - count /\ appended - count <= later - c BY <1>3, <2>3, <2>4
  <2>6. last - n <= later - c BY <1>1, <2>5
  <2>7. QED BY <2>2, <2>4, <2>6
<1>7. Len(seen) <= count' BY <1>1, <1>3, <1>4 DEF SeenOK
<1>8. QED BY <1>6, <1>7 DEF SeenOK

LEMMA StartOverKeepsSeen == ASSUME RingOK, StartOverEvents PROVE SeenOK'
<1>1. count' \in Nat BY EventLogAssumption DEF RingOK, StartOverEvents, ring
<1>2. seen' = <<>> BY DEF StartOverEvents
<1>3. QED BY <1>1, <1>2 DEF SeenOK
------------------------------------------------------------------------------
(* The parameters, and reading them in pages.                                *)
ParametersOK == /\ {parameters, previous} \subseteq Assignments
                /\ Valid(parameters) /\ Valid(previous)
                /\ pending \in BOOLEAN /\ protection \in Protections

LEMMA SequenceOf == ASSUME NEW S, NEW l \in Nat, NEW s \in [1 .. l -> S] PROVE s \in Seq(S) /\ Len(s) = l
OBVIOUS

LEMMA ElementOf == ASSUME NEW S, NEW s \in Seq(S), NEW i \in DOMAIN s PROVE s[i] \in S
OBVIOUS

LEMMA Greatest ==
    ASSUME NEW n \in Nat, NEW S \in SUBSET (1 .. n), S # {}
    PROVE  \E i \in S : \A j \in S : j <= i
<1>. DEFINE T == {n - i : i \in S}
<1>1. T \subseteq Nat /\ T # {}
  <2>1. \A i \in S : n - i \in Nat OBVIOUS
  <2>2. QED BY <2>1
<1>2. \E x \in T : \A y \in T : ~ (<<y, x>> \in OpToRel(<, Nat))
  BY <1>1, NatLessThanWellFounded, WFMin
<1>3. PICK x \in T : \A y \in T : ~ (y < x) BY <1>1, <1>2 DEF OpToRel
<1>4. PICK i \in S : x = n - i BY <1>3
<1>5. ASSUME NEW j \in S PROVE j <= i
  <2>1. n - j \in T OBVIOUS
  <2>2. ~ (n - j < n - i) BY <1>3, <1>4, <2>1
  <2>3. i \in Int /\ j \in Int OBVIOUS
  <2>4. QED BY <2>2, <2>3
<1>6. QED BY <1>5

LEMMA CandidateOK ==
    ASSUME ParametersOK, NEW writes \in Writes, Acceptable(writes)
    PROVE  Candidate(writes) \in Assignments /\ Valid(Candidate(writes))
<1>1. writes \in Seq([id : Nat, value : Int]) BY BmsApplicationAssumption
<1>2. ASSUME NEW id \in Ids PROVE Candidate(writes)[id] \in Int /\ Candidate(writes)[id] \in Range[id]
  <2>1. CASE WritesTo(writes, id) = {}
    BY <2>1 DEF Candidate, ParametersOK, Assignments
  <2>2. CASE WritesTo(writes, id) # {}
    <3>. DEFINE last == CHOOSE i \in WritesTo(writes, id) : \A j \in WritesTo(writes, id) : j <= i
    <3>1. WritesTo(writes, id) \subseteq 1 .. Len(writes) /\ Len(writes) \in Nat BY <1>1 DEF WritesTo
    <3>2. \E i \in WritesTo(writes, id) : \A j \in WritesTo(writes, id) : j <= i
      BY <2>2, <3>1, Greatest
    <3>3. last \in WritesTo(writes, id) BY <3>2
    <3>4. last \in DOMAIN writes /\ writes[last].id = id BY <3>3 DEF WritesTo
    <3>5. writes[last].value \in Range[id] BY <3>4 DEF Acceptable
    <3>6. writes[last].value \in Int
      <4>1. PICK i \in DOMAIN writes : i = last BY <3>4
      <4>2. writes[i] \in [id : Nat, value : Int] BY <1>1, ElementOf
      <4>3. QED BY <4>1, <4>2
    <3>7. Candidate(writes)[id] = writes[last].value BY <2>2 DEF Candidate
    <3>8. QED BY <3>5, <3>6, <3>7
  <2>3. QED BY <2>1, <2>2
<1>3. Candidate(writes) \in [Ids -> Int] BY <1>2 DEF Candidate
<1>4. QED BY <1>2, <1>3 DEF Assignments, Acceptable

(* Every parameter once and in order.                                        *)
PagesAreSeamless == Len(got) <= Total /\ \A i \in 1 .. Len(got) : got[i].id = i

GotOK == /\ got \in Seq([id : Ids, value : Int])
         /\ PagesAreSeamless
         /\ Len(got) = Total \/ \E k \in Nat : Len(got) = k * Page
         /\ ReadPairsConsistent

LEMMA NoPairIsSplit ==
    ASSUME NEW pair \in Pairs, NEW k \in Nat, NEW a \in {pair[1], pair[2]}, a <= k * Page
    PROVE  pair[1] <= k * Page /\ pair[2] <= k * Page
<1>. DEFINE split == k * Page
<1>1. PICK m \in 0 .. Total : {pair[1], pair[2]} \subseteq m * Page + 1 .. m * Page + Page
  BY PairsAssumption
<1>2. m \in Nat /\ Page \in Nat \ {0} BY BmsParametersAssumption
<1>3. PICK start \in Nat : start = m * Page BY <1>2
<1>4. pair[1] \in start + 1 .. start + Page /\ pair[2] \in start + 1 .. start + Page BY <1>1, <1>3
<1>5. PICK end \in Nat : end = k * Page BY <1>2
<1>6. start < end BY <1>2, <1>4, <1>5
<1>7. start + Page <= end BY <1>2, <1>3, <1>5, <1>6, Products
<1>8. QED BY <1>2, <1>4, <1>5, <1>7

LEMMA ReadKeepsGot ==
    ASSUME ParametersOK, GotOK, ReadParameters
    PROVE  GotOK'
<1>. DEFINE n == Len(got)
            e == PageEnd
            page == [i \in 1 .. e - n |-> [id |-> n + 1 + i - 1, value |-> parameters[n + 1 + i - 1]]]
<1>1. /\ n \in Nat /\ n < Total /\ Total \in Nat /\ Page \in Nat \ {0}
      /\ e \in Nat /\ n < e /\ e <= Total
      /\ e = Total \/ e = n + Page
  BY BmsParametersAssumption DEF GotOK, ReadParameters, PageEnd
<1>2. got \in Seq([id : Ids, value : Int]) /\ \A i \in 1 .. n : got[i].id = i
  BY DEF GotOK, PagesAreSeamless
<1>3. \A i \in Ids : parameters[i] \in Int BY DEF ParametersOK, Assignments
<1>4. ASSUME NEW i \in 1 .. e - n PROVE page[i] = [id |-> n + i, value |-> parameters[n + i]] /\ n + i \in Ids
  BY <1>1 DEF Ids
<1>5. page \in Seq([id : Ids, value : Int]) /\ Len(page) = e - n
  <2>1. \A i \in 1 .. e - n : page[i] \in [id : Ids, value : Int] BY <1>3, <1>4
  <2>2. e - n \in Nat BY <1>1
  <2>3. PICK l \in Nat : l = e - n BY <2>2
  <2>4. page \in [1 .. l -> [id : Ids, value : Int]] BY <2>1, <2>3
  <2>. HIDE DEF page
  <2>5. page \in Seq([id : Ids, value : Int]) /\ Len(page) = l BY <2>4, SequenceOf
  <2>6. QED BY <2>3, <2>5
<1>6. got' = got \o page BY DEF ReadParameters, NextId
<1>. HIDE DEF page, e
<1>7. got' \in Seq([id : Ids, value : Int]) /\ Len(got') = e
  <2>. DEFINE R == [id : Ids, value : Int]
  <2>1. got \in Seq(R) /\ page \in Seq(R) BY <1>2, <1>5
  <2>. HIDE DEF R
  <2>2. got \o page \in Seq(R) /\ Len(got \o page) = n + (e - n) BY <1>5, <2>1
  <2>3. n + (e - n) = e BY <1>1
  <2>4. QED BY <1>6, <2>2, <2>3 DEF R
<1>8. \A i \in 1 .. n : got'[i] = got[i] BY <1>2, <1>5, <1>6
<1>9. ASSUME NEW i \in n + 1 .. e PROVE got'[i].id = i /\ got'[i].value = parameters[i]
  <2>1. PICK j \in 1 .. e - n : i = n + j
    <3>1. i - n \in 1 .. e - n /\ i = n + (i - n) BY <1>1
    <3>2. QED BY <3>1
  <2>2. (got \o page)[n + j] = page[j] BY <1>2, <1>5
  <2>3. got'[i] = [id |-> i, value |-> parameters[i]] BY <1>4, <1>6, <2>1, <2>2
  <2>4. QED BY <2>3
<1>10. \A i \in 1 .. e : got'[i].id = i
  <2>1. SUFFICES ASSUME NEW i \in 1 .. e PROVE got'[i].id = i OBVIOUS
  <2>2. CASE i <= n BY <1>1, <1>2, <1>8, <2>2
  <2>3. CASE ~ (i <= n)
    <3>1. i \in n + 1 .. e BY <1>1, <2>3
    <3>2. QED BY <1>9, <3>1
  <2>4. QED BY <2>2, <2>3
<1>11. PagesAreSeamless' BY <1>1, <1>7, <1>10 DEF PagesAreSeamless
<1>12. PICK k \in Nat : n = k * Page BY <1>1 DEF GotOK
<1>13. Len(got') = Total \/ \E l \in Nat : Len(got') = l * Page
  <2>1. CASE e = Total BY <1>7, <2>1
  <2>2. CASE e = n + Page
    <3>1. (k + 1) * Page = k * Page + Page BY <1>1
    <3>2. QED BY <1>7, <1>12, <2>2, <3>1
  <2>3. QED BY <1>1, <2>1, <2>2
<1>14. ASSUME NEW pair \in Pairs, NEW i \in 1 .. e, NEW j \in 1 .. e,
              got'[i].id = pair[1], got'[j].id = pair[2]
       PROVE  got'[i].value < got'[j].value
  <2>1. i = pair[1] /\ j = pair[2] BY <1>10, <1>14
  <2>2. CASE i <= n /\ j <= n
    <3>1. i \in 1 .. n /\ j \in 1 .. n BY <1>1, <2>2
    <3>2. got[i].id = pair[1] /\ got[j].id = pair[2] BY <1>2, <2>1, <3>1
    <3>3. got[i].value < got[j].value BY <1>2, <3>1, <3>2 DEF GotOK, ReadPairsConsistent
    <3>4. QED BY <1>8, <3>1, <3>3
  <2>3. CASE ~ (i <= n) /\ ~ (j <= n)
    <3>1. i \in n + 1 .. e /\ j \in n + 1 .. e BY <1>1, <2>3
    <3>2. got'[i].value = parameters[i] /\ got'[j].value = parameters[j] BY <1>9, <3>1
    <3>3. parameters[i] < parameters[j] BY <2>1 DEF ParametersOK, Valid
    <3>4. QED BY <3>2, <3>3
  <2>4. ~ (i <= n /\ ~ (j <= n)) /\ ~ (j <= n /\ ~ (i <= n))
    BY <1>12, <2>1, NoPairIsSplit
  <2>5. QED BY <2>2, <2>3, <2>4
<1>15. ReadPairsConsistent' BY <1>7, <1>14 DEF ReadPairsConsistent
<1>16. QED BY <1>7, <1>11, <1>13, <1>15 DEF GotOK

LEMMA EmptyGot == ASSUME got' = <<>> PROVE GotOK'
<1>1. Len(got') = 0 /\ got' \in Seq([id : Ids, value : Int]) OBVIOUS
<1>2. 0 \in Nat /\ 0 = 0 * Page BY BmsParametersAssumption
<1>3. PagesAreSeamless' BY <1>1, BmsParametersAssumption DEF PagesAreSeamless
<1>4. ReadPairsConsistent' BY <1>1 DEF ReadPairsConsistent
<1>5. QED BY <1>1, <1>2, <1>3, <1>4 DEF GotOK
------------------------------------------------------------------------------
IInv == ParametersOK /\ GotOK /\ RingOK /\ SeenOK

LEMMA InitIInv == Init => IInv
<1>1. SUFFICES ASSUME Init PROVE IInv OBVIOUS
<1>2. ParametersOK BY <1>1, DefaultsAssumption DEF Init, ParametersOK
<1>3. GotOK
  <2>1. got = <<>> /\ Len(got) = 0 BY <1>1 DEF Init
  <2>2. 0 = 0 * Page BY BmsParametersAssumption
  <2>3. PagesAreSeamless /\ ReadPairsConsistent
    BY <2>1, BmsParametersAssumption DEF PagesAreSeamless, ReadPairsConsistent
  <2>4. QED BY <2>1, <2>2, <2>3 DEF GotOK
<1>4. RingOK /\ seen = <<>> BY <1>1, RingInit DEF Init
<1>5. SeenOK BY <1>4, EventLogAssumption DEF RingOK, SeenOK
<1>6. QED BY <1>2, <1>3, <1>4, <1>5 DEF IInv

LEMMA GotKept == ASSUME GotOK, UNCHANGED got PROVE GotOK'
BY DEF GotOK, PagesAreSeamless, ReadPairsConsistent

LEMMA ParametersKept == ASSUME ParametersOK, UNCHANGED <<parameters, previous, pending, protection>> PROVE ParametersOK'
BY DEF ParametersOK

LEMMA SeenKept == ASSUME SeenOK, UNCHANGED <<ring, seen>> PROVE SeenOK'
BY DEF SeenOK, ring

(* The log and its reader, whichever step appends or leaves the ring alone.  *)
LEMMA LogStep ==
    ASSUME RingOK, SeenOK, LogAppend \/ UNCHANGED ring, UNCHANGED seen
    PROVE  RingOK' /\ SeenOK'
<1>1. CASE LogAppend BY <1>1, AppendKeepsRing, AppendKeepsSeen
<1>2. CASE UNCHANGED ring BY <1>2, RingKept, SeenKept
<1>3. QED BY <1>1, <1>2

LEMMA NextIInv == IInv /\ [Next]_vars => IInv'
<1>1. SUFFICES ASSUME IInv, [Next]_vars PROVE IInv' OBVIOUS
<1>2. ParametersOK /\ GotOK /\ RingOK /\ SeenOK BY <1>1 DEF IInv
<1>3. ASSUME NEW flags \in Protections, Step(flags) PROVE IInv'
  <2>1. ParametersOK' BY <1>2, <1>3 DEF Step, ParametersOK
  <2>2. GotOK' BY <1>2, <1>3, GotKept DEF Step
  <2>3. RingOK' /\ SeenOK' BY <1>2, <1>3, LogStep DEF Step
  <2>4. QED BY <2>1, <2>2, <2>3 DEF IInv
<1>4. ASSUME NEW writes \in Writes, SetParameters(writes) PROVE IInv'
  <2>1. ParametersOK'
    <3>1. CASE Acceptable(writes) BY <1>2, <1>4, <3>1, CandidateOK DEF SetParameters, ParametersOK
    <3>2. CASE ~ Acceptable(writes) BY <1>2, <1>4, <3>2 DEF SetParameters, ParametersOK
    <3>3. QED BY <3>1, <3>2
  <2>2. GotOK' BY <1>2, <1>4, GotKept DEF SetParameters
  <2>3. RingOK' /\ SeenOK' BY <1>2, <1>4, LogStep DEF SetParameters
  <2>4. QED BY <2>1, <2>2, <2>3 DEF IInv
<1>5. ASSUME NEW saved \in BOOLEAN, Process(saved) PROVE IInv'
  <2>1. ParametersOK' BY <1>2, <1>5 DEF Process, ParametersOK
  <2>2. GotOK' BY <1>2, <1>5, GotKept DEF Process
  <2>3. RingOK' /\ SeenOK' BY <1>2, <1>5, LogStep DEF Process
  <2>4. QED BY <2>1, <2>2, <2>3 DEF IInv
<1>6. ASSUME NEW permil \in SocValues, SetSoc(permil) PROVE IInv'
  <2>1. ParametersOK' BY <1>2, <1>6, ParametersKept DEF SetSoc
  <2>2. GotOK' BY <1>2, <1>6, GotKept DEF SetSoc
  <2>3. RingOK' /\ SeenOK' BY <1>2, <1>6, LogStep DEF SetSoc
  <2>4. QED BY <2>1, <2>2, <2>3 DEF IInv
<1>7. ASSUME Client PROVE IInv'
  <2>1. ParametersOK' BY <1>2, <1>7, ParametersKept DEF Client
  <2>2. CASE ReadParameters /\ UNCHANGED <<ring, seen>>
    BY <1>2, <2>1, <2>2, ReadKeepsGot, LogStep DEF IInv
  <2>3. CASE StartOverParameters /\ UNCHANGED <<ring, seen>>
    BY <1>2, <2>1, <2>3, EmptyGot, LogStep DEF IInv, StartOverParameters
  <2>4. CASE ReadEvents /\ UNCHANGED got
    <3>1. UNCHANGED ring BY <2>4 DEF ReadEvents
    <3>2. QED BY <1>2, <2>1, <2>4, <3>1, GotKept, ReadKeepsSeen, RingKept DEF IInv
  <2>5. CASE StartOverEvents /\ UNCHANGED got
    <3>1. UNCHANGED ring BY <2>5 DEF StartOverEvents
    <3>2. QED BY <1>2, <2>1, <2>5, <3>1, GotKept, StartOverKeepsSeen, RingKept DEF IInv
  <2>6. QED BY <1>7, <2>2, <2>3, <2>4, <2>5 DEF Client
<1>8. CASE UNCHANGED vars
  <2>1. ParametersOK' /\ GotOK' BY <1>2, <1>8, ParametersKept, GotKept DEF vars
  <2>2. RingOK' /\ SeenOK' BY <1>2, <1>8, LogStep DEF vars
  <2>3. QED BY <2>1, <2>2 DEF IInv
<1>9. QED BY <1>1, <1>3, <1>4, <1>5, <1>6, <1>7, <1>8 DEF Next

LEMMA Inductive == Spec => []IInv
BY InitIInv, NextIInv, PTL DEF Spec

(* Parameters, ring, pages and pending write stay within their types: a      *)
(* batch never brings a value outside its range into force.                  *)
THEOREM ApplicationTypeCorrect == Spec => []TypeOK
<1>1. IInv => TypeOK
  BY DEF IInv, ParametersOK, GotOK, RingOK, SeenOK, TypeOK, LogTypeOK
<1>2. QED BY <1>1, Inductive, PTL

(* For every table whose pairs are not split over pages: what a client reads *)
(* page by page satisfies every pair, whatever is written or taken back      *)
(* between its pages.                                                        *)
THEOREM ReadersSeePairs == Spec => []ReadPairsConsistent
<1>1. IInv => ReadPairsConsistent BY DEF IInv, GotOK
<1>2. QED BY <1>1, Inductive, PTL

(* The pages of a client hold every parameter once, whatever their size.     *)
THEOREM PagesFitTogether == Spec => []PagesAreSeamless
<1>1. IInv => PagesAreSeamless BY DEF IInv, GotOK
<1>2. QED BY <1>1, Inductive, PTL

(* For every capacity, the ring implements the bounded log.                  *)
THEOREM RingIsBoundedLog == Spec => ImplementsBoundedLog
<1>1. Init => Log!Init BY LogInitRefines DEF Init
<1>2. IInv /\ [Next]_vars => [Log!Add]_<<Content, appended>>
  <2>1. SUFFICES ASSUME IInv, [Next]_vars PROVE Log!Add \/ UNCHANGED <<Content, appended>> OBVIOUS
  <2>2. LogAppend \/ UNCHANGED ring
    BY <2>1 DEF Next, vars, Step, SetParameters, Process, SetSoc, Client, ReadEvents, StartOverEvents
  <2>3. CASE LogAppend BY <2>1, <2>3, AppendRefines DEF IInv
  <2>4. CASE UNCHANGED ring BY <2>4, RingStutters
  <2>5. QED BY <2>2, <2>3, <2>4
<1>3. QED BY <1>1, <1>2, Inductive, PTL DEF Spec, ImplementsBoundedLog, Log!Spec

(* For every capacity and page size, a client that pages through the log     *)
(* sees no event twice or out of order, and misses no more than have been    *)
(* overwritten.                                                              *)
THEOREM ReadersMissBoundedly == Spec => []GapsAreBounded
<1>1. IInv => GapsAreBounded BY SeenImpliesGaps DEF IInv
<1>2. QED BY <1>1, Inductive, PTL
====
