-------------------------- MODULE WorkbenchProofs --------------------------
(***************************************************************************)
(* Proofs about Workbench: the mixer reference, the donors, the identity   *)
(* of an executable, the release gate and the evidence workflow, for any   *)
(* inputs, processes, scenarios, reports and edits.                        *)
(***************************************************************************)
EXTENDS Workbench, Sequences, WellFoundedInduction, TLAPS

-----------------------------------------------------------------------------
(***************************************************************************)
(* The mixer.  The key the layers are sorted by orders them as the         *)
(* hardware ranks them, and so no two of them have one key.                *)
(***************************************************************************)
MixerGiven == unit = "mixer" => pixel_inputs \in Inputs

LEMMA InputTypes ==
    ASSUME pixel_inputs \in Inputs
    PROVE  /\ \A l \in Pixels!Layers : pixel_inputs.layer[l].priority \in 0 .. 15
                                       /\ pixel_inputs.layer[l].opaque \in BOOLEAN
           /\ pixel_inputs.sprite.priority \in 0 .. 15
  BY WorkbenchAssumption DEF Pixels!MixerAssumption

LEMMA Ranked ==
    ASSUME pixel_inputs \in Inputs, NEW l \in Pixels!Enabled
    PROVE  /\ l \in 0 .. 7
           /\ Pixels!Priority(l) \in 0 .. 15
           /\ Pixels!Class(l) \in 0 .. 2
           /\ Pixels!effpri(l) \in 1 .. 127
           /\ Pixels!Class(l) = 0 <=> l = 7
           /\ Pixels!Class(l) = 0 => Pixels!effpri(l) = 1 /\ Pixels!Priority(l) = 0
           /\ Pixels!Class(l) = 1 => Pixels!effpri(l) = 6 - l /\ l \in 1 .. 4 /\ Pixels!Priority(l) = 0
           /\ Pixels!Class(l) = 2 =>
                  /\ l \in 0 .. 6 /\ Pixels!Priority(l) # 0
                  /\ Pixels!effpri(l) = Pixels!Priority(l) * 8 + (IF l = 6 THEN 7 ELSE 6 - l)
<1>1. l \in 0 .. 5 \/ l = 6 \/ l = 7
  BY DEF Pixels!Enabled, Pixels!Layers, Pixels!SPRITE, Pixels!BACKGROUND
<1>2. CASE l \in 0 .. 5
  <2>1. pixel_inputs.layer[l].priority \in 1 .. 15
    BY <1>2, InputTypes DEF Pixels!Enabled, Pixels!Layers, Pixels!SPRITE, Pixels!BACKGROUND
  <2> QED
    BY <1>2, <2>1 DEF Pixels!Class, Pixels!Priority, Pixels!effpri, Pixels!opaque_zero, Pixels!NBG,
                      Pixels!SPRITE, Pixels!BACKGROUND
<1>3. CASE l = 6
  <2>1. pixel_inputs.sprite.priority \in 1 .. 15
    BY <1>3, InputTypes DEF Pixels!Enabled, Pixels!Layers, Pixels!SPRITE, Pixels!BACKGROUND
  <2> QED
    BY <1>3, <2>1 DEF Pixels!Class, Pixels!Priority, Pixels!effpri, Pixels!opaque_zero, Pixels!NBG,
                      Pixels!SPRITE, Pixels!BACKGROUND
<1>4. CASE l = 7
  BY <1>4 DEF Pixels!Class, Pixels!Priority, Pixels!effpri, Pixels!opaque_zero, Pixels!NBG,
              Pixels!SPRITE, Pixels!BACKGROUND
<1> QED BY <1>1, <1>2, <1>3, <1>4

LEMMA KeyRanks ==
    ASSUME pixel_inputs \in Inputs, NEW l \in Pixels!Enabled, NEW m \in Pixels!Enabled
    PROVE  /\ Pixels!effpri(l) > Pixels!effpri(m) <=> Pixels!Above(l, m)
           /\ Pixels!effpri(l) = Pixels!effpri(m) => l = m
<1>1. PICK cl \in 0 .. 2, cm \in 0 .. 2, pl \in 0 .. 15, pm \in 0 .. 15, kl \in 1 .. 127, km \in 1 .. 127 :
          /\ cl = Pixels!Class(l) /\ cm = Pixels!Class(m)
          /\ pl = Pixels!Priority(l) /\ pm = Pixels!Priority(m)
          /\ kl = Pixels!effpri(l) /\ km = Pixels!effpri(m)
  BY Ranked
<1>2. /\ l \in 0 .. 7
      /\ cl = 0 <=> l = 7
      /\ cl = 0 => kl = 1 /\ pl = 0
      /\ cl = 1 => kl = 6 - l /\ l \in 1 .. 4 /\ pl = 0
      /\ cl = 2 => l \in 0 .. 6 /\ pl # 0 /\ kl = pl * 8 + (IF l = 6 THEN 7 ELSE 6 - l)
  BY Ranked, <1>1
<1>3. /\ m \in 0 .. 7
      /\ cm = 0 <=> m = 7
      /\ cm = 0 => km = 1 /\ pm = 0
      /\ cm = 1 => km = 6 - m /\ m \in 1 .. 4 /\ pm = 0
      /\ cm = 2 => m \in 0 .. 6 /\ pm # 0 /\ km = pm * 8 + (IF m = 6 THEN 7 ELSE 6 - m)
  BY Ranked, <1>1
<1>4. Pixels!Above(l, m) <=>
          \/ cl > cm
          \/ cl = cm /\ pl > pm
          \/ cl = cm /\ pl = pm /\ l # m /\ (l = 6 \/ (m # 6 /\ l < m))
  BY <1>1 DEF Pixels!Above, Pixels!SPRITE
<1>5. kl > km <=>
          \/ cl > cm
          \/ cl = cm /\ pl > pm
          \/ cl = cm /\ pl = pm /\ l # m /\ (l = 6 \/ (m # 6 /\ l < m))
  BY <1>2, <1>3
<1>6. kl = km => l = m
  BY <1>2, <1>3
<1> QED BY <1>1, <1>4, <1>5, <1>6

\* A set of numbers up to n has a greatest one.
LEMMA Greatest ==
    ASSUME NEW n \in Nat, NEW S \in SUBSET (0 .. n), S # {}
    PROVE  \E x \in S : \A y \in S : y <= x
<1> DEFINE R == OpToRel(<, Nat)
           T == {n - x : x \in S}
<1>1. IsWellFoundedOn(R, Nat)
  BY NatLessThanWellFounded
<1>2. \A x, y \in Nat : x < y => <<x, y>> \in R
  BY DEF OpToRel
<1>3. T \in SUBSET Nat /\ T # {}
  BY \A x \in S : n - x \in Nat
<1> HIDE DEF R, T
<1>4. PICK t \in T : \A y \in T : <<y, t>> \notin R
  BY <1>1, <1>3, WFMin
<1>5. PICK x \in S : t = n - x
  BY DEF T
<1>6. ASSUME NEW y \in S PROVE y <= x
  <2>1. n - y \in T
    BY DEF T
  <2>2. n - x \in Nat /\ n - y \in Nat
    OBVIOUS
  <2>3. ~(n - y < n - x)
    BY <1>2, <1>4, <1>5, <2>1, <2>2
  <2> QED BY <2>3
<1> QED BY <1>6

\* The scan stops at the layer of the candidates that is on top.
LEMMA ScansTop ==
    ASSUME pixel_inputs \in Inputs, NEW below, NEW shadow, NEW C,
           C = {l \in Pixels!Enabled : Pixels!effpri(l) < below}, 7 \in C
    PROVE  LET scan == Pixels!scan(below, shadow)
           IN  /\ scan.layer \in C /\ Pixels!Tops(C) = {scan.layer}
               /\ scan.shadow = IF 6 \in C /\ Pixels!effpri(6) >= Pixels!effpri(scan.layer)
                                THEN Pixels!SpriteShadow ELSE shadow
<1> DEFINE Best(l) == Pixels!Shows(l) /\ \A m \in C : Pixels!Shows(m) => Pixels!effpri(m) <= Pixels!effpri(l)
           keys == {Pixels!effpri(l) : l \in {m \in C : Pixels!Shows(m)}}
           top == CHOOSE l \in C : Best(l)
<1>1. C \subseteq Pixels!Enabled /\ 7 \in C
  OBVIOUS
<1>2. Pixels!scan(below, shadow) =
          [layer |-> top,
           shadow |-> IF 6 \in C /\ Pixels!effpri(6) >= Pixels!effpri(top)
                      THEN Pixels!SpriteShadow ELSE shadow]
  BY DEF Pixels!scan, Pixels!SPRITE
<1>3. Pixels!Shows(7)
  BY DEF Pixels!Shows, Pixels!BACKGROUND, Pixels!SPRITE
<1>4. \A l \in C : Pixels!effpri(l) \in 1 .. 127
  BY <1>1, Ranked
<1>5. keys \in SUBSET (0 .. 127) /\ keys # {}
  BY <1>1, <1>3, <1>4
<1>6. \E l \in C : Best(l)
  <2>1. PICK k \in keys : \A y \in keys : y <= k
    BY <1>5, Greatest
  <2>2. PICK l \in C : Pixels!Shows(l) /\ k = Pixels!effpri(l)
    OBVIOUS
  <2>3. ASSUME NEW m \in C, Pixels!Shows(m) PROVE Pixels!effpri(m) <= Pixels!effpri(l)
    <3>1. Pixels!effpri(m) \in keys
      BY <2>3
    <3> QED BY <2>1, <2>2, <3>1
  <2> QED BY <2>2, <2>3
<1>7. top \in C /\ Best(top)
  BY <1>6
<1> HIDE DEF top
<1>8. ASSUME NEW m \in C, Pixels!Shows(m), m # top PROVE Pixels!Above(top, m)
  <2>1. m \in Pixels!Enabled /\ top \in Pixels!Enabled
    BY <1>1, <1>7
  <2>2. Pixels!effpri(m) <= Pixels!effpri(top) /\ Pixels!effpri(m) # Pixels!effpri(top)
    BY <1>7, <1>8, <2>1, KeyRanks
  <2>3. Pixels!effpri(m) \in 1 .. 127 /\ Pixels!effpri(top) \in 1 .. 127
    BY <1>4, <1>7
  <2>4. Pixels!effpri(top) > Pixels!effpri(m)
    BY <2>2, <2>3
  <2> QED BY <2>1, <2>4, KeyRanks
<1>9. ASSUME NEW l \in C, Pixels!Shows(l), l # top PROVE ~Pixels!Above(l, top)
  <2>1. l \in Pixels!Enabled /\ top \in Pixels!Enabled
    BY <1>1, <1>7
  <2>2. Pixels!effpri(l) <= Pixels!effpri(top)
    BY <1>7, <1>9
  <2>3. Pixels!effpri(l) \in 1 .. 127 /\ Pixels!effpri(top) \in 1 .. 127
    BY <1>4, <1>7
  <2>4. ~(Pixels!effpri(l) > Pixels!effpri(top))
    BY <2>2, <2>3
  <2> QED BY <2>1, <2>4, KeyRanks
<1>10. Pixels!Tops(C) = {top}
  <2>1. top \in Pixels!Tops(C)
    BY <1>7, <1>8 DEF Pixels!Tops
  <2>2. ASSUME NEW l \in Pixels!Tops(C) PROVE l = top
    BY <1>7, <1>9 DEF Pixels!Tops
  <2> QED BY <2>1, <2>2
<1>11. /\ Pixels!scan(below, shadow).layer = top
       /\ Pixels!scan(below, shadow).shadow = IF 6 \in C /\ Pixels!effpri(6) >= Pixels!effpri(top)
                                            THEN Pixels!SpriteShadow ELSE shadow
  BY <1>2
<1> QED BY <1>7, <1>10, <1>11

\* Nothing but the input tells how the layers of a pixel rank.
LEMMA InputRanks ==
    ASSUME UNCHANGED pixel_inputs
    PROVE  /\ \A l, m : Pixels!Above(l, m)' <=> Pixels!Above(l, m)
           /\ Pixels!Enabled' = Pixels!Enabled
           /\ \A l : Pixels!Shows(l)' = Pixels!Shows(l)
           /\ Pixels!SpriteShadow' <=> Pixels!SpriteShadow
  BY DEF Pixels!Above, Pixels!Class, Pixels!Priority, Pixels!opaque_zero, Pixels!Enabled, Pixels!Shows,
         Pixels!SpriteShadow

\* A pixel shows the layer on top, is blended with the one below it and is
\* darkened by a sprite before what is seen, for any registers and pixels.
THEOREM RankedMix == BenchSpec => []MixedAsRanked
<1> DEFINE MixInv == MixerGiven /\ MixedAsRanked
<1>1. BenchInit => MixInv
  BY DEF BenchInit, MixerGiven, MixedAsRanked, Pixels!MixedAsRanked
<1>2. ASSUME MixInv, Mixing PROVE MixInv'
  <2>1. pixel_inputs \in Inputs /\ UNCHANGED <<unit, pixel_inputs>> /\ Pixels!mix_pixel
    BY <1>2 DEF Mixing, MixerGiven, Pixels!Next, Pixels!mix_pixel
  <2> DEFINE E == Pixels!Enabled
             first == Pixels!scan(128, FALSE)
             w == first.layer
             second == Pixels!scan(Pixels!effpri(w), first.shadow)
             p == second.layer
             Below == {l \in E : Pixels!Above(w, l)}
  <2>2. \A l \in E : Pixels!effpri(l) \in 1 .. 127
    BY <2>1, Ranked
  <2>3. 7 \in E /\ Pixels!effpri(7) = 1
    BY DEF Pixels!Enabled, Pixels!BACKGROUND, Pixels!effpri
  <2>4. {l \in E : Pixels!effpri(l) < 128} = E
    BY <2>2
  <2>5. /\ w \in E /\ Pixels!Tops(E) = {w}
        /\ first.shadow = IF 6 \in E /\ Pixels!effpri(6) >= Pixels!effpri(w)
                          THEN Pixels!SpriteShadow ELSE FALSE
    BY <2>1, <2>3, <2>4, ScansTop
  <2> HIDE DEF first, w
  <2>6. ASSUME NEW l \in E, 6 \in E
        PROVE  Pixels!effpri(6) >= Pixels!effpri(l) <=> l = 6 \/ Pixels!Above(6, l)
    <3>1. Pixels!effpri(6) > Pixels!effpri(l) <=> Pixels!Above(6, l)
      BY <2>1, <2>6, KeyRanks
    <3>2. Pixels!effpri(6) = Pixels!effpri(l) => l = 6
      BY <2>1, <2>6, KeyRanks
    <3>3. Pixels!effpri(6) \in 1 .. 127 /\ Pixels!effpri(l) \in 1 .. 127
      BY <2>2, <2>6
    <3>4. Pixels!effpri(6) >= Pixels!effpri(l) <=>
              Pixels!effpri(6) > Pixels!effpri(l) \/ Pixels!effpri(6) = Pixels!effpri(l)
      BY <3>3
    <3> QED BY <3>1, <3>2, <3>4
  <2>7. ASSUME w \in Pixels!Layers
        PROVE  /\ p \in Below /\ Pixels!Tops(Below) = {p}
               /\ second.shadow = IF 6 \in Below /\ Pixels!effpri(6) >= Pixels!effpri(p)
                                  THEN Pixels!SpriteShadow ELSE first.shadow
    <3>1. Below = {l \in E : Pixels!effpri(l) < Pixels!effpri(w)}
      <4>1. ASSUME NEW l \in E PROVE Pixels!effpri(l) < Pixels!effpri(w) <=> Pixels!Above(w, l)
        <5>1. Pixels!effpri(w) > Pixels!effpri(l) <=> Pixels!Above(w, l)
          BY <2>1, <2>5, KeyRanks
        <5> QED BY <2>2, <2>5, <5>1
      <4> QED BY <4>1
    <3>2. Pixels!effpri(w) > 1
      <4>1. w # 7 /\ Pixels!effpri(w) \in 1 .. 127
        BY <2>2, <2>5, <2>7 DEF Pixels!Layers
      <4>2. Pixels!effpri(w) # 1
        BY <2>1, <2>3, <2>5, <4>1, KeyRanks
      <4> QED BY <4>1, <4>2
    <3>3. 7 \in {l \in E : Pixels!effpri(l) < Pixels!effpri(w)}
      BY <2>3, <3>2
    <3> HIDE DEF Below
    <3> QED BY <2>1, <3>1, <3>3, ScansTop
  <2>8. ASSUME 6 \in E
        PROVE  Pixels!effpri(6) >= Pixels!effpri(w) <=> w = 6 \/ Pixels!Above(6, w)
    BY <2>5, <2>6, <2>8
  <2>9. \/ /\ result'.winner = w /\ result'.partner = -1
           /\ result'.shadowed = first.shadow
        \/ /\ result'.winner = w /\ result'.partner = p
           /\ result'.shadowed = second.shadow
           /\ w \in Pixels!Layers
    BY <2>1 DEF Pixels!mix_pixel, Pixels!shadow_of_blend, first, w
  <2> HIDE DEF E, second, p, Below
  <2>10. CASE /\ result'.winner = w /\ result'.partner = -1
              /\ result'.shadowed = first.shadow
    <3>1. result'.shadowed <=> 6 \in E /\ Pixels!SpriteShadow /\ (w = 6 \/ Pixels!Above(6, w))
      BY <2>5, <2>8, <2>10
    <3>2. MixedAsRanked'
      BY <2>1, <2>5, <2>10, <3>1, InputRanks
         DEF MixedAsRanked, Pixels!MixedAsRanked, Pixels!Tops, Pixels!SPRITE, E
    <3> QED BY <2>1, <3>2 DEF MixerGiven
  <2>11. CASE /\ result'.winner = w /\ result'.partner = p
              /\ result'.shadowed = second.shadow
              /\ w \in Pixels!Layers
    <3>1. /\ p \in E /\ p # -1 /\ Pixels!Above(w, p)
          /\ Pixels!Tops(Below) = {p}
      BY <2>1, <2>7, <2>11, Ranked DEF Below, E
    <3>2. ASSUME 6 \in E
          PROVE  result'.shadowed <=> Pixels!SpriteShadow /\ (p = 6 \/ w = 6 \/ Pixels!Above(6, p))
      <4>1. Pixels!effpri(w) > Pixels!effpri(6) <=> Pixels!Above(w, 6)
        BY <2>1, <2>5, <3>2, KeyRanks DEF E
      <4>2. Pixels!effpri(w) > Pixels!effpri(p)
        BY <2>1, <2>5, <3>1, KeyRanks DEF E
      <4>3. Pixels!effpri(6) >= Pixels!effpri(p) <=> p = 6 \/ Pixels!Above(6, p)
        BY <2>6, <3>1, <3>2
      <4>4. Pixels!effpri(6) \in 1 .. 127 /\ Pixels!effpri(w) \in 1 .. 127 /\ Pixels!effpri(p) \in 1 .. 127
        BY <2>2, <2>5, <3>1, <3>2
      <4>5. w # 6
        BY <2>11 DEF Pixels!Layers
      <4>6. CASE Pixels!effpri(w) > Pixels!effpri(6)
        <5>1. 6 \in Below /\ ~(Pixels!effpri(6) >= Pixels!effpri(w))
          BY <3>2, <4>1, <4>4, <4>6 DEF Below
        <5> QED BY <2>5, <2>7, <2>11, <4>3, <4>5, <5>1
      <4>7. CASE ~(Pixels!effpri(w) > Pixels!effpri(6))
        <5>1. 6 \notin Below
          BY <4>1, <4>7 DEF Below
        <5>2. \A a, b, c \in 1 .. 127 : a > b /\ ~(a > c) => c >= a /\ c >= b
          OBVIOUS
        <5>3. Pixels!effpri(6) >= Pixels!effpri(w) /\ Pixels!effpri(6) >= Pixels!effpri(p)
          BY <4>2, <4>4, <4>7, <5>2
        <5> QED BY <2>5, <2>7, <2>11, <3>2, <4>3, <5>1, <5>3
      <4> QED BY <4>6, <4>7
    <3>3. 6 \notin E => ~result'.shadowed
      BY <2>5, <2>7, <2>11 DEF Below
    <3>4. result'.shadowed <=>
              6 \in E /\ Pixels!SpriteShadow /\ (p = 6 \/ w = 6 \/ Pixels!Above(6, p))
      BY <3>2, <3>3
    <3>5. MixedAsRanked'
      BY <2>1, <2>5, <2>11, <3>1, <3>4, InputRanks
         DEF MixedAsRanked, Pixels!MixedAsRanked, Pixels!Tops, Pixels!SPRITE, E, Below
    <3> QED BY <2>1, <3>5 DEF MixerGiven
  <2> QED BY <2>9, <2>10, <2>11
<1>3. ASSUME MixInv, ~Mixing, [BenchNext]_benchVars PROVE MixInv'
  <2>1. UNCHANGED <<unit, mixerVars>>
    BY <1>3 DEF BenchNext, Converging, Releasing, Identifying, FetchingDonors, Replaying, benchVars
  <2>2. result' = result /\ pixel_inputs' = pixel_inputs /\ unit' = unit
    BY <2>1 DEF mixerVars
  <2>3. MixedAsRanked'
    BY <1>3, <2>2, InputRanks DEF MixedAsRanked, Pixels!MixedAsRanked, Pixels!Tops
  <2> QED BY <1>3, <2>2, <2>3 DEF MixerGiven
<1>4. MixInv /\ [BenchNext]_benchVars => MixInv'
  BY <1>2, <1>3
<1> QED BY <1>1, <1>4, PTL DEF BenchSpec

-----------------------------------------------------------------------------
(***************************************************************************)
(* The donors.  Under a label at which no two fetches were at work at      *)
(* once, a tree that was checked out is never touched again: its own fetch *)
(* is over, and the label is taken for every other.                        *)
(***************************************************************************)
Commits == 0 .. MaxCommits
Finished == [part : {"checked out"}, head : Commits, fetched : Commits]
Trees == [part : {"cloned", "broken", "checked out"},
          head : Commits \cup {Absent}, fetched : Commits \cup {Absent}]
Records == [label : Fetching!Labels, commit : Commits \cup {Absent},
            license_status : {"recorded", "MISSING"}]

Cloning == Fetching!Cloning
Recording == {"add", "save", "copy"}
DonorSteps == Cloning \cup Recording \cup
    {"begin", "scan", "refused", "failed", "timed out", "recorded", "killed"}

DonorTypes ==
    /\ branch \in Commits
    /\ clone \in [Fetching!Labels -> Trees \cup {Absent}]
    /\ step \in [Fetchers -> DonorSteps]
    /\ record \in [Fetchers -> Records \cup {Absent}]
    /\ data \in [Fetchers -> SUBSET Records] /\ provenance \in SUBSET Records
    /\ crossed \subseteq Fetching!Labels

\* What a fetch has of its own.
FetchInv(p) ==
    /\ step[p] \in Recording => record[p] \in Records /\ record[p].label = LabelOf[p]
    /\ LabelOf[p] \notin crossed =>
        /\ step[p] \in Cloning => clone[LabelOf[p]] = Absent \/ clone[LabelOf[p]].part # "checked out"
        /\ step[p] \in Recording \cup {"scan"} => clone[LabelOf[p]] \in Finished
        /\ step[p] \in Recording => record[p].commit \in {clone[LabelOf[p]].head, Absent}

\* Two fetches at work under one label have crossed.
Sole ==
    \A p, q \in Fetchers :
        LabelOf[p] = LabelOf[q] /\ p # q /\ step[p] \in Cloning /\ step[q] \in Cloning
            => LabelOf[p] \in crossed

\* What a record tells of is there to stay.
Lies(r) ==
    r.label \notin crossed =>
        clone[r.label] \in Finished /\ r.commit \in {clone[r.label].head, Absent}

Lying == \A r \in provenance \cup UNION {data[p] : p \in Fetchers} : Lies(r)

DonorInv == DonorTypes /\ (\A p \in Fetchers : FetchInv(p)) /\ Sole /\ Lying

LEMMA DonorFacts ==
    /\ \A p \in Fetchers : LabelOf[p] \in Fetching!Labels
    /\ MaxCommits \in Nat /\ Absent \notin Commits /\ Absent \notin Finished
<1>1. Fetching!DonorsAssumption
  BY WorkbenchAssumption
<1>2. \A p \in Fetchers : LabelOf[p] \in Fetching!Labels
  BY DEF Fetching!Labels
<1>4. MaxCommits \in Nat /\ Absent \notin Nat
  BY <1>1 DEF Fetching!DonorsAssumption
<1>5. Absent \notin Commits
  BY <1>4 DEF Commits
<1>6. Absent \notin Finished
  BY <1>1 DEF Fetching!DonorsAssumption, Fetching!Commits, Finished, Commits
<1> QED BY <1>2, <1>4, <1>5, <1>6

\* A step of a fetch: what it may change, and when.
Moves(p) ==
    /\ branch' = branch
    /\ step' = [step EXCEPT ![p] = step'[p]] /\ step'[p] \in DonorSteps
    /\ \/ clone' = clone
       \/ /\ step[p] \in Cloning
          /\ clone' = [clone EXCEPT ![LabelOf[p]] = clone'[LabelOf[p]]]
          /\ clone'[LabelOf[p]] \in Trees \cup {Absent}
    /\ record' = [record EXCEPT ![p] = record'[p]] /\ record'[p] \in Records \cup {Absent}
    /\ data' = [data EXCEPT ![p] = data'[p]] /\ data'[p] \in {data[p], provenance, {}}
    /\ \/ provenance' = provenance
       \/ /\ step[p] \in Recording
          /\ provenance' \subseteq data[p] \cup {record[p]}
    /\ crossed \subseteq crossed' /\ crossed' \subseteq Fetching!Labels
    /\ \/ step'[p] \notin Cloning
       \/ step[p] \in Cloning
       \/ \A q \in Fetchers \ {p} :
              LabelOf[q] = LabelOf[p] /\ step[q] \in Cloning => LabelOf[p] \in crossed'

DonorStep(p) ==
    \/ Fetching!Begin(p) \/ Fetching!Clone(p, "clone", "clone again")
    \/ Fetching!Clone(p, "clone again", "failed")
    \/ Fetching!Fetch(p) \/ Fetching!Checkout(p) \/ Fetching!Scan(p) \/ Fetching!Load(p)
    \/ Fetching!Save(p) \/ Fetching!CopyLicences(p) \/ Fetching!Killed(p) \/ Fetching!Again(p)

\* A command of git, which leaves what it likes of its own tree.
LEMMA GitMoves ==
    ASSUME DonorInv, NEW p \in Fetchers, UNCHANGED <<branch, provenance>>, Fetching!Alone,
           Fetching!Forgets(p) \/ UNCHANGED <<record, data>>,
           step[p] \in Cloning,
           NEW s \in DonorSteps \ Recording, NEW c \in Trees \cup {Absent},
           Fetching!To(p, s), Fetching!Put(p, c),
           s = "scan" => c \in Finished,
           s \in Cloning /\ LabelOf[p] \notin crossed => c = Absent \/ c.part # "checked out"
    PROVE  Moves(p) /\ FetchInv(p)'
<1>1. DonorTypes
  BY DEF DonorInv
<1>2. LabelOf[p] \in Fetching!Labels
  BY DonorFacts
<1>3. step'[p] = s /\ clone'[LabelOf[p]] = c /\ crossed' = crossed
  BY <1>1, <1>2 DEF Fetching!To, Fetching!Put, Fetching!Alone, DonorTypes
<1>4. FetchInv(p)'
  BY <1>3 DEF FetchInv
<1>5. /\ record' = [record EXCEPT ![p] = record'[p]] /\ record'[p] \in Records \cup {Absent}
      /\ data' = [data EXCEPT ![p] = data'[p]] /\ data'[p] \in {data[p], provenance, {}}
  BY <1>1 DEF Fetching!Forgets, DonorTypes
<1>6. step' = [step EXCEPT ![p] = step'[p]]
      /\ clone' = [clone EXCEPT ![LabelOf[p]] = clone'[LabelOf[p]]]
  BY <1>3 DEF Fetching!To, Fetching!Put
<1>7. Moves(p)
  BY <1>1, <1>3, <1>5, <1>6 DEF Moves, DonorTypes
<1> QED BY <1>4, <1>7

\* A step between two fetches, which leaves the tree as it is.
LEMMA StillMoves ==
    ASSUME DonorInv, NEW p \in Fetchers, UNCHANGED <<branch, provenance, clone>>, Fetching!Alone,
           NEW s \in DonorSteps \ (Recording \cup Cloning \cup {"scan"}), Fetching!To(p, s),
           Fetching!Forgets(p) \/ UNCHANGED <<record, data>>
    PROVE  Moves(p) /\ FetchInv(p)'
<1>1. DonorTypes
  BY DEF DonorInv
<1>2. step'[p] = s /\ crossed' = crossed
  BY <1>1 DEF Fetching!To, Fetching!Alone, DonorTypes
<1>3. FetchInv(p)'
  BY <1>2 DEF FetchInv
<1>4. /\ record' = [record EXCEPT ![p] = record'[p]] /\ record'[p] \in Records \cup {Absent}
      /\ data' = [data EXCEPT ![p] = data'[p]] /\ data'[p] \in {data[p], provenance, {}}
  BY <1>1 DEF Fetching!Forgets, DonorTypes
<1>5. Moves(p)
  BY <1>1, <1>2, <1>4 DEF Moves, Fetching!To, DonorTypes
<1> QED BY <1>3, <1>5

LEMMA DonorMoves ==
    ASSUME DonorInv, NEW p \in Fetchers, DonorStep(p)
    PROVE  Moves(p) /\ FetchInv(p)'
<1> DEFINE l == LabelOf[p]
<1>t. DonorTypes /\ FetchInv(p)
  BY DEF DonorInv
<1>l. l \in Fetching!Labels
  BY DonorFacts
<1>b. /\ Fetching!Bare \in Trees /\ Fetching!Broken \in Trees
      /\ Fetching!Bare.part # "checked out"
      /\ {"clone again", "failed", "timed out", "fetch", "checkout", "scan", "killed"}
             \subseteq DonorSteps \ Recording
      /\ {"refused", "begin", "killed", "failed", "timed out", "recorded"}
             \subseteq DonorSteps \ (Recording \cup Cloning \cup {"scan"})
  BY <1>t DEF DonorTypes, Fetching!Bare, Fetching!Broken, Trees, DonorSteps, Cloning, Fetching!Cloning,
              Recording
<1>f. \A next \in {"clone again", "failed"} :
          step[p] \in Cloning /\ Fetching!Kept /\ Fetching!Alone
                  /\ (Fetching!Fails(p, next) \/ Fetching!Hangs(p))
              => Moves(p) /\ FetchInv(p)'
  <2>1. ASSUME NEW next \in {"clone again", "failed"}, step[p] \in Cloning, Fetching!Kept,
               Fetching!Alone, Fetching!Fails(p, next)
        PROVE  Moves(p) /\ FetchInv(p)'
    <3>1. /\ UNCHANGED <<branch, provenance>> /\ UNCHANGED <<record, data>>
          /\ Fetching!To(p, next) /\ Fetching!Put(p, Absent)
      BY <2>1 DEF Fetching!Fails, Fetching!Kept
    <3>2. next # "scan" /\ next \in DonorSteps \ Recording
      BY <1>b
    <3> QED BY <2>1, <3>1, <3>2, GitMoves
  <2>2. ASSUME step[p] \in Cloning, Fetching!Kept, Fetching!Alone, Fetching!Hangs(p)
        PROVE  Moves(p) /\ FetchInv(p)'
    <3>1. /\ UNCHANGED <<branch, provenance>> /\ UNCHANGED <<record, data>>
          /\ Fetching!To(p, "timed out")
          /\ Fetching!Put(p, Fetching!Broken) \/ UNCHANGED clone
      BY <2>2 DEF Fetching!Hangs, Fetching!Spoils, Fetching!Kept
    <3>2. CASE Fetching!Put(p, Fetching!Broken)
      BY <1>b, <2>2, <3>1, <3>2, GitMoves
    <3>3. CASE UNCHANGED clone
      BY <1>b, <2>2, <3>1, <3>3, StillMoves
    <3> QED BY <3>1, <3>2, <3>3
  <2> QED BY <2>1, <2>2
<1>1. CASE Fetching!Begin(p)
  <2>1. Fetching!Kept /\ UNCHANGED clone /\ UNCHANGED <<branch, provenance>> /\ UNCHANGED <<record, data>>
    BY <1>1 DEF Fetching!Begin, Fetching!Kept
  <2>2. CASE Fetching!To(p, "refused") /\ Fetching!Alone
    BY <1>b, <2>1, <2>2, StillMoves
  <2>3. CASE clone[l] = Absent /\ Fetching!To(p, "clone")
    <3> DEFINE others == {o \in Fetchers \ {p} : LabelOf[o] = LabelOf[p] /\ step[o] \in Fetching!Cloning}
    <3>1. crossed' = crossed \cup {LabelOf[q] : q \in others}
      BY <1>1, <1>b, <2>3, <1>t DEF Fetching!Begin, Fetching!To, Fetching!Mine, DonorTypes
    <3>2. crossed \subseteq crossed' /\ crossed' \subseteq Fetching!Labels
      BY <1>t, <3>1, DonorFacts DEF DonorTypes
    <3>3. \A q \in Fetchers \ {p} :
              LabelOf[q] = LabelOf[p] /\ step[q] \in Cloning => LabelOf[p] \in crossed'
      BY <3>1 DEF Cloning
    <3>4. step'[p] = "clone" /\ step' = [step EXCEPT ![p] = step'[p]]
      BY <1>t, <2>3 DEF Fetching!To, DonorTypes
    <3>5. "clone" \in DonorSteps /\ "clone" \notin Recording \cup {"scan"}
      BY DEF DonorSteps, Cloning, Fetching!Cloning, Recording
    <3>6. FetchInv(p)'
      BY <2>1, <2>3, <3>4, <3>5 DEF FetchInv
    <3>7. /\ record' = [record EXCEPT ![p] = record'[p]] /\ record'[p] \in Records \cup {Absent}
          /\ data' = [data EXCEPT ![p] = data'[p]] /\ data'[p] = data[p]
      BY <1>t, <2>1 DEF DonorTypes
    <3> QED BY <2>1, <3>2, <3>3, <3>4, <3>5, <3>6, <3>7 DEF Moves
  <2> QED BY <1>1, <2>2, <2>3 DEF Fetching!Begin, Fetching!Mine
<1>2. ASSUME NEW here \in {"clone", "clone again"}, NEW next \in {"clone again", "failed"},
             Fetching!Clone(p, here, next)
      PROVE  Moves(p) /\ FetchInv(p)'
  <2>1. /\ step[p] \in Cloning /\ Fetching!Kept /\ Fetching!Alone
        /\ UNCHANGED <<branch, provenance>> /\ UNCHANGED <<record, data>>
    BY <1>2 DEF Fetching!Clone, Cloning, Fetching!Cloning, Fetching!Kept
  <2>2. CASE Fetching!Put(p, Fetching!Bare) /\ Fetching!To(p, "fetch")
    BY <1>b, <2>1, <2>2, GitMoves
  <2> QED BY <1>2, <1>f, <2>1, <2>2 DEF Fetching!Clone
<1>3. CASE Fetching!Fetch(p)
  <2>1. /\ step[p] \in Cloning /\ Fetching!Kept /\ Fetching!Alone
        /\ UNCHANGED <<branch, provenance>> /\ UNCHANGED <<record, data>>
    BY <1>3 DEF Fetching!Fetch, Cloning, Fetching!Cloning, Fetching!Kept
  <2> DEFINE c == [clone[LabelOf[p]] EXCEPT !.fetched = branch]
  <2>2. CASE clone[LabelOf[p]] # Absent /\ Fetching!Put(p, c) /\ Fetching!To(p, "checkout")
    <3>1. clone[LabelOf[p]] \in Trees
      BY <1>t, <1>l, <2>2 DEF DonorTypes
    <3>2. c \in Trees /\ c.part = clone[LabelOf[p]].part
      BY <1>t, <3>1 DEF Trees, DonorTypes
    <3>3. LabelOf[p] \notin crossed => c.part # "checked out"
      BY <1>t, <2>1, <2>2, <3>2 DEF FetchInv
    <3> QED BY <1>b, <2>1, <2>2, <3>2, <3>3, GitMoves
  <2> QED BY <1>3, <1>f, <2>1, <2>2 DEF Fetching!Fetch, Fetching!Mine
<1>4. CASE Fetching!Checkout(p)
  <2>1. /\ step[p] \in Cloning /\ Fetching!Kept /\ Fetching!Alone
        /\ UNCHANGED <<branch, provenance>> /\ UNCHANGED <<record, data>>
    BY <1>4 DEF Fetching!Checkout, Cloning, Fetching!Cloning, Fetching!Kept
  <2> DEFINE f == clone[LabelOf[p]].fetched
             c == [part |-> "checked out", head |-> f, fetched |-> f]
  <2>2. CASE clone[LabelOf[p]] # Absent /\ f # Absent /\ Fetching!Put(p, c) /\ Fetching!To(p, "scan")
    <3>1. clone[LabelOf[p]] \in Trees
      BY <1>t, <1>l, <2>2 DEF DonorTypes
    <3>2. f \in Commits
      BY <2>2, <3>1 DEF Trees
    <3>3. c \in Trees /\ c \in Finished
      BY <3>2 DEF Trees, Finished
    <3>4. "scan" \notin Cloning
      BY DEF Cloning, Fetching!Cloning
    <3> QED BY <1>b, <2>1, <2>2, <3>3, <3>4, GitMoves
  <2> QED BY <1>4, <1>f, <2>1, <2>2 DEF Fetching!Checkout, Fetching!Mine, Fetching!checkout_failed
<1>5. CASE Fetching!Scan(p)
  <2>1. step[p] = "scan" /\ Fetching!Alone /\ UNCHANGED <<branch, clone, provenance>> /\ data' = data
    BY <1>5 DEF Fetching!Scan, Fetching!Alone
  <2>2. CASE Fetching!To(p, "failed") /\ UNCHANGED record
    BY <1>b, <2>1, <2>2, StillMoves
  <2>3. ASSUME clone[l] # Absent, Fetching!To(p, "add"),
               NEW found \in {clone[l].head, Absent}, NEW x \in {"recorded", "MISSING"},
               record' = [record EXCEPT ![p] = [label |-> l, commit |-> found, license_status |-> x]]
        PROVE  Moves(p) /\ FetchInv(p)'
    <3>1. clone[l] \in Trees
      BY <1>t, <1>l, <2>3 DEF DonorTypes
    <3>2. found \in Commits \cup {Absent}
      BY <3>1 DEF Trees
    <3>3. record'[p] = [label |-> l, commit |-> found, license_status |-> x]
      BY <1>t, <2>3 DEF DonorTypes
    <3>4. record'[p] \in Records /\ record'[p].label = l /\ record'[p].commit = found
      BY <1>l, <3>2, <3>3 DEF Records
    <3>5. record' = [record EXCEPT ![p] = record'[p]]
      BY <2>3, <3>3
    <3>6. step' = [step EXCEPT ![p] = "add"] /\ step'[p] = "add"
      BY <1>t, <2>3 DEF Fetching!To, DonorTypes
    <3>7. "add" \in DonorSteps /\ "add" \notin Cloning
      BY DEF DonorSteps, Recording, Cloning, Fetching!Cloning
    <3>8. l \notin crossed' => clone'[l] \in Finished /\ found \in {clone'[l].head, Absent}
      BY <1>t, <2>1, <2>3 DEF FetchInv, Fetching!Alone
    <3>9. FetchInv(p)'
      BY <3>4, <3>6, <3>7, <3>8 DEF FetchInv
    <3>10. data' = [data EXCEPT ![p] = data'[p]] /\ data'[p] = data[p] /\ crossed' = crossed
      BY <1>t, <2>1 DEF DonorTypes, Fetching!Alone
    <3> QED BY <1>t, <2>1, <3>4, <3>5, <3>6, <3>7, <3>9, <3>10 DEF Moves, DonorTypes
  <2> QED BY <1>5, <2>2, <2>3 DEF Fetching!Scan, Fetching!Mine
<1>6. CASE Fetching!Load(p)
  <2>1. /\ step[p] = "add" /\ step' = [step EXCEPT ![p] = "save"] /\ step'[p] = "save"
        /\ UNCHANGED <<branch, clone, provenance, record, crossed>>
        /\ data' = [data EXCEPT ![p] = provenance]
    BY <1>6, <1>t DEF Fetching!Load, Fetching!To, DonorTypes
  <2>2. "save" \in DonorSteps /\ "save" \notin Cloning
    BY DEF DonorSteps, Recording, Cloning, Fetching!Cloning
  <2>3. FetchInv(p)'
    BY <1>t, <2>1, <2>2 DEF FetchInv, Recording
  <2>4. /\ record' = [record EXCEPT ![p] = record'[p]] /\ record'[p] \in Records \cup {Absent}
        /\ data' = [data EXCEPT ![p] = data'[p]] /\ data'[p] = provenance
    BY <1>t, <2>1 DEF DonorTypes
  <2> QED BY <1>t, <2>1, <2>2, <2>3, <2>4 DEF Moves, DonorTypes
<1>7. CASE Fetching!Save(p)
  <2>1. /\ step[p] = "save" /\ step' = [step EXCEPT ![p] = "copy"] /\ step'[p] = "copy"
        /\ UNCHANGED <<branch, clone, data, record, crossed>>
        /\ provenance' \subseteq data[p] \cup {record[p]}
    BY <1>7, <1>t DEF Fetching!Save, Fetching!To, DonorTypes
  <2>2. "copy" \in DonorSteps /\ "copy" \notin Cloning /\ step[p] \in Recording
    BY <2>1 DEF DonorSteps, Recording, Cloning, Fetching!Cloning
  <2>3. FetchInv(p)'
    BY <1>t, <2>1, <2>2 DEF FetchInv, Recording
  <2>4. /\ record' = [record EXCEPT ![p] = record'[p]] /\ record'[p] \in Records \cup {Absent}
        /\ data' = [data EXCEPT ![p] = data'[p]] /\ data'[p] = data[p]
    BY <1>t, <2>1 DEF DonorTypes
  <2> QED BY <1>t, <2>1, <2>2, <2>3, <2>4 DEF Moves, DonorTypes
<1>8. CASE Fetching!CopyLicences(p)
  <2>1. /\ Fetching!To(p, "recorded") /\ Fetching!Alone /\ Fetching!Forgets(p)
        /\ UNCHANGED <<branch, provenance, clone>>
    BY <1>8 DEF Fetching!CopyLicences, Fetching!Alone
  <2> QED BY <1>b, <2>1, StillMoves
<1>9. CASE Fetching!Killed(p)
  <2>1. /\ UNCHANGED <<branch, provenance>> /\ Fetching!Alone /\ Fetching!Forgets(p)
        /\ Fetching!To(p, "killed")
    BY <1>9 DEF Fetching!Killed, Fetching!Alone
  <2>2. CASE step[p] \in Cloning /\ Fetching!Put(p, Fetching!Broken)
    BY <1>b, <2>1, <2>2, GitMoves
  <2>3. CASE UNCHANGED clone
    BY <1>b, <2>1, <2>3, StillMoves
  <2> QED BY <1>9, <2>2, <2>3 DEF Fetching!Killed, Fetching!Spoils, Cloning
<1>10. CASE Fetching!Again(p)
  <2>1. /\ UNCHANGED <<branch, provenance, clone>> /\ Fetching!Alone /\ UNCHANGED <<record, data>>
        /\ Fetching!To(p, "begin")
    BY <1>10 DEF Fetching!Again, Fetching!Kept
  <2> QED BY <1>b, <2>1, StillMoves
<1> QED BY <1>1, <1>2, <1>3, <1>4, <1>5, <1>6, <1>7, <1>8, <1>9, <1>10 DEF DonorStep

\* What a step leaves of a record that lies under its label.
LEMMA LiesOn ==
    ASSUME DonorInv, NEW p \in Fetchers, Moves(p), NEW r \in Records, Lies(r) PROVE Lies(r)'
<1>1. DonorTypes /\ LabelOf[p] \in Fetching!Labels /\ r.label \in Fetching!Labels
  BY DonorFacts DEF DonorInv, Records
<1>2. SUFFICES ASSUME r.label \notin crossed'
               PROVE  clone'[r.label] \in Finished /\ r.commit \in {clone'[r.label].head, Absent}
  BY DEF Lies
<1>3. /\ r.label \notin crossed
      /\ clone[r.label] \in Finished /\ r.commit \in {clone[r.label].head, Absent}
  BY <1>2 DEF Moves, Lies
<1>4. step[p] \in Cloning => LabelOf[p] # r.label
  BY <1>3, DonorFacts DEF DonorInv, FetchInv, Finished
<1>5. clone'[r.label] = clone[r.label]
  BY <1>1, <1>4 DEF Moves, DonorTypes
<1> QED BY <1>3, <1>5

LEMMA DonorInvStep ==
    ASSUME DonorInv, NEW p \in Fetchers, DonorStep(p) PROVE DonorInv'
<1>1. Moves(p) /\ FetchInv(p)'
  BY DonorMoves
<1>2. DonorTypes /\ LabelOf[p] \in Fetching!Labels /\ FetchInv(p)
  BY DonorFacts DEF DonorInv
<1>3. DonorTypes'
  <2>1. branch' \in Commits /\ step' \in [Fetchers -> DonorSteps] /\ crossed' \subseteq Fetching!Labels
    BY <1>1, <1>2 DEF Moves, DonorTypes
  <2>2. clone' \in [Fetching!Labels -> Trees \cup {Absent}]
    BY <1>1, <1>2 DEF Moves, DonorTypes
  <2>3. record' \in [Fetchers -> Records \cup {Absent}]
    BY <1>1, <1>2 DEF Moves, DonorTypes
  <2>4. data' \in [Fetchers -> SUBSET Records]
    <3>1. data'[p] \in SUBSET Records
      BY <1>1, <1>2 DEF Moves, DonorTypes
    <3> QED BY <1>1, <1>2, <3>1 DEF Moves, DonorTypes
  <2>5. provenance' \in SUBSET Records
    <3>1. step[p] \in Recording => record[p] \in Records
      BY <1>2 DEF FetchInv
    <3> QED BY <1>1, <1>2, <3>1 DEF Moves, DonorTypes
  <2> QED BY <2>1, <2>2, <2>3, <2>4, <2>5 DEF DonorTypes
<1>4. ASSUME NEW q \in Fetchers PROVE FetchInv(q)'
  <2>1. CASE q # p
    <3>1. step'[q] = step[q] /\ record'[q] = record[q] /\ crossed \subseteq crossed'
      BY <1>1, <1>2, <2>1 DEF Moves, DonorTypes
    <3>2. FetchInv(q)
      BY DEF DonorInv
    <3>3. CASE LabelOf[q] # LabelOf[p] \/ step[p] \notin Cloning
      <4>1. clone'[LabelOf[q]] = clone[LabelOf[q]]
        BY <1>1, <1>2, <3>3, DonorFacts DEF Moves, DonorTypes
      <4> QED BY <3>1, <3>2, <4>1 DEF FetchInv
    <3>4. CASE LabelOf[q] = LabelOf[p] /\ step[p] \in Cloning
      \* Then the label has been crossed, or q does nothing with it.
      <4>1. LabelOf[q] \notin crossed => step[q] \notin Cloning \cup Recording \cup {"scan"}
        BY <1>2, <2>1, <3>2, <3>4, DonorFacts DEF DonorInv, Sole, FetchInv, Finished
      <4> QED BY <3>1, <3>2, <4>1 DEF FetchInv
    <3> QED BY <3>3, <3>4
  <2> QED BY <1>1, <2>1
<1>5. Sole'
  <2> SUFFICES ASSUME NEW q \in Fetchers, NEW r \in Fetchers, LabelOf[q] = LabelOf[r], q # r,
                      step'[q] \in Cloning, step'[r] \in Cloning
               PROVE  LabelOf[q] \in crossed'
    BY DEF Sole
  <2>1. \A o \in Fetchers \ {p} : step'[o] = step[o]
    BY <1>1, <1>2 DEF Moves, DonorTypes
  <2>2. crossed \subseteq crossed'
    BY <1>1 DEF Moves
  <2>3. CASE q = p
    BY <1>1, <2>1, <2>2, <2>3 DEF Moves, DonorInv, Sole
  <2>4. CASE r = p
    BY <1>1, <2>1, <2>2, <2>4 DEF Moves, DonorInv, Sole
  <2>5. CASE q # p /\ r # p
    BY <2>1, <2>2, <2>5 DEF DonorInv, Sole
  <2> QED BY <2>3, <2>4, <2>5
<1>6. Lying'
  <2>1. ASSUME step[p] \in Recording PROVE record[p] \in Records /\ Lies(record[p])
    BY <1>2, <2>1 DEF FetchInv, Lies
  <2>2. ASSUME NEW r \in provenance \cup UNION {data[q] : q \in Fetchers}
        PROVE  r \in Records /\ Lies(r)
    BY <1>2 DEF DonorInv, Lying, DonorTypes
  <2>3. ASSUME NEW r \in provenance' PROVE r \in Records /\ Lies(r)
    BY <1>1, <2>1, <2>2 DEF Moves
  <2>4. ASSUME NEW q \in Fetchers, NEW r \in data'[q] PROVE r \in Records /\ Lies(r)
    <3>1. data'[q] \in {data[q], provenance, {}}
      BY <1>1, <1>2 DEF Moves, DonorTypes
    <3> QED BY <2>2, <2>4, <3>1
  <2>5. ASSUME NEW r \in provenance' \cup UNION {data'[q] : q \in Fetchers} PROVE Lies(r)'
    <3>1. r \in Records /\ Lies(r)
      BY <2>3, <2>4
    <3> QED BY <1>1, <3>1, LiesOn
  <2> QED BY <2>5 DEF Lying
<1> QED BY <1>3, <1>4, <1>5, <1>6 DEF DonorInv

\* A branch that moves touches no fetch.
LEMMA DonorsStay ==
    ASSUME DonorInv, branch' \in Commits,
           UNCHANGED <<clone, provenance, step, record, data, crossed>>
    PROVE  DonorInv'
<1>1. DonorTypes'
  BY DEF DonorInv, DonorTypes
<1>2. ASSUME NEW p \in Fetchers PROVE FetchInv(p)'
  <2>1. FetchInv(p)
    BY DEF DonorInv
  <2> QED BY <2>1 DEF FetchInv
<1>3. Sole'
  BY DEF DonorInv, Sole
<1>4. Lying'
  <2>1. ASSUME NEW r \in provenance \cup UNION {data[p] : p \in Fetchers} PROVE Lies(r)'
    <3>1. Lies(r)
      BY DEF DonorInv, Lying
    <3> QED BY <3>1 DEF Lies
  <2> QED BY <2>1 DEF Lying
<1> QED BY <1>1, <1>2, <1>3, <1>4 DEF DonorInv

\* A recorded donor lies under its label, checked out at the commit its record
\* names or with none named, for any number of fetches under any labels,
\* wherever git or a process fails and however the branch moves, unless two
\* fetches were at work on that label at once.
THEOREM DonorsLie == BenchSpec => []RecordedAsFetched
<1>1. BenchInit => DonorInv
  <2> SUFFICES ASSUME BenchInit PROVE DonorInv
    OBVIOUS
  <2>1. Fetching!Init
    BY DEF BenchInit
  <2>2. branch \in Commits
    BY <2>1, DonorFacts DEF Fetching!Init, Commits
  <2>3. "begin" \in DonorSteps /\ "begin" \notin Cloning \cup Recording \cup {"scan", "checkout"}
    BY DEF DonorSteps, Cloning, Fetching!Cloning, Recording
  <2>4. DonorTypes
    BY <2>1, <2>2, <2>3 DEF Fetching!Init, DonorTypes
  <2>5. \A p \in Fetchers : FetchInv(p)
    BY <2>1, <2>3 DEF Fetching!Init, FetchInv
  <2>6. Sole
    BY <2>1, <2>3 DEF Fetching!Init, Sole
  <2>7. Lying
    BY <2>1 DEF Fetching!Init, Lying
  <2> QED BY <2>4, <2>5, <2>6, <2>7 DEF DonorInv
<1>2. ASSUME DonorInv, Fetching!Next PROVE DonorInv'
  <2>1. ASSUME NEW p \in Fetchers, DonorStep(p) PROVE DonorInv'
    BY <1>2, <2>1, DonorInvStep
  <2>2. CASE Fetching!Push
    <3>1. branch' \in Commits
      BY <1>2, <2>2, DonorFacts DEF Fetching!Push, DonorInv, DonorTypes, Commits
    <3> QED BY <1>2, <2>2, <3>1, DonorsStay DEF Fetching!Push
  <2> QED BY <1>2, <2>1, <2>2 DEF Fetching!Next, DonorStep
<1>3. ASSUME DonorInv, UNCHANGED donorVars PROVE DonorInv'
  <2>1. branch' \in Commits
    BY <1>3 DEF donorVars, DonorInv, DonorTypes
  <2> QED BY <1>3, <2>1, DonorsStay DEF donorVars
<1>4. [BenchNext]_benchVars => Fetching!Next \/ UNCHANGED donorVars
  BY DEF BenchNext, Converging, Releasing, Identifying, FetchingDonors, Mixing, Replaying, benchVars
<1>5. DonorInv => RecordedAsFetched
  BY DonorFacts DEF DonorInv, Lying, Lies, RecordedAsFetched, Fetching!RecordedAsFetched, Finished
<1>6. DonorInv /\ [BenchNext]_benchVars => DonorInv'
  BY <1>2, <1>3, <1>4
<1> QED BY <1>1, <1>5, <1>6, PTL DEF BenchSpec

-----------------------------------------------------------------------------
(***************************************************************************)
(* The identity of an executable.  Every identity that is written down,    *)
(* in a process or in the file, is of executables from the one it is filed *)
(* under to the one of now.                                                *)
(***************************************************************************)
Stats == {Identities!Stat(v) : v \in Nat}
Ids == [stat : Stats, sha256 : Nat, version : SUBSET Nat]
TrueIds == {i \in Ids : {i.sha256} \cup i.version \subseteq i.stat.mtime .. exe}

Calls ==
    {c \in [at : {"rest", "load", "hash", "run", "store"}, stat : Stats, identity : TrueIds \cup {Nobody}] :
        c.stat.mtime <= exe /\ (c.at \in {"run", "store"} => c.identity \in TrueIds)}

IdentityInv ==
    /\ exe \in Nat
    /\ identity_file \in TrueIds \cup {Nobody}
    /\ memory \in [Processes -> [loaded : BOOLEAN, entry : TrueIds \cup {Nobody}]]
    /\ known \in [Processes -> SUBSET TrueIds]
    /\ call \in [Processes -> Calls]
    /\ CachedIdentityTrue

LEMMA StatIs == \A v \in Nat : Identities!Stat(v) \in Stats /\ Identities!Stat(v).mtime = v
  BY DEF Identities!Stat, Stats

LEMMA StatTime == \A s \in Stats : s.mtime \in Nat /\ s = Identities!Stat(s.mtime)
  BY DEF Identities!Stat, Stats

LEMMA RestIs ==
    ASSUME exe \in Nat
    PROVE  /\ Identities!Rest \in Calls
           /\ Identities!Forgotten \in [loaded : BOOLEAN, entry : TrueIds \cup {Nobody}]
<1>1. 0 \in Nat /\ 0 <= exe
  OBVIOUS
<1>2. Identities!Stat(0) \in Stats /\ Identities!Stat(0).mtime = 0
  BY <1>1, StatIs
<1> QED BY <1>1, <1>2 DEF Calls, Identities!Rest, Identities!Forgotten

\* What is true of an executable stays so when it is replaced.
LEMMA TrueStays ==
    ASSUME exe \in Nat, exe' = exe + 1 PROVE TrueIds \subseteq TrueIds' /\ Calls \subseteq Calls'
<1>1. ASSUME NEW i \in TrueIds PROVE i \in TrueIds'
  <2>1. i \in Ids /\ i.stat.mtime \in Nat
    BY StatTime DEF TrueIds, Ids
  <2>2. i.stat.mtime .. exe \subseteq i.stat.mtime .. exe'
    BY <2>1
  <2> QED BY <2>1, <2>2 DEF TrueIds
<1>2. ASSUME NEW c \in Calls PROVE c \in Calls'
  <2>1. c.stat.mtime \in Nat /\ c.stat.mtime <= exe
    BY StatTime DEF Calls
  <2>2. c.stat.mtime <= exe'
    BY <2>1
  <2> QED BY <1>1, <2>2 DEF Calls
<1> QED BY <1>1, <1>2

LEMMA TrueSame == ASSUME UNCHANGED exe PROVE TrueIds' = TrueIds /\ Calls' = Calls
<1>1. TrueIds' = TrueIds
  BY DEF TrueIds
<1> QED BY <1>1 DEF Calls

IdentityStep(p) ==
    \/ Identities!Begin(p) \/ Identities!_load_persistent_tool_cache(p) \/ Identities!Hash(p)
    \/ Identities!run_capture(p) \/ Identities!_store_persistent_tool_cache(p) \/ Identities!Exit(p)

LEMMA IdentityInvStep ==
    ASSUME IdentityInv, NEW p \in Processes, IdentityStep(p) PROVE IdentityInv'
<1> DEFINE Holds ==
        /\ identity_file' \in TrueIds \cup {Nobody}
        /\ memory' \in [Processes -> [loaded : BOOLEAN, entry : TrueIds \cup {Nobody}]]
        /\ known' \in [Processes -> SUBSET TrueIds]
        /\ call' \in [Processes -> Calls]
        /\ exe' = exe
        /\ CachedIdentityTrue'
<1>t. /\ exe \in Nat
      /\ identity_file \in TrueIds \cup {Nobody}
      /\ memory \in [Processes -> [loaded : BOOLEAN, entry : TrueIds \cup {Nobody}]]
      /\ known \in [Processes -> SUBSET TrueIds]
      /\ call \in [Processes -> Calls]
  BY DEF IdentityInv
<1>s. SUFFICES Holds
  BY <1>t, TrueSame DEF IdentityInv
<1>c. /\ call[p].stat \in Stats /\ call[p].stat.mtime \in Nat /\ call[p].stat.mtime <= exe
      /\ call[p].identity \in TrueIds \cup {Nobody}
      /\ call[p].at \in {"run", "store"} => call[p].identity \in TrueIds
  BY <1>t, StatTime DEF Calls
<1>n. answer' = Nobody => CachedIdentityTrue'
  BY DEF CachedIdentityTrue, Identities!CachedIdentityTrue
<1>r. Identities!Rest \in Calls /\ Identities!Forgotten \in [loaded : BOOLEAN, entry : TrueIds \cup {Nobody}]
  BY <1>t, RestIs
<1>1. CASE Identities!Begin(p)
  <2>1. UNCHANGED <<exe, identity_file, memory, known>>
    BY <1>1 DEF Identities!Begin
  <2>2. ASSUME NEW i \in known[p], i.stat = Identities!Stat(exe), Identities!Answer(i, exe), UNCHANGED call
        PROVE  Holds
    <3>1. i \in TrueIds /\ i.stat.mtime = exe
      BY <1>t, <2>2, StatIs
    <3>2. CachedIdentityTrue'
      BY <2>1, <2>2, <3>1 DEF CachedIdentityTrue, Identities!CachedIdentityTrue, Identities!Answer, TrueIds
    <3> QED BY <1>t, <2>1, <2>2, <3>2
  <2>3. ASSUME Identities!Call(p, [Identities!Rest EXCEPT !.at = "load", !.stat = Identities!Stat(exe)]),
               answer' = Nobody
        PROVE  Holds
    <3>1. Identities!Stat(exe) \in Stats /\ Identities!Stat(exe).mtime = exe /\ exe <= exe
      BY <1>t, StatIs
    <3>2. [Identities!Rest EXCEPT !.at = "load", !.stat = Identities!Stat(exe)] \in Calls
      BY <3>1 DEF Calls, Identities!Rest
    <3> QED BY <1>t, <1>n, <2>1, <2>3, <3>2 DEF Identities!Call
  <2> QED BY <1>1, <2>2, <2>3 DEF Identities!Begin
<1>2. CASE Identities!_load_persistent_tool_cache(p)
  <2> DEFINE entry == IF memory[p].loaded THEN memory[p].entry ELSE identity_file
  <2>1. entry \in TrueIds \cup {Nobody}
    BY <1>t
  <2>2. /\ UNCHANGED <<exe, identity_file>>
        /\ memory' = [memory EXCEPT ![p] = [loaded |-> TRUE, entry |-> entry]]
    BY <1>2 DEF Identities!_load_persistent_tool_cache
  <2>3. \/ /\ entry # Nobody /\ entry.stat = call[p].stat
           /\ known' = [known EXCEPT ![p] = @ \cup {entry}]
           /\ Identities!Answer(entry, call[p].stat.mtime) /\ Identities!Call(p, Identities!Rest)
        \/ /\ Identities!Call(p, [call[p] EXCEPT !.at = "hash"]) /\ UNCHANGED known /\ answer' = Nobody
    BY <1>2 DEF Identities!_load_persistent_tool_cache, Identities!matches
  <2> HIDE DEF entry
  <2>4. memory' \in [Processes -> [loaded : BOOLEAN, entry : TrueIds \cup {Nobody}]]
    BY <1>t, <2>1, <2>2
  <2>5. CASE /\ entry # Nobody /\ entry.stat = call[p].stat
             /\ known' = [known EXCEPT ![p] = @ \cup {entry}]
             /\ Identities!Answer(entry, call[p].stat.mtime) /\ Identities!Call(p, Identities!Rest)
    <3>1. entry \in TrueIds
      BY <2>1, <2>5
    <3>2. CachedIdentityTrue'
      BY <2>2, <2>5, <3>1 DEF CachedIdentityTrue, Identities!CachedIdentityTrue, Identities!Answer, TrueIds
    <3>3. known' \in [Processes -> SUBSET TrueIds]
      BY <1>t, <2>5, <3>1
    <3>4. call' \in [Processes -> Calls]
      BY <1>t, <1>r, <2>5 DEF Identities!Call
    <3> QED BY <1>t, <2>2, <2>4, <3>2, <3>3, <3>4
  <2>6. CASE Identities!Call(p, [call[p] EXCEPT !.at = "hash"]) /\ UNCHANGED known /\ answer' = Nobody
    <3>1. [call[p] EXCEPT !.at = "hash"] \in Calls
      BY <1>t DEF Calls
    <3>2. call' \in [Processes -> Calls]
      BY <1>t, <2>6, <3>1 DEF Identities!Call
    <3> QED BY <1>t, <1>n, <2>2, <2>4, <2>6, <3>2
  <2> QED BY <2>3, <2>5, <2>6
<1>3. CASE Identities!Hash(p)
  <2> DEFINE i == [stat |-> call[p].stat, sha256 |-> exe, version |-> {}]
             c == [call[p] EXCEPT !.at = "run", !.identity = i]
  <2>1. /\ UNCHANGED <<exe, identity_file, memory, known>> /\ answer' = Nobody
        /\ call' = [call EXCEPT ![p] = c]
    BY <1>3 DEF Identities!Hash, Identities!Call
  <2>2. i \in TrueIds
    BY <1>t, <1>c DEF TrueIds, Ids
  <2>3. c \in Calls
    BY <1>t, <1>c, <2>2 DEF Calls
  <2>4. call' \in [Processes -> Calls]
    BY <1>t, <2>1, <2>3
  <2> QED BY <1>t, <1>n, <2>1, <2>4
<1>4. CASE Identities!run_capture(p)
  <2>1. PICK says \in {{exe}, {}} :
            call' = [call EXCEPT ![p] = [call[p] EXCEPT !.at = "store", !.identity.version = says]]
    BY <1>4 DEF Identities!run_capture, Identities!Call
  <2>2. UNCHANGED <<exe, identity_file, memory, known>> /\ answer' = Nobody /\ call[p].at = "run"
    BY <1>4 DEF Identities!run_capture
  <2> DEFINE i == [call[p].identity EXCEPT !.version = says]
             c == [call[p] EXCEPT !.at = "store", !.identity = i]
  <2>3. call[p].identity \in TrueIds /\ call[p].identity.stat.mtime \in Nat
    BY <1>c, <2>2, StatTime DEF TrueIds, Ids
  <2>4. exe \in call[p].identity.stat.mtime .. exe
    BY <1>t, <2>3 DEF TrueIds, Ids
  <2>5. i \in TrueIds
    BY <1>t, <2>1, <2>3, <2>4 DEF TrueIds, Ids
  <2>6. c \in Calls
    BY <1>t, <1>c, <2>5 DEF Calls
  <2>7. call' = [call EXCEPT ![p] = c]
    BY <1>t, <2>1 DEF Calls
  <2> HIDE DEF c
  <2>8. call' \in [Processes -> Calls]
    BY <1>t, <2>6, <2>7
  <2> QED BY <1>t, <1>n, <2>2, <2>8
<1>5. CASE Identities!_store_persistent_tool_cache(p)
  <2> DEFINE i == call[p].identity
  <2>1. /\ known' = [known EXCEPT ![p] = @ \cup {i}]
        /\ memory' = [memory EXCEPT ![p].entry = i]
        /\ identity_file' \in {i, identity_file}
        /\ call' = [call EXCEPT ![p] = Identities!Rest]
        /\ UNCHANGED exe /\ answer' = Nobody /\ call[p].at = "store"
    BY <1>5 DEF Identities!_store_persistent_tool_cache, Identities!noted, Identities!Call
  <2>2. i \in TrueIds
    BY <1>c, <2>1
  <2> HIDE DEF i
  <2>3. known' \in [Processes -> SUBSET TrueIds]
    BY <1>t, <2>1, <2>2
  <2>4. memory' \in [Processes -> [loaded : BOOLEAN, entry : TrueIds \cup {Nobody}]]
    BY <1>t, <2>1, <2>2
  <2>5. call' \in [Processes -> Calls]
    BY <1>t, <1>r, <2>1
  <2> QED BY <1>t, <1>n, <2>1, <2>2, <2>3, <2>4, <2>5
<1>6. CASE Identities!Exit(p)
  <2>1. /\ memory' = [memory EXCEPT ![p] = Identities!Forgotten]
        /\ known' = [known EXCEPT ![p] = {}] /\ call' = [call EXCEPT ![p] = Identities!Rest]
        /\ UNCHANGED <<exe, identity_file>> /\ answer' = Nobody
    BY <1>6 DEF Identities!Exit, Identities!Call
  <2>2. /\ memory' \in [Processes -> [loaded : BOOLEAN, entry : TrueIds \cup {Nobody}]]
        /\ known' \in [Processes -> SUBSET TrueIds] /\ call' \in [Processes -> Calls]
    BY <1>t, <1>r, <2>1
  <2> QED BY <1>t, <1>n, <2>1, <2>2
<1> QED BY <1>1, <1>2, <1>3, <1>4, <1>5, <1>6 DEF IdentityStep

\* An identity that is answered from a cache is of executables that were there
\* during the call, for any number of processes and replacements, and wherever
\* in a measurement a replacement comes.
THEOREM CachedIdentity == BenchSpec => []CachedIdentityTrue
<1>1. BenchInit => IdentityInv
  <2> SUFFICES ASSUME BenchInit PROVE IdentityInv
    OBVIOUS
  <2>1. Identities!Init
    BY DEF BenchInit
  <2>2. exe \in Nat
    BY <2>1 DEF Identities!Init
  <2> QED BY <2>1, <2>2, RestIs
          DEF Identities!Init, IdentityInv, CachedIdentityTrue, Identities!CachedIdentityTrue
<1>2. ASSUME IdentityInv, Identities!Next PROVE IdentityInv'
  <2>1. ASSUME NEW p \in Processes, IdentityStep(p) PROVE IdentityInv'
    BY <1>2, <2>1, IdentityInvStep
  <2>2. CASE Identities!Replace
    <3>1. /\ exe \in Nat /\ exe' = exe + 1
          /\ UNCHANGED <<identity_file, memory, known, call>> /\ answer' = Nobody
      BY <1>2, <2>2 DEF Identities!Replace, IdentityInv
    <3>2. TrueIds \subseteq TrueIds' /\ Calls \subseteq Calls' /\ exe' \in Nat
      BY <3>1, TrueStays
    <3>3. identity_file' \in TrueIds' \cup {Nobody}
      BY <1>2, <3>1, <3>2 DEF IdentityInv
    <3>4. memory' \in [Processes -> [loaded : BOOLEAN, entry : TrueIds' \cup {Nobody}]]
      BY <1>2, <3>1, <3>2 DEF IdentityInv
    <3>5. known' \in [Processes -> SUBSET TrueIds'] /\ call' \in [Processes -> Calls']
      BY <1>2, <3>1, <3>2 DEF IdentityInv
    <3>6. CachedIdentityTrue'
      BY <3>1 DEF CachedIdentityTrue, Identities!CachedIdentityTrue
    <3> QED BY <3>2, <3>3, <3>4, <3>5, <3>6 DEF IdentityInv
  <2> QED BY <1>2, <2>1, <2>2 DEF Identities!Next, IdentityStep
<1>3. ASSUME IdentityInv, UNCHANGED identityVars PROVE IdentityInv'
  <2>1. UNCHANGED <<exe, identity_file, memory, known, call, answer>>
    BY <1>3 DEF identityVars
  <2>2. CachedIdentityTrue'
    BY <1>3, <2>1 DEF IdentityInv, CachedIdentityTrue, Identities!CachedIdentityTrue
  <2> QED BY <1>3, <2>1, <2>2, TrueSame DEF IdentityInv
<1>4. [BenchNext]_benchVars => Identities!Next \/ UNCHANGED identityVars
  BY DEF BenchNext, Converging, Releasing, Identifying, FetchingDonors, Mixing, Replaying, benchVars
<1>5. IdentityInv => CachedIdentityTrue
  BY DEF IdentityInv
<1>6. IdentityInv /\ [BenchNext]_benchVars => IdentityInv'
  BY <1>2, <1>3, <1>4
<1> QED BY <1>1, <1>5, <1>6, PTL DEF BenchSpec

-----------------------------------------------------------------------------
(***************************************************************************)
(* The release.  Each gate that was passed leaves a fact behind, which     *)
(* holds from the next gate on and of a release that was written.          *)
(***************************************************************************)
ToFinish   == {"finish"}
ToHardware == {"hardware"} \cup ToFinish
ToMra      == {"mra"} \cup ToHardware
ToRbf      == {"rbf"} \cup ToMra
ToGates    == {"gates"} \cup ToRbf
ToQuartus  == {"quartus"} \cup ToGates
ToRegression == {"regression"} \cup ToQuartus
ToLint     == {"lint"} \cup ToRegression
ToConverge == {"converge"} \cup ToLint

From(gates) == gate \in gates \/ release # None

StaleRbf == [fresh |-> FALSE, version |-> None]

\* The RBF was built of what every scenario had matched, or later.
BuiltRbf ==
    \E v \in 0 .. src :
        /\ rbf = [fresh |-> TRUE, version |-> v]
        /\ scenario = Scenarios + 1 /\ \A s \in 1 .. Scenarios : matched[s] \in 0 .. v

ReleaseTypes ==
    /\ src \in 0 .. MaxEdits
    /\ reports \in Gate!Reports
    /\ scenario \in 1 .. Scenarios + 1
    /\ matched \in [1 .. Scenarios -> Gate!Trees \cup {None}]
    /\ rbf \in {None, StaleRbf} \/ BuiltRbf

\* What the gates leave behind.
GatesInv ==
    /\ From(ToConverge) => Gate!validate_config
                           /\ (config.require_provenance => Gate!validate_provenance)
    /\ \A s \in 1 .. Scenarios : s < scenario => matched[s] \in 0 .. src
    /\ gate \in {"doctor", "converge"} => scenario <= Scenarios
    /\ From(ToLint) => scenario = Scenarios + 1
    /\ From(ToRegression) => "lint" \in ran
    /\ From(ToQuartus) => "regression" \in ran
    /\ From(ToGates) => "quartus" \in ran
    /\ From(ToRbf) => Gate!parse_quartus_reports
    /\ From(ToMra) => BuiltRbf
    /\ From(ToHardware) => (config.require_mra => Gate!validate_mras)

WrittenInv ==
    /\ release # None =>
           /\ gate \in {"EXIT_OK", "EXIT_BLOCKED"}
           /\ release.rbf = rbf /\ release.source \in 0 .. src
    /\ gate = "EXIT_OK" => release # None /\ (config.hardware_required => "hardware" \in ran)

ReleaseInv ==
    IF unit = "release" THEN ReleaseTypes /\ GatesInv /\ WrittenInv
    ELSE gate = "doctor" /\ release = None

LEMMA ReleaseFacts ==
    /\ Scenarios \in Nat \ {0} /\ MaxEdits \in Nat
    /\ OldReports \subseteq Gate!Reports /\ NewReports \subseteq Gate!Reports
    /\ None \notin Nat /\ None # "met"
    /\ None \notin [status : Gate!Statuses, source : Gate!Trees,
                    rbf : [fresh : BOOLEAN, version : Gate!Trees]]
<1>1. Gate!ReleaseAssumption
  BY WorkbenchAssumption
<1> QED BY <1>1 DEF Gate!ReleaseAssumption

\* A set of numbers has a least one.
LEMMA Least ==
    ASSUME NEW S \in SUBSET Nat, S # {} PROVE Gate!Min(S) \in S
<1> DEFINE R == OpToRel(<, Nat)
<1>1. IsWellFoundedOn(R, Nat)
  BY NatLessThanWellFounded
<1>2. \A x, y \in Nat : x < y => <<x, y>> \in R
  BY DEF OpToRel
<1> HIDE DEF R
<1>3. PICK x \in S : \A y \in S : <<y, x>> \notin R
  BY <1>1, WFMin
<1>4. ASSUME NEW y \in S PROVE x <= y
  <2>1. x \in Nat /\ y \in Nat
    OBVIOUS
  <2>2. ~(y < x)
    BY <1>2, <1>3, <2>1
  <2> QED BY <2>1, <2>2
<1> QED BY <1>4 DEF Gate!Min

\* Reports that pass show a slack that is met, and no error.
LEMMA ReportsPass ==
    ASSUME reports \in Gate!Reports, Gate!parse_quartus_reports
    PROVE  /\ \E r \in Gate!FreshReports : "met" \in Gate!SlacksOf(r)
           /\ \A r \in Gate!FreshReports : ~r.errors /\ (config.allow_unconstrained \/ ~r.unconstrained)
<1> DEFINE timed == {i \in Gate!fresh : reports[i].slacks # <<>>}
<1>1. \A r \in Gate!FreshReports : \E i \in Gate!fresh : r = reports[i]
  BY DEF Gate!FreshReports, Gate!fresh
<1>2. \A r \in Gate!FreshReports : ~r.errors /\ (config.allow_unconstrained \/ ~r.unconstrained)
  BY <1>1 DEF Gate!parse_quartus_reports, Gate!unconstrained
<1>3. timed # {} /\ reports[Gate!Min(timed)].slacks[1] = "met"
  BY ReleaseFacts DEF Gate!parse_quartus_reports, Gate!extract_first
<1>4. Gate!fresh \subseteq DOMAIN reports /\ DOMAIN reports \subseteq Nat
  BY DEF Gate!fresh, Gate!Reports
<1>5. Gate!Min(timed) \in timed
  BY <1>3, <1>4, Least
<1> DEFINE i == Gate!Min(timed)
<1> HIDE DEF i, timed
<1>6. i \in Gate!fresh /\ reports[i].slacks # <<>> /\ reports[i].slacks[1] = "met"
  BY <1>3, <1>5 DEF timed, i
<1>7. reports[i].slacks \in Seq({"met", "missed"})
  <2> DEFINE Report == [fresh : BOOLEAN, errors : BOOLEAN, slacks : Seq({"met", "missed"}),
                        unconstrained : BOOLEAN]
  <2>1. reports \in Seq(Report)
    BY DEF Gate!Reports
  <2> HIDE DEF Report
  <2>2. i \in 1 .. Len(reports)
    BY <1>4, <1>6, <2>1
  <2>3. reports[i] \in Report
    BY <2>1, <2>2
  <2> QED BY <2>3 DEF Report
<1>8. 1 \in 1 .. Len(reports[i].slacks)
  BY <1>6, <1>7
<1>9. "met" \in Gate!SlacksOf(reports[i])
  BY <1>6, <1>8 DEF Gate!SlacksOf
<1>10. reports[i] \in Gate!FreshReports
  BY <1>6 DEF Gate!FreshReports, Gate!fresh
<1> QED BY <1>2, <1>9, <1>10

LEMMA FactsStay ==
    ASSUME UNCHANGED <<config, donors, mras>>
    PROVE  /\ Gate!validate_config' <=> Gate!validate_config
           /\ Gate!validate_provenance' <=> Gate!validate_provenance
           /\ Gate!validate_mras' <=> Gate!validate_mras
           /\ reports' = reports => (Gate!parse_quartus_reports' <=> Gate!parse_quartus_reports)
           /\ UNCHANGED <<src, rbf, scenario, matched>> => (BuiltRbf' <=> BuiltRbf)
<1>1. /\ Gate!validate_config' <=> Gate!validate_config
      /\ Gate!validate_provenance' <=> Gate!validate_provenance
      /\ Gate!validate_mras' <=> Gate!validate_mras
  BY DEF Gate!validate_config, Gate!validate_provenance, Gate!validate_mras
<1>2. ASSUME reports' = reports
      PROVE  Gate!parse_quartus_reports' <=> Gate!parse_quartus_reports
  <2>1. Gate!fresh' = Gate!fresh
    BY <1>2 DEF Gate!fresh
  <2>2. Gate!extract_first' = Gate!extract_first /\ (Gate!unconstrained' <=> Gate!unconstrained)
    BY <1>2, <2>1 DEF Gate!extract_first, Gate!unconstrained
  <2> QED BY <1>2, <2>1, <2>2 DEF Gate!parse_quartus_reports
<1>3. UNCHANGED <<src, rbf, scenario, matched>> => (BuiltRbf' <=> BuiltRbf)
  BY DEF BuiltRbf
<1> QED BY <1>1, <1>2, <1>3

\* A gate that only looks lets the release on when what it asks for holds.
LEMMA GateOpens ==
    ASSUME unit = "release", ReleaseInv, UNCHANGED unit,
           Gate!Doctor \/ Gate!Gates \/ Gate!CheckRbf \/ Gate!CheckMra
    PROVE  ReleaseInv'
<1>1. /\ UNCHANGED <<config, donors, mras, src, reports, rbf, scenario, matched, ran, release>>
      /\ gate \in {"doctor", "gates", "rbf", "mra"}
  BY DEF Gate!Doctor, Gate!Gates, Gate!CheckRbf, Gate!CheckMra, Gate!given
<1>2. ReleaseTypes /\ GatesInv /\ WrittenInv
  BY DEF ReleaseInv
<1>3. release = None
  BY <1>1, <1>2 DEF WrittenInv
<1>4. ReleaseTypes'
  BY <1>1, <1>2, FactsStay DEF ReleaseTypes
<1> USE DEF ToFinish, ToHardware, ToMra, ToRbf, ToGates, ToQuartus, ToRegression, ToLint, ToConverge, From
<1>5. GatesInv' /\ WrittenInv'
  <2>1. CASE Gate!Doctor
    BY <1>1, <1>2, <1>3, <2>1, FactsStay DEF Gate!Doctor, Gate!Goto, GatesInv, WrittenInv
  <2>2. CASE Gate!Gates
    BY <1>1, <1>2, <1>3, <2>2, FactsStay DEF Gate!Gates, Gate!Goto, GatesInv, WrittenInv
  <2>3. CASE Gate!CheckRbf
    <3>1. Gate!validate_config /\ "quartus" \in ran
      BY <1>2, <2>3 DEF Gate!CheckRbf, GatesInv
    <3>2. Gate!rbf_accepted => rbf # None /\ rbf.fresh
      BY <3>1 DEF Gate!validate_config, Gate!rbf_accepted
    <3>3. Gate!rbf_accepted => BuiltRbf
      BY <1>2, <3>2 DEF ReleaseTypes, StaleRbf
    <3> QED BY <1>1, <1>2, <1>3, <2>3, <3>3, FactsStay DEF Gate!CheckRbf, Gate!Goto, GatesInv, WrittenInv
  <2>4. CASE Gate!CheckMra
    BY <1>1, <1>2, <1>3, <2>4, FactsStay DEF Gate!CheckMra, Gate!Goto, GatesInv, WrittenInv
  <2> QED BY <2>1, <2>2, <2>3, <2>4
<1> QED BY <1>1, <1>4, <1>5 DEF ReleaseInv

\* A scenario matches at the version of that moment.
LEMMA Matches ==
    ASSUME unit = "release", ReleaseInv, UNCHANGED unit, Gate!Converge PROVE ReleaseInv'
<1>1. UNCHANGED <<config, donors, mras, src, reports, rbf, ran, release>> /\ gate = "converge"
  BY DEF Gate!Converge, Gate!given
<1>2. ReleaseTypes /\ GatesInv /\ WrittenInv
  BY DEF ReleaseInv
<1>3. release = None
  BY <1>1, <1>2 DEF WrittenInv
<1>4. /\ src \in 0 .. MaxEdits /\ scenario \in 1 .. Scenarios /\ Scenarios \in Nat \ {0}
      /\ matched \in [1 .. Scenarios -> Gate!Trees \cup {None}]
      /\ \A s \in 1 .. Scenarios : s < scenario => matched[s] \in 0 .. src
  BY <1>1, <1>2, ReleaseFacts DEF ReleaseTypes, GatesInv
<1>5. rbf \in {None, StaleRbf}
  BY <1>2, <1>4 DEF ReleaseTypes, BuiltRbf
<1> USE DEF ToFinish, ToHardware, ToMra, ToRbf, ToGates, ToQuartus, ToRegression, ToLint, ToConverge, From
<1>6. CASE /\ matched' = [matched EXCEPT ![scenario] = src] /\ scenario' = scenario + 1
           /\ gate' = IF scenario = Scenarios THEN "lint" ELSE "converge"
  <2>1. matched' \in [1 .. Scenarios -> Gate!Trees \cup {None}]
    BY <1>4, <1>6 DEF Gate!Trees
  <2>2. scenario' \in 1 .. Scenarios + 1
    BY <1>4, <1>6
  <2>3. \A s \in 1 .. Scenarios : s < scenario' => matched'[s] \in 0 .. src
    BY <1>4, <1>6
  <2>4. ReleaseTypes'
    BY <1>1, <1>2, <1>5, <2>1, <2>2 DEF ReleaseTypes, StaleRbf
  <2>5. /\ gate' \in {"doctor", "converge"} => scenario' <= Scenarios
        /\ gate' = "lint" => scenario' = Scenarios + 1
        /\ gate' \in {"lint", "converge"}
    BY <1>4, <1>6
  <2>6. GatesInv' /\ WrittenInv'
    BY <1>1, <1>2, <1>3, <2>3, <2>5, FactsStay DEF GatesInv, WrittenInv
  <2> QED BY <2>4, <2>6 DEF ReleaseInv
<1>7. CASE UNCHANGED <<scenario, matched>> /\ gate' \in {"EXIT_BLOCKED", "EXIT_FAILED"}
  <2>1. ReleaseTypes'
    BY <1>1, <1>2, <1>7, FactsStay DEF ReleaseTypes
  <2>2. GatesInv' /\ WrittenInv'
    BY <1>1, <1>2, <1>3, <1>7, FactsStay DEF GatesInv, WrittenInv
  <2> QED BY <2>1, <2>2 DEF ReleaseInv
<1> QED BY <1>6, <1>7 DEF Gate!Converge, Gate!Goto

\* A task that was validated to be ready is run, or the release ends.
LEMMA TaskRuns ==
    ASSUME unit = "release", ReleaseInv, UNCHANGED unit, NEW name, NEW next, Gate!RunTask(name, next),
           <<name, next>> \in {<<"lint", "regression">>, <<"regression", "quartus">>,
                               <<"hardware", "finish">>}
    PROVE  ReleaseInv'
<1>1. /\ UNCHANGED <<config, donors, mras, src, reports, rbf, scenario, matched, release>> /\ gate = name
      /\ \/ ran' = ran \cup {name} /\ gate' = next
         \/ ran' = ran /\ gate' = "EXIT_FAILED"
         \/ name \notin config.ready /\ ran' = ran /\ gate' = next
  BY DEF Gate!RunTask, Gate!given, Gate!Goto, Gate!task_is_ready
<1>2. ReleaseTypes /\ GatesInv /\ WrittenInv
  BY DEF ReleaseInv
<1>3. release = None
  BY <1>1, <1>2 DEF WrittenInv
<1>4. ReleaseTypes'
  BY <1>1, <1>2, FactsStay DEF ReleaseTypes
<1> USE DEF ToFinish, ToHardware, ToMra, ToRbf, ToGates, ToQuartus, ToRegression, ToLint, ToConverge, From
<1>5. {"lint", "regression", "quartus"} \subseteq config.ready
  BY <1>1, <1>2 DEF GatesInv, Gate!validate_config
<1>6. GatesInv' /\ WrittenInv'
  <2>1. CASE name = "lint" /\ next = "regression"
    BY <1>1, <1>2, <1>3, <1>5, <2>1, FactsStay DEF GatesInv, WrittenInv
  <2>2. CASE name = "regression" /\ next = "quartus"
    BY <1>1, <1>2, <1>3, <1>5, <2>2, FactsStay DEF GatesInv, WrittenInv
  <2>3. CASE name = "hardware" /\ next = "finish"
    BY <1>1, <1>2, <1>3, <2>3, FactsStay DEF GatesInv, WrittenInv
  <2> QED BY <2>1, <2>2, <2>3
<1> QED BY <1>1, <1>4, <1>6 DEF ReleaseInv

LEMMA Compiles ==
    ASSUME unit = "release", ReleaseInv, UNCHANGED unit, Gate!Compile PROVE ReleaseInv'
<1>1. UNCHANGED <<config, donors, mras, src, scenario, matched, release>> /\ gate = "quartus"
  BY DEF Gate!Compile, Gate!given
<1>2. ReleaseTypes /\ GatesInv /\ WrittenInv
  BY DEF ReleaseInv
<1>3. release = None
  BY <1>1, <1>2 DEF WrittenInv
<1> USE DEF ToFinish, ToHardware, ToMra, ToRbf, ToGates, ToQuartus, ToRegression, ToLint, ToConverge, From
<1>4. CASE /\ ran' = ran \cup {"quartus"} /\ gate' = "gates"
           /\ \E new \in NewReports : reports' \in {reports \o new, new \o reports, new}
           /\ rbf' \in {rbf, [fresh |-> TRUE, version |-> src]}
  <2>1. reports' \in Gate!Reports
    <3>1. PICK new \in NewReports : reports' \in {reports \o new, new \o reports, new}
      BY <1>4
    <3>2. new \in Gate!Reports /\ reports \in Gate!Reports
      BY <1>2, ReleaseFacts DEF ReleaseTypes
    <3> DEFINE Report == [fresh : BOOLEAN, errors : BOOLEAN, slacks : Seq({"met", "missed"}),
                          unconstrained : BOOLEAN]
    <3>3. new \in Seq(Report) /\ reports \in Seq(Report)
      BY <3>2 DEF Gate!Reports
    <3> HIDE DEF Report
    <3>4. reports \o new \in Seq(Report) /\ new \o reports \in Seq(Report)
      BY <3>3
    <3>5. reports' \in Seq(Report)
      BY <3>1, <3>3, <3>4
    <3> QED BY <3>5 DEF Gate!Reports, Report
  <2>2. src \in 0 .. MaxEdits /\ MaxEdits \in Nat /\ src \in 0 .. src
    BY <1>2, ReleaseFacts DEF ReleaseTypes
  <2>3. scenario = Scenarios + 1 /\ \A s \in 1 .. Scenarios : matched[s] \in 0 .. src
    BY <1>1, <1>2, ReleaseFacts DEF GatesInv
  <2>4. rbf' \in {None, StaleRbf} \/ BuiltRbf'
    <3>1. CASE rbf' = [fresh |-> TRUE, version |-> src]
      BY <1>1, <2>2, <2>3, <3>1 DEF BuiltRbf
    <3>2. CASE rbf' = rbf
      BY <1>1, <1>2, <3>2, FactsStay DEF ReleaseTypes, StaleRbf
    <3> QED BY <1>4, <3>1, <3>2
  <2>5. ReleaseTypes'
    BY <1>1, <1>2, <2>1, <2>4 DEF ReleaseTypes
  <2>6. GatesInv' /\ WrittenInv'
    BY <1>1, <1>2, <1>3, <1>4, FactsStay DEF GatesInv, WrittenInv
  <2> QED BY <2>5, <2>6 DEF ReleaseInv
<1>5. CASE gate' = "EXIT_FAILED" /\ UNCHANGED <<reports, rbf, ran>>
  <2>1. ReleaseTypes'
    BY <1>1, <1>2, <1>5, FactsStay DEF ReleaseTypes
  <2>2. GatesInv' /\ WrittenInv'
    BY <1>1, <1>2, <1>3, <1>5, FactsStay DEF GatesInv, WrittenInv
  <2> QED BY <2>1, <2>2 DEF ReleaseInv
<1> QED BY <1>4, <1>5 DEF Gate!Compile, Gate!Goto

LEMMA Finishes ==
    ASSUME unit = "release", ReleaseInv, UNCHANGED unit, Gate!Finish PROVE ReleaseInv'
<1>1. /\ UNCHANGED <<config, donors, mras, src, reports, rbf, scenario, matched, ran>>
      /\ gate = "finish"
  BY DEF Gate!Finish, Gate!given
<1>2. ReleaseTypes /\ GatesInv /\ WrittenInv
  BY DEF ReleaseInv
<1>3. release = None
  BY <1>1, <1>2 DEF WrittenInv
<1>4. ReleaseTypes'
  BY <1>1, <1>2, FactsStay DEF ReleaseTypes
<1> USE DEF ToFinish, ToHardware, ToMra, ToRbf, ToGates, ToQuartus, ToRegression, ToLint, ToConverge, From
<1>5. CASE gate' = "EXIT_BLOCKED" /\ release' = release
  BY <1>1, <1>2, <1>3, <1>4, <1>5, FactsStay DEF GatesInv, WrittenInv, ReleaseInv
<1>6. CASE /\ release' = [status |-> Gate!status, source |-> src,
                          rbf |-> IF config.output_rbf THEN rbf ELSE None]
           /\ gate' = IF Gate!status = "RELEASE_READY" THEN "EXIT_OK" ELSE "EXIT_BLOCKED"
  <2>1. config.output_rbf /\ BuiltRbf
    BY <1>1, <1>2 DEF GatesInv, Gate!validate_config
  <2>2. release'.rbf = rbf /\ release'.source = src /\ release'.status = Gate!status
    BY <1>6, <2>1
  <2>3. src \in 0 .. src /\ src \in Gate!Trees
    BY <1>2, ReleaseFacts DEF ReleaseTypes, Gate!Trees
  <2>4. rbf \in [fresh : BOOLEAN, version : Gate!Trees]
    BY <1>2, <2>1, ReleaseFacts DEF ReleaseTypes, BuiltRbf, Gate!Trees
  <2>5. release' # None
    <3>1. Gate!status \in Gate!Statuses
      BY DEF Gate!status, Gate!Statuses
    <3>2. release' \in [status : Gate!Statuses, source : Gate!Trees,
                        rbf : [fresh : BOOLEAN, version : Gate!Trees]]
      BY <1>6, <2>1, <2>3, <2>4, <3>1
    <3> QED BY <3>2, ReleaseFacts
  <2>6. Gate!status = "RELEASE_READY" => (config.hardware_required => "hardware" \in ran)
    BY DEF Gate!status
  <2>7. gate' \in {"EXIT_OK", "EXIT_BLOCKED"}
    BY <1>6
  <2>8. WrittenInv'
    BY <1>1, <1>6, <2>2, <2>3, <2>5, <2>6, <2>7 DEF WrittenInv
  <2>9. GatesInv'
    BY <1>1, <1>2, <2>1, <2>7, FactsStay DEF GatesInv
  <2> QED BY <1>4, <2>8, <2>9 DEF ReleaseInv
<1> QED BY <1>5, <1>6 DEF Gate!Finish, Gate!Goto

LEMMA Edits ==
    ASSUME unit = "release", ReleaseInv, UNCHANGED unit, Gate!Edit PROVE ReleaseInv'
<1>1. /\ UNCHANGED <<config, donors, mras, reports, rbf, gate, scenario, matched, ran, release>>
      /\ src' = src + 1 /\ src < MaxEdits
  BY DEF Gate!Edit, Gate!given
<1>2. ReleaseTypes /\ GatesInv /\ WrittenInv
  BY DEF ReleaseInv
<1>3. src' \in 0 .. MaxEdits /\ 0 .. src \subseteq 0 .. src'
  BY <1>1, <1>2, ReleaseFacts DEF ReleaseTypes
<1>4. BuiltRbf => BuiltRbf'
  BY <1>1, <1>3 DEF BuiltRbf
<1>5. ReleaseTypes'
  BY <1>1, <1>2, <1>3, <1>4 DEF ReleaseTypes
<1>6. GatesInv'
  BY <1>1, <1>2, <1>3, <1>4, FactsStay DEF GatesInv, From
<1>7. WrittenInv'
  BY <1>1, <1>2, <1>3 DEF WrittenInv
<1> QED BY <1>1, <1>5, <1>6, <1>7 DEF ReleaseInv

LEMMA ReleaseInvariance == BenchSpec => []ReleaseInv
<1>1. BenchInit => ReleaseInv
  <2> SUFFICES ASSUME BenchInit PROVE ReleaseInv
    OBVIOUS
  <2>1. Gate!Start /\ (unit = "release" => Gate!Given)
    BY DEF BenchInit
  <2>2. gate = "doctor" /\ release = None /\ src = 0 /\ scenario = 1 /\ ran = {}
    BY <2>1 DEF Gate!Start
  <2>3. ASSUME unit = "release" PROVE ReleaseTypes
    <3>1. reports \in Gate!Reports /\ rbf \in {None, StaleRbf}
      BY <2>1, <2>3, ReleaseFacts DEF Gate!Given, StaleRbf
    <3>2. 1 \in 1 .. Scenarios + 1 /\ 0 \in 0 .. MaxEdits
      BY ReleaseFacts
    <3> QED BY <2>1, <2>2, <3>1, <3>2 DEF Gate!Start, ReleaseTypes
  <2>4. GatesInv
    <3>1. \A s \in 1 .. Scenarios : ~(s < 1)
      BY ReleaseFacts
    <3>2. 1 <= Scenarios
      BY ReleaseFacts
    <3> QED BY <2>2, <3>1, <3>2 DEF GatesInv, From, ToFinish, ToHardware, ToMra, ToRbf, ToGates, ToQuartus,
                         ToRegression, ToLint, ToConverge
  <2>5. WrittenInv
    BY <2>2 DEF WrittenInv
  <2> QED BY <2>2, <2>3, <2>4, <2>5 DEF ReleaseInv
<1>2. ASSUME ReleaseInv, unit = "release", UNCHANGED unit, Gate!Next PROVE ReleaseInv'
  <2>1. CASE Gate!Doctor \/ Gate!Gates \/ Gate!CheckRbf \/ Gate!CheckMra
    BY <1>2, <2>1, GateOpens
  <2>2. CASE \/ Gate!RunTask("lint", "regression") \/ Gate!RunTask("regression", "quartus")
             \/ Gate!RunTask("hardware", "finish")
    BY <1>2, <2>2, TaskRuns
  <2> QED BY <1>2, <2>1, <2>2, Matches, Compiles, Finishes, Edits DEF Gate!Next
<1>3. ASSUME ReleaseInv, UNCHANGED <<unit, releaseVars>> PROVE ReleaseInv'
  <2>1. UNCHANGED <<config, donors, mras, src, reports, rbf, gate, scenario, matched, ran, release, unit>>
    BY <1>3 DEF releaseVars
  <2> QED BY <1>3, <2>1, FactsStay DEF ReleaseInv, ReleaseTypes, GatesInv, WrittenInv, From
<1>4. [BenchNext]_benchVars =>
          (unit = "release" /\ UNCHANGED unit /\ Gate!Next) \/ UNCHANGED <<unit, releaseVars>>
  BY DEF BenchNext, Converging, Releasing, Identifying, FetchingDonors, Mixing, Replaying, benchVars
<1>5. ReleaseInv /\ [BenchNext]_benchVars => ReleaseInv'
  BY <1>2, <1>3, <1>4
<1> QED BY <1>1, <1>5, PTL DEF BenchSpec

\* A release.json is earned: all scenarios matched, lint, regression and
\* compile were run, their reports pass, the RBF was built since, and what the
\* project requires of MRA files, donors and hardware holds; for any number of
\* scenarios, reports and edits.
THEOREM EarnedRelease == BenchSpec => []ReleaseEarned
<1>1. ReleaseInv => ReleaseEarned
  <2> SUFFICES ASSUME ReleaseInv PROVE Gate!ReleaseEarned
    BY DEF ReleaseEarned
  <2>1. CASE unit # "release"
    BY <2>1 DEF ReleaseInv, Gate!ReleaseEarned
  <2>2. CASE unit = "release" /\ release # None
    <3>1. ReleaseTypes /\ GatesInv /\ WrittenInv
      BY <2>2 DEF ReleaseInv
    <3>2. /\ Gate!validate_config /\ (config.require_provenance => Gate!validate_provenance)
          /\ scenario = Scenarios + 1
          /\ {"lint", "regression", "quartus"} \subseteq ran
          /\ Gate!parse_quartus_reports /\ BuiltRbf
          /\ config.require_mra => Gate!validate_mras
      BY <2>2, <3>1 DEF GatesInv, From
    <3>3. PICK v \in 0 .. src : rbf = [fresh |-> TRUE, version |-> v]
                                /\ \A s \in 1 .. Scenarios : matched[s] \in 0 .. v
      BY <3>2 DEF BuiltRbf
    <3>4. release.rbf.fresh /\ release.rbf.version = v
      BY <2>2, <3>1, <3>3 DEF WrittenInv
    <3>5. \A s \in 1 .. Scenarios : matched[s] # None /\ matched[s] <= release.rbf.version
      BY <3>1, <3>3, <3>4, ReleaseFacts DEF ReleaseTypes
    <3>6. /\ \E r \in Gate!FreshReports : "met" \in Gate!SlacksOf(r)
          /\ \A r \in Gate!FreshReports : ~r.errors /\ (config.allow_unconstrained \/ ~r.unconstrained)
      BY <3>1, <3>2, ReportsPass DEF ReleaseTypes
    <3>7. config.require_mra => \A m \in mras : m.rbf = "own" /\ m.supported
      BY <3>2 DEF Gate!validate_mras
    <3>8. config.require_provenance => \A d \in donors : d.commit
      BY <3>2 DEF Gate!validate_provenance
    <3>9. gate = "EXIT_OK" => (config.hardware_required => "hardware" \in ran)
      BY <3>1 DEF WrittenInv
    <3> QED BY <2>2, <3>2, <3>4, <3>5, <3>6, <3>7, <3>8, <3>9 DEF Gate!ReleaseEarned
  <2>3. CASE unit = "release" /\ release = None
    BY <2>3 DEF ReleaseInv, WrittenInv, Gate!ReleaseEarned
  <2> QED BY <2>1, <2>2, <2>3
<1> QED BY <1>1, ReleaseInvariance, PTL

-----------------------------------------------------------------------------
USE DEF fingerprints

(***************************************************************************)
(* The evidence workflow, for any processes, versions, disturbances, edits *)
(* between runs and crashes.  What a process has in hand at each stage, as *)
(* long as the inputs rest while it runs.  A version found in any trace is *)
(* that of the inputs, so whatever is whole is right.                      *)
(***************************************************************************)
Started   == Stages \ {"idle", "converge", "force", "resume"}
Built     == Started \ {"build", "build_forced", "fail", "block"}
Keyed     == Built \ {"lookup", "lookup_forced"}
Traced    == Keyed \ {"copy_trace", "capture"}
Storing   == {"store_trace", "fill_trace", "store_meta", "fill_meta"}

\* A verdict in a copy of the state is the truth.
True(saved) ==
    /\ saved.status = "MATCH" => saved.fingerprints \in Agrees
    /\ saved.status = "DIVERGED" => saved.fingerprints \notin Agrees

InHand(p) ==
    /\ pc[p] \in Started => mem[p].fingerprints = <<rtl, ref>>
    /\ pc[p] \in Built => built[p] = rtl
    /\ pc[p] \in Keyed => key[p] = ref
    /\ pc[p] \in Traced => mame[p] \in {None, Torn, Noise, ref}
    /\ pc[p] \in Storing => mame[p] = ref /\ sidecar[p] = ref
    /\ pc[p] = "match" => <<rtl, ref>> \in Agrees
    /\ pc[p] = "diverge" => <<rtl, ref>> \notin Agrees

\* Every file of a cache entry is absent, torn, or of the entry's identity.
EntryOwn == \A i \in Versions : trace[i] \in {None, Torn, i} /\ meta[i] \in {None, Torn, i}

EvidenceInv ==
    /\ TypeOK /\ EntryOwn /\ True(file)
    /\ \A p \in Procs : True(mem[p]) /\ InHand(p)

-----------------------------------------------------------------------------
\* A step of a process keeps to the types.
LEMMA ProcessTypes == ASSUME TypeOK, NEW p \in Procs, InHand(p), Step(p) PROVE TypeOK'
<1> USE EvidenceAssumption DEF TypeOK, Goto, inputs, disk, local
<1>key. pc[p] \in Keyed => key[p] \in Versions
  BY DEF InHand
<1>built. pc[p] \in Built => built[p] \in Versions
  BY DEF InHand
<1>files. \A i \in Versions : trace[i] \in Files /\ meta[i] \in Files
  OBVIOUS
<1>mem. /\ New \in State
        /\ \A st \in {"RUNNING", "MATCH", "DIVERGED", "BLOCKED", "FAILED"} :
              [mem[p] EXCEPT !.status = st] \in State
        /\ [status |-> "RUNNING", fingerprints |-> <<rtl, ref>>] \in State
  BY DEF State, Pairs, Verdict, New
<1>exit. Exit(p) => /\ pc' \in [Procs -> Stages] /\ mem' \in [Procs -> State]
                    /\ built' \in [Procs -> Versions \cup {None}]
                    /\ key' \in [Procs -> Versions \cup {None}]
                    /\ mame' \in [Procs -> Files] /\ sidecar' \in [Procs -> Files]
                    /\ hashes' \in [Procs -> Hashes \cup {None}]
  BY <1>mem DEF Exit, Stages, Files
<1>1. CASE Open(p) BY <1>1 DEF Open, Stages
<1>2. CASE Resume(p)
  <2>1. CASE Exit(p) /\ UNCHANGED <<inputs, file, disk>> BY <2>1, <1>exit
  <2>2. CASE Goto(p, "converge") /\ UNCHANGED <<mem, local, inputs, file, disk>>
    BY <2>2 DEF Stages
  <2> QED BY <1>2, <2>1, <2>2 DEF Resume
<1>3. CASE Begin(p)
  <2>1. CASE Exit(p) /\ UNCHANGED <<inputs, file, disk>> BY <2>1, <1>exit
  <2>2. CASE begin_run(p) /\ Goto(p, IF pc[p] = "force" THEN "build_forced" ELSE "build")
             /\ UNCHANGED <<local, inputs, disk>>
    BY <2>2, <1>mem DEF begin_run, Save, Stages
  <2> QED BY <1>3, <2>1, <2>2 DEF Begin
<1>4. CASE Build(p) BY <1>4, <1>mem DEF Build, transition, Save, Stages
<1>5. CASE Lookup(p) BY <1>5, <1>mem DEF Lookup, transition, Save, Stages
<1>6. CASE CopyTrace(p)
  <2>1. trace[key[p]] \in Files
    BY <1>6, <1>key, <1>files DEF CopyTrace, Keyed, Built, Started, Stages
  <2> QED BY <1>6, <2>1 DEF CopyTrace, Stages
<1>7. CASE CopyMeta(p)
  <2>1. meta[key[p]] \in Files
    BY <1>7, <1>key, <1>files DEF CopyMeta, Keyed, Built, Started, Stages
  <2> QED BY <1>7, <2>1 DEF CopyMeta, Stages
<1>8. CASE Capture(p) BY <1>8 DEF Capture, captures, Stages, Files, Traces
<1>9. CASE Recapture(p) BY <1>9 DEF Recapture, Stages
<1>10. CASE StoreTrace(p) BY <1>10 DEF StoreTrace, Stages, Files
<1>11. CASE StoreMeta(p) BY <1>11 DEF StoreMeta, Stages, Files
<1>12. CASE HashEntry(p)
  <2>1. [trace |-> trace[key[p]], meta |-> meta[key[p]]] \in Hashes
    BY <1>12, <1>key, <1>files DEF HashEntry, Keyed, Built, Started, Stages, Hashes
  <2> QED BY <1>12, <2>1 DEF HashEntry, Stages
<1>13. CASE Publish(p) BY <1>13 DEF Publish, Stages
<1>14. CASE CaptureRtl(p) BY <1>14, <1>mem DEF CaptureRtl, transition, Save, Stages
<1>15. CASE Compare(p) BY <1>15, <1>mem DEF Compare, transition, Save, Stages
<1>16. CASE Finish(p)
  <2>1. [mem[p] EXCEPT !.status = Outcome[pc[p]]] \in State
    BY <1>16, <1>mem DEF Finish, Outcome
  <2> QED BY <1>16, <1>exit, <2>1 DEF Finish
<1>17. CASE Crash(p) BY <1>17, <1>exit DEF Crash
<1> QED BY <1>1, <1>2, <1>3, <1>4, <1>5, <1>6, <1>7, <1>8, <1>9, <1>10, <1>11, <1>12,
           <1>13, <1>14, <1>15, <1>16, <1>17 DEF Step

-----------------------------------------------------------------------------
\* A step of a process leaves it with what its next stage needs, and its copy
\* of the state and the state file with no false verdict.
LEMMA HandStep ==
    ASSUME EvidenceInv, NEW p \in Procs, Step(p)
    PROVE  InHand(p)' /\ True(mem[p])' /\ True(file)'
<1> USE EvidenceAssumption DEF EvidenceInv, Goto, inputs, local, InHand, True
<1> USE DEF Storing, Traced, Keyed, Built, Started, Stages
<1> pc[p] \in Stages /\ pc \in [Procs -> Stages] /\ mem \in [Procs -> State]
  BY DEF TypeOK
<1> mem[p] = [status |-> mem[p].status, fingerprints |-> mem[p].fingerprints]
  BY DEF State
<1>f. /\ built \in [Procs -> Versions \cup {None}] /\ key \in [Procs -> Versions \cup {None}]
      /\ mame \in [Procs -> Files] /\ sidecar \in [Procs -> Files]
      /\ rtl \in Versions /\ ref \in Versions
  BY DEF TypeOK
<1>1. CASE Open(p) BY <1>1 DEF Open
<1>2. CASE Resume(p) BY <1>2 DEF Resume, Exit, New
<1>3. CASE Begin(p) BY <1>3 DEF Begin, begin_run, Save, Exit, New
<1>4. CASE Build(p) BY <1>4, <1>f DEF Build, transition, Save
<1>5. CASE Lookup(p) BY <1>5, <1>f DEF Lookup, transition, Save
<1>6. CASE CopyTrace(p)
  <2>1. trace[ref] \in {None, Torn, ref} /\ key[p] = ref
    BY <1>6, <1>f DEF CopyTrace, EntryOwn
  <2> QED BY <1>6, <1>f, <2>1 DEF CopyTrace
<1>7. CASE CopyMeta(p) BY <1>7, <1>f DEF CopyMeta
<1>8. CASE Capture(p) BY <1>8, <1>f DEF Capture, captures
<1>9. CASE Recapture(p)
  <2>1. /\ sidecar' = [sidecar EXCEPT ![p] = mame[p]]
        /\ UNCHANGED <<rtl, ref, file, mem, built, key, mame>>
    BY <1>9 DEF Recapture
  <2>2. CASE pc' = [pc EXCEPT ![p] = "store_trace"]
    BY <1>9, <1>f, <2>1, <2>2 DEF Recapture, captures, same
  <2>3. CASE pc' = [pc EXCEPT ![p] = "block"] \/ pc' = [pc EXCEPT ![p] = "fail"]
    BY <1>9, <1>f, <2>1, <2>3 DEF Recapture
  <2> QED BY <1>9, <2>2, <2>3 DEF Recapture
<1>10. CASE StoreTrace(p) BY <1>10 DEF StoreTrace
<1>11. CASE StoreMeta(p) BY <1>11 DEF StoreMeta
<1>12. CASE HashEntry(p) BY <1>12 DEF HashEntry
<1>13. CASE Publish(p) BY <1>13 DEF Publish
<1>14. CASE CaptureRtl(p) BY <1>14 DEF CaptureRtl, transition, Save
<1>15. CASE Compare(p)
  <2>1. whole(p) => mame[p] = ref /\ built[p] = rtl
    BY <1>15, <1>f DEF Compare, whole
  <2> QED BY <1>15, <2>1 DEF Compare, transition, Save, agree
<1>16. CASE Finish(p)
  <2>1. pc' = [pc EXCEPT ![p] = "idle"] /\ mem' = [mem EXCEPT ![p] = New]
    BY <1>16 DEF Finish, Exit
  <2>2. /\ file'.status = Outcome[pc[p]] /\ file'.fingerprints = mem[p].fingerprints
        /\ pc[p] \in {"match", "diverge", "block", "fail"}
    BY <1>16 DEF Finish, Outcome
  <2>3. True(file)'
    <3>1. CASE pc[p] = "match" BY <2>2, <3>1 DEF Outcome
    <3>2. CASE pc[p] = "diverge" BY <2>2, <3>2 DEF Outcome
    <3>3. CASE pc[p] \in {"block", "fail"} BY <2>2, <3>3 DEF Outcome
    <3> QED BY <2>2, <3>1, <3>2, <3>3
  <2> QED BY <2>1, <2>3 DEF New
<1>17. CASE Crash(p) BY <1>17 DEF Crash, Exit, New
<1> QED BY <1>1, <1>2, <1>3, <1>4, <1>5, <1>6, <1>7, <1>8, <1>9, <1>10, <1>11, <1>12,
           <1>13, <1>14, <1>15, <1>16, <1>17 DEF Step

\* Only a process that stores writes an entry, and it writes what it proved.
LEMMA EntryStep == ASSUME EvidenceInv, NEW p \in Procs, Step(p) PROVE EntryOwn'
<1> USE DEF EvidenceInv, EntryOwn, disk
<1>1. trace \in [Versions -> Files] /\ meta \in [Versions -> Files]
  BY DEF TypeOK
<1>2. CASE StoreTrace(p)
  <2>1. key[p] = ref /\ ref \in Versions /\ (pc[p] = "fill_trace" => mame[p] = ref)
    BY <1>2 DEF StoreTrace, InHand, TypeOK, Storing, Keyed, Built, Started, Stages
  <2> QED BY <1>1, <1>2, <2>1 DEF StoreTrace
<1>3. CASE StoreMeta(p)
  <2>1. key[p] = ref /\ ref \in Versions /\ (pc[p] = "fill_meta" => sidecar[p] = ref)
    BY <1>3 DEF StoreMeta, InHand, TypeOK, Storing, Keyed, Built, Started, Stages
  <2> QED BY <1>1, <1>3, <2>1 DEF StoreMeta
<1>4. CASE ~StoreTrace(p) /\ ~StoreMeta(p)
  <2>1. UNCHANGED <<trace, meta>>
    BY <1>4 DEF Step, Open, Resume, Begin, Build, Lookup, CopyTrace, CopyMeta, Capture,
                Recapture, HashEntry, Publish, CaptureRtl, Compare, Finish, Crash
  <2> QED BY <2>1
<1> QED BY <1>2, <1>3, <1>4

\* A step of one process touches nothing another has in hand.
LEMMA OthersRest ==
    ASSUME TypeOK, NEW p \in Procs, Step(p), NEW q \in Procs \ {p}
    PROVE  UNCHANGED <<rtl, ref, pc[q], mem[q], built[q], key[q], mame[q], sidecar[q]>>
  BY DEF Step, TypeOK, Goto, Exit, Save, begin_run, transition, inputs, local, Open, Resume,
         Begin, Build, Lookup, CopyTrace, CopyMeta, Capture, Recapture, StoreTrace, StoreMeta,
         HashEntry, Publish, CaptureRtl, Compare, Finish, Crash

\* The invariant is inductive when inputs rest while a process runs.
THEOREM EvidenceInductive == ASSUME ~EditsDuring PROVE Spec => []EvidenceInv
<1>1. Init => EvidenceInv
  BY EvidenceAssumption DEF Init, Start, EvidenceInv, TypeOK, EntryOwn, True, InHand, New,
     State, Files, Verdict,
     Storing, Traced, Keyed, Built, Started, Stages
<1>2. EvidenceInv /\ [Next]_vars => EvidenceInv'
  <2>1. ASSUME EvidenceInv, UNCHANGED vars PROVE EvidenceInv'
    BY <2>1 DEF vars, disk, local, EvidenceInv, TypeOK, EntryOwn, True, InHand, State
  <2>2. ASSUME EvidenceInv, Edit PROVE EvidenceInv'
    <3>1. \A p \in Procs : pc[p] = "idle"
      BY <2>2 DEF Edit
    <3>2. TypeOK'
      BY <2>2, EvidenceAssumption DEF Edit, EvidenceInv, TypeOK, disk, local
    <3> QED BY <2>2, <3>1, <3>2 DEF Edit, EvidenceInv, disk, local, EntryOwn, True, InHand,
               Storing, Traced, Keyed, Built, Started
  <2>3. ASSUME EvidenceInv, NEW p \in Procs, Step(p) PROVE EvidenceInv'
    <3>1. TypeOK'
      BY <2>3, ProcessTypes DEF EvidenceInv
    <3>2. EntryOwn' /\ True(file)'
      BY <2>3, EntryStep, HandStep
    <3>3. ASSUME NEW q \in Procs PROVE True(mem[q])' /\ InHand(q)'
      <4>1. CASE q = p
        BY <2>3, <4>1, HandStep
      <4>2. CASE q # p
        BY <2>3, <4>2, OthersRest DEF EvidenceInv, True, InHand
      <4> QED BY <4>1, <4>2
    <3> QED BY <3>1, <3>2, <3>3 DEF EvidenceInv
  <2> QED BY <2>1, <2>2, <2>3 DEF Next
<1> QED BY <1>1, <1>2, PTL DEF Spec

\* Every variable of Evidence keeps to its type, with any number of processes.
THEOREM EvidenceTypes == ASSUME ~EditsDuring PROVE Spec => []TypeOK
  BY EvidenceInductive, PTL DEF EvidenceInv

\* No process, crash, torn cache entry or disturbed capture makes the workflow
\* file a false verdict, as long as inputs are edited between runs only.
THEOREM SoundVerdicts == ASSUME ~EditsDuring PROVE Spec => []VerdictTrue
<1>1. EvidenceInv => VerdictTrue
  BY DEF EvidenceInv, True, VerdictTrue
<1> QED BY <1>1, EvidenceInductive, PTL

\* What resume answers without a run is the truth about the present inputs.
THEOREM ResumeSound == ASSUME ~EditsDuring PROVE Spec => ResumeTrue
<1> DEFINE Honest == \A p \in Procs : pc[p] = "resume" /\ pc'[p] = "idle" /\ crashes' = crashes =>
                       (mem[p].status = "MATCH" <=> <<rtl, ref>> \in Agrees)
<1>1. EvidenceInv /\ [Next]_vars => [Honest]_vars
  <2> SUFFICES ASSUME EvidenceInv, Next, NEW p \in Procs,
                      pc[p] = "resume", pc'[p] = "idle", crashes' = crashes
               PROVE  mem[p].status = "MATCH" <=> <<rtl, ref>> \in Agrees
    OBVIOUS
  <2>1. PICK q \in Procs : Step(q)
    BY DEF Next, Edit
  <2>2. q = p
    BY <2>1, OthersRest DEF EvidenceInv
  <2>3. Resume(p) /\ mem[p].status \in Verdict /\ unchanged(p)
    BY <2>1, <2>2, EvidenceAssumption DEF Step, Open, Resume, Begin, Build, Lookup, CopyTrace,
       CopyMeta, Capture, Recapture, StoreTrace, StoreMeta, HashEntry, Publish, CaptureRtl,
       Compare, Finish, Outcome, Crash, EvidenceInv, TypeOK, Goto
  <2> QED BY <2>3 DEF EvidenceInv, True, unchanged, Verdict
<1> QED BY <1>1, EvidenceInductive, PTL DEF ResumeTrue, Spec
=============================================================================
