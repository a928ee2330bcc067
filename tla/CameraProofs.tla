---------------------------- MODULE CameraProofs ----------------------------
(***************************************************************************)
(* Proofs about Camera, the tracer and the frame behind it, for every line *)
(* and every choice of the constants.  In the order of the sections: no    *)
(* region leaves the line; a search that finds both lines stores the       *)
(* widest lane it can see; edges that move within the radius are followed; *)
(* a standing car's view settles and then counts as straight; the frame    *)
(* holds half of the white regions; the light does not matter, since a     *)
(* gain and an offset cancel in the normalisation; and a track bright      *)
(* enough is told from the darkest pixels.                                 *)
(***************************************************************************)
EXTENDS Camera, NumberLemmas

-----------------------------------------------------------------------------
(* The bounds of the regions.                                              *)

InsideLine == minLeft .. maxRight
Inside == [left : InsideLine, right : InsideLine]

\* The constants as the proofs use them.
LEMMA Constants ==
  /\ minLeft \in Nat /\ maxRight \in Nat /\ minLeft < maxRight
  /\ maxRight < LineLength /\ LineLength \in Nat /\ BlackCount \in Nat
  /\ SearchRegion \in Nat /\ Distance \in Nat
BY TracerAssumption DEF TracerAssumption, minLeft, maxRight

\* The steps of the search and the offsets they look at are numbers.
LEMMA StepsAreNat ==
  Steps \in SUBSET Nat /\ \A k \in Steps : Offset(k) \in Int
BY TracerAssumption DEF TracerAssumption, Steps, LastStep, Offset

\* outOfBounds lets through only indices inside the line.
LEMMA InBoundsInside ==
  ASSUME NEW i \in Int, InBounds(i)
  PROVE  i \in InsideLine
BY Constants DEF InBounds, InsideLine, minLeft, maxRight

\* A followed edge was found at an index in bounds: the step that found it
\* was reached, and was not the first to leave the bounds.
LEMMA FollowedInside ==
  ASSUME NEW img, NEW p \in Inside, Followed(img, p)
  PROVE  FollowedRegion(img, p) \in Inside
<1> DEFINE LH == LeftHits(img, p)
           RH == RightHits(img, p)
<1>1. PICK k \in Completed(img, p) : TRUE
  BY DEF Followed
<1>2. k \in Steps /\ k \in Nat /\ Reached(img, p, k)
  BY <1>1, StepsAreNat DEF Completed
<1>3. LH \in SUBSET Nat /\ RH \in SUBSET Nat
  BY StepsAreNat DEF LeftHits, RightHits
<1>4. PICK l \in LH : l <= k
  BY <1>1 DEF Completed
<1>5. PICK r \in RH : r <= k
  BY <1>1 DEF Completed
<1>6. Min(LH) \in LH /\ \A i \in LH : Min(LH) <= i
  BY <1>3, <1>4, MinIsLeast, 0 \in Int, LH \in SUBSET Int
<1>7. Min(RH) \in RH /\ \A i \in RH : Min(RH) <= i
  BY <1>3, <1>5, MinIsLeast, 0 \in Int, RH \in SUBSET Int
<1>8. InBounds(p.left + Offset(Min(LH)))
  <2>1. Min(LH) \in 0 .. k
    BY <1>2, <1>3, <1>4, <1>6
  <2>2. ~\E i \in LH : i < Min(LH)
    BY <1>3, <1>6
  <2>3. QED
    BY <1>2, <2>1, <2>2 DEF Reached
<1>9. InBounds(p.right + Offset(Min(RH)))
  <2>1. Min(RH) \in 0 .. k
    BY <1>2, <1>3, <1>5, <1>7
  <2>2. ~\E i \in RH : i < Min(RH)
    BY <1>3, <1>7
  <2>3. QED
    BY <1>2, <2>1, <2>2 DEF Reached
<1>10. Min(LH) \in Steps /\ Min(RH) \in Steps
  BY <1>6, <1>7 DEF LeftHits, RightHits
<1>11. p.left \in Int /\ p.right \in Int
  BY Constants DEF Inside, InsideLine
<1>12. /\ p.left + Offset(Min(LH)) \in InsideLine
       /\ p.right + Offset(Min(RH)) \in InsideLine
  <2>1. /\ p.left + Offset(Min(LH)) \in Int
        /\ p.right + Offset(Min(RH)) \in Int
    <3>1. Offset(Min(LH)) \in Int /\ Offset(Min(RH)) \in Int
      BY <1>10, StepsAreNat
    <3>2. QED
      BY <1>11, <3>1
  <2>2. QED
    BY <1>8, <1>9, <2>1, InBoundsInside
<1>13. WholeRegion \in Inside
  BY Constants DEF WholeRegion, Inside, InsideLine
<1>14. QED
  BY <1>12, <1>13 DEF FollowedRegion, Inside

-----------------------------------------------------------------------------
(* The regions of a search.                                                *)

\* The starts of the regions are pixels inside the line.
LEMMA StartsBounded ==
  ASSUME NEW img
  PROVE  /\ Starts(img) \in SUBSET Int /\ minLeft \in Starts(img)
         /\ \A s \in Starts(img) : minLeft <= s /\ s <= maxRight
BY Constants DEF Starts, KeptBorders, Borders

\* A region lies on the line.
LEMMA RegionFromOnLine ==
  ASSUME NEW img, NEW s \in Starts(img)
  PROVE  RegionFrom(img, s) \in
           [left : 0 .. LineLength - 1, right : 0 .. LineLength - 1]
<1> DEFINE After == {t \in Starts(img) : t > s}
<1>1. CASE s = Max(Starts(img))
  BY <1>1, StartsBounded, Constants DEF RegionFrom
<1>2. CASE s # Max(Starts(img))
  <2>1. /\ Max(Starts(img)) \in Starts(img)
        /\ \A t \in Starts(img) : Max(Starts(img)) >= t
    <3>1. maxRight \in Int /\ Starts(img) # {}
      BY StartsBounded, Constants
    <3>2. QED
      BY <3>1, StartsBounded, MaxIsGreatest
  <2>2. Max(Starts(img)) \in After
    BY <2>1, <1>2, StartsBounded
  <2>3. After \in SUBSET Int /\ \A t \in After : minLeft <= t
    BY StartsBounded
  <2>4. Min(After) \in After
    BY <2>2, <2>3, MinIsLeast, Constants
  <2>5. Min(After) \in 0 .. LineLength - 1
    BY <2>4, StartsBounded, Constants
  <2>6. s \in 0 .. LineLength - 1
    BY StartsBounded, Constants
  <2>7. QED
    BY <1>2, <2>5, <2>6, Constants DEF RegionFrom
<1>3. QED
  BY <1>1, <1>2

\* The search for the widest white region ends with one, if there is any.
LEMMA BiggestWhiteIsWidest ==
  ASSUME NEW img, Whites(img) # {}
  PROVE  /\ BiggestWhite(img) \in Whites(img)
         /\ \A q \in Whites(img) : Size(q) <= Size(BiggestWhite(img))
<1> DEFINE W == Whites(img)
           Widest(r) == \A q \in W : \/ Size(q) < Size(r)
                                     \/ Size(q) = Size(r) /\ r.left <= q.left
           Sizes == {z \in Int : \E r \in W : Size(r) = z}
<1>1. \A r \in W : /\ r.left \in Int /\ 0 <= r.left
                   /\ Size(r) \in Int /\ Size(r) <= LineLength
  <2>1. W \subseteq [left : 0 .. LineLength - 1, right : 0 .. LineLength - 1]
    BY RegionFromOnLine DEF Whites
  <2>2. QED
    BY <2>1, Constants DEF Size
<1>2. Sizes \in SUBSET Int /\ Sizes # {} /\ \A z \in Sizes : z <= LineLength
  BY <1>1
<1>3. Max(Sizes) \in Sizes /\ \A z \in Sizes : Max(Sizes) >= z
  <2> HIDE DEF Sizes
  <2>1. QED
    BY <1>2, MaxIsGreatest, Constants, LineLength \in Int
<1> DEFINE Lefts ==
      {x \in Int : \E r \in W : Size(r) = Max(Sizes) /\ r.left = x}
<1>4. Lefts \in SUBSET Int /\ Lefts # {} /\ \A x \in Lefts : 0 <= x
  <2>1. PICK r \in W : Size(r) = Max(Sizes)
    BY <1>3
  <2> HIDE DEF W, Sizes
  <2>2. QED
    BY <2>1, <1>1
<1>5. Min(Lefts) \in Lefts /\ \A x \in Lefts : Min(Lefts) <= x
  <2> HIDE DEF Lefts
  <2>1. QED
    BY <1>4, MinIsLeast, 0 \in Int
<1>6. PICK b \in W : Size(b) = Max(Sizes) /\ b.left = Min(Lefts)
  BY <1>5
<1>7. ASSUME NEW q \in W
      PROVE  Size(q) < Size(b) \/ (Size(q) = Size(b) /\ b.left <= q.left)
  <2>1. Size(q) \in Int /\ Size(b) \in Int /\ q.left \in Int
    BY <1>1
  <2>2. Size(q) <= Size(b)
    BY <2>1, <1>3, <1>6
  <2>3. CASE Size(q) = Size(b)
    BY <2>1, <2>3, <1>5, <1>6
  <2>4. QED
    BY <2>1, <2>2, <2>3
<1>8. Widest(b)
  BY <1>7
<1>9. BiggestWhite(img) \in W /\ Widest(BiggestWhite(img))
  <2>1. BiggestWhite(img) = CHOOSE r \in W : Widest(r)
    BY DEF BiggestWhite
  <2> HIDE DEF Widest, W
  <2>2. QED
    BY <1>8, <2>1
<1>10. QED
  <2>1. ASSUME NEW q \in W
        PROVE  Size(q) <= Size(BiggestWhite(img))
    BY <1>1, <1>9
  <2>2. QED
    BY <1>9, <2>1

\* The search ends with a region of the line, or the empty one it began with.
LEMMA BiggestWhiteOnLine ==
  ASSUME NEW img
  PROVE  BiggestWhite(img) \in
           [left : 0 .. LineLength - 1, right : 0 .. LineLength - 1]
<1>1. CASE Whites(img) = {}
  BY <1>1, Constants DEF BiggestWhite
<1>2. CASE Whites(img) # {}
  BY <1>2, BiggestWhiteIsWidest, RegionFromOnLine DEF Whites
<1>3. QED
  BY <1>1, <1>2

\* Whatever was found or computed, the constructor puts it inside the line.
LEMMA SearchedInside ==
  ASSUME NEW img
  PROVE  SearchedRegion(img) \in Inside
<1> DEFINE B == BiggestWhite(img)
<1>1. B.left \in Int /\ B.right \in Int
  BY BiggestWhiteOnLine, Constants
<1>2. ASSUME NEW r, r.left \in Int, r.right \in Int
      PROVE  Clamped(r) \in Inside
  BY <1>2, Constants DEF Clamped, Inside, InsideLine
<1>3. CompletedRegion(B).left \in Int /\ CompletedRegion(B).right \in Int
  BY <1>1, BiggestWhiteOnLine, Constants DEF CompletedRegion
<1>4. QED
  BY <1>1, <1>2, <1>3 DEF SearchedRegion

-----------------------------------------------------------------------------
(* The invariant.                                                          *)

(* What is left of the list before a region is added, and one more.        *)

\* addImage makes room for one more region.
LEMMA KeptTyped ==
  ASSUME TypeOK, imageRegionList \in Seq(Inside)
  PROVE  Kept \in Seq(Inside) /\ Len(Kept) <= ListSize
<1>1. CASE Len(imageRegionList) > ListSize
  <2>1. imageRegionList # <<>> /\ ListSize \in Nat
    BY <1>1, TracerAssumption DEF TracerAssumption
  <2>2. QED
    BY <1>1, <2>1 DEF Kept, TypeOK
<1>2. CASE ~(Len(imageRegionList) > ListSize)
  BY <1>2, TracerAssumption DEF TracerAssumption, Kept
<1>3. QED
  BY <1>1, <1>2

\* The inductive invariant: TypeOK, and that the list is a sequence.
TypeInv == imageRegionList \in Seq(Inside) /\ TypeOK

\* The list with the new region.
LEMMA ListTyped ==
  ASSUME NEW l \in Seq(Inside), NEW r \in Inside, Len(l) <= ListSize
  PROVE  /\ Append(l, r) \in Seq(Inside)
         /\ Len(Append(l, r)) <= ListSize + 1
         /\ \A i \in 1 .. Len(Append(l, r)) : Append(l, r)[i] \in Inside
BY TracerAssumption DEF TracerAssumption

\* The empty list is typed.
LEMMA TypeInvInit == Init => TypeInv
<1>1. SUFFICES ASSUME Init
               PROVE  TypeInv
  OBVIOUS
<1>2. imageRegionList \in Seq(Inside) /\ Len(imageRegionList) = 0
  BY <1>1 DEF Init
<1>3. hasLeft \in BOOLEAN /\ hasRight \in BOOLEAN /\ computedRegion \in BOOLEAN
  BY <1>1 DEF Init
<1>4. 0 <= ListSize + 1
  BY TracerAssumption DEF TracerAssumption
<1>5. \A i \in 1 .. Len(imageRegionList) : imageRegionList[i] \in Inside
  BY <1>2
<1>6. QED
  BY <1>2, <1>3, <1>4, <1>5 DEF TypeInv, TypeOK, Inside, InsideLine

\* Both ways of finding a region give one inside the line.
LEMMA TypeInvNext == TypeInv /\ [Next]_vars => TypeInv'
<1> SUFFICES ASSUME TypeInv, [Next]_vars
             PROVE  TypeInv'
  OBVIOUS
<1>1. Kept \in Seq(Inside) /\ Len(Kept) <= ListSize
  BY KeptTyped DEF TypeInv
<1>2. ASSUME NEW img \in Images, Follow(img)
      PROVE  TypeInv'
  <2>1. Last(Kept) \in Inside
    BY <1>1, <1>2 DEF Follow, CanFollow, Last
  <2>2. FollowedRegion(img, Last(Kept)) \in Inside
    BY <2>1, <1>2, FollowedInside DEF Follow, CanFollow
  <2>3. QED
    BY <1>1, <1>2, <2>2, ListTyped
       DEF Follow, TypeInv, TypeOK, Inside, InsideLine
<1>3. ASSUME NEW img \in Images, Search(img)
      PROVE  TypeInv'
  <2>1. Searched[img].region \in Inside
    BY SearchedInside DEF Searched
  <2>2. hasLeft' \in BOOLEAN /\ hasRight' \in BOOLEAN
    BY <1>3 DEF Search, Searched, HasLeftLine, HasRightLine
  <2>3. computedRegion' \in BOOLEAN
    BY <1>3 DEF Search
  <2>4. QED
    BY <1>1, <1>3, <2>1, <2>2, <2>3, ListTyped
       DEF Search, TypeInv, TypeOK, Inside, InsideLine
<1>4. CASE Reset
  BY <1>4, TracerAssumption DEF TracerAssumption, Reset, TypeInv, TypeOK
<1>5. CASE UNCHANGED vars
  BY <1>5 DEF vars, TypeInv, TypeOK
<1>6. QED
  BY <1>2, <1>3, <1>4, <1>5 DEF Next, AddImage

\* For every camera, region limits and images: each region on the list lies
\* between minLeft and maxRight, and the list has at most ListSize + 1.
THEOREM RegionsStayInside == Spec => []TypeOK
<1>1. TypeInv => TypeOK
  BY DEF TypeInv
<1>2. QED
  BY <1>1, TypeInvInit, TypeInvNext, PTL DEF Spec

-----------------------------------------------------------------------------
(* The widest lane: between two lines of the image, a region that the      *)
(* search lists is the lane that is there, and every lane is listed.       *)

\* The greatest start of a region.
LEMMA LastStart ==
  ASSUME NEW img
  PROVE  /\ Max(Starts(img)) \in Starts(img)
         /\ \A s \in Starts(img) : s <= Max(Starts(img))
<1>1. maxRight \in Int /\ Starts(img) # {}
  BY StartsBounded, Constants
<1>2. QED
  BY <1>1, StartsBounded, MaxIsGreatest

\* No border to the left of a kept one is dropped.
LEMMA KeptIsPrefix ==
  ASSUME NEW img, NEW b \in Borders(img), b <= Max(Starts(img))
  PROVE  b \in Starts(img)
<1> DEFINE M == Max(Starts(img))
           Before(i) == {j \in Borders(img) : j < i}
<1>1. b \in Int /\ minLeft < b
  BY Constants DEF Borders
<1>2. M \in KeptBorders(img)
  BY <1>1, LastStart, Constants DEF Starts
<1>3. M \in Int
  BY LastStart, StartsBounded
<1>4. IsFiniteSet(Borders(img))
  <2>1. IsFiniteSet(minLeft + 1 .. maxRight)
    BY Constants, FS_Interval, minLeft + 1 \in Int, maxRight \in Int
  <2>2. Borders(img) \subseteq minLeft + 1 .. maxRight
    BY DEF Borders
  <2>3. QED
    BY <2>1, <2>2, FS_Subset
<1>5. Before(b) \subseteq Before(M) /\ Before(M) \subseteq Borders(img)
  <2>1. \A j \in Borders(img) : j \in Int
    BY Constants DEF Borders
  <2>2. b <= M
    OBVIOUS
  <2> HIDE DEF M
  <2>3. ASSUME NEW j \in Before(b)
        PROVE  j \in Before(M)
    <3>1. j \in Int /\ j < b
      BY <2>1
    <3>2. j < M
      BY <1>1, <1>3, <2>2, <3>1
    <3>3. QED
      BY <3>2
  <2>4. QED
    BY <2>3
<1>6. IsFiniteSet(Before(M))
  BY <1>4, <1>5, FS_Subset
<1>7. /\ Cardinality(Before(b)) <= Cardinality(Before(M))
      /\ Cardinality(Before(b)) \in Nat /\ Cardinality(Before(M)) \in Nat
  BY <1>5, <1>6, FS_Subset, FS_CardinalityType
<1>8. Cardinality(Before(M)) < MaxRegions
  BY <1>2 DEF KeptBorders
<1>9. Cardinality(Before(b)) < MaxRegions
  BY <1>7, <1>8, TracerAssumption DEF TracerAssumption
<1>10. QED
  BY <1>9 DEF Starts, KeptBorders

\* Between two borders the colour does not change.
LEMMA SameColour ==
  ASSUME NEW img, NEW s \in Int, NEW e \in Int,
         minLeft <= s, s < e, e <= maxRight + 1,
         \A b \in Borders(img) : ~(s < b /\ b < e)
  PROVE  \A i \in s .. e - 1 : i \in img <=> s \in img
<1> DEFINE D == {i \in s .. e - 1 : ~(i \in img <=> s \in img)}
<1> SUFFICES ASSUME D # {}
             PROVE  FALSE
  OBVIOUS
<1>1. D \in SUBSET Int /\ \A i \in D : s <= i
  OBVIOUS
<1>2. PICK d \in D : \A i \in D : d <= i
  BY <1>1, LeastInt
<1>3. d \in Int /\ s < d /\ d < e /\ d - 1 \in s .. e - 1
  OBVIOUS
<1>4. d - 1 \notin D
  BY <1>2, <1>3
<1>5. d - 1 \in img <=> s \in img
  BY <1>3, <1>4
<1>6. ~(d \in img <=> d - 1 \in img)
  BY <1>5
<1>7. d \in Borders(img)
  BY <1>3, <1>6, Constants DEF Borders
<1>8. QED
  BY <1>3, <1>7

\* Where a region that is not the last ends.
LEMMA RegionEnd ==
  ASSUME NEW img, NEW s \in Starts(img), s # Max(Starts(img))
  PROVE  LET e == RegionFrom(img, s).right
         IN /\ e \in Borders(img) /\ s < e
            /\ \A b \in Borders(img) : ~(s < b /\ b < e)
<1> DEFINE After == {t \in Starts(img) : t > s}
           e == Min(After)
<1>1. RegionFrom(img, s).right = e
  BY DEF RegionFrom
<1>2. Max(Starts(img)) \in After
  BY LastStart, StartsBounded
<1>3. After \in SUBSET Int /\ \A t \in After : minLeft <= t
  BY StartsBounded
<1>4. e \in After /\ \A t \in After : e <= t
  <2> HIDE DEF After
  <2>1. QED
    BY <1>2, <1>3, MinIsLeast, Constants
<1>5. e \in Int /\ s \in Int /\ s < e /\ minLeft <= s /\ e \in Starts(img)
  BY <1>4, StartsBounded
<1>6. e \in Borders(img)
  BY <1>5, Constants DEF Starts, KeptBorders
<1>7. ASSUME NEW b \in Borders(img), s < b, b < e
      PROVE  FALSE
  <2>1. b \in Int /\ Max(Starts(img)) \in Int
    BY LastStart, StartsBounded, Constants DEF Borders
  <2>2. e <= Max(Starts(img))
    BY <1>5, LastStart
  <2>3. b \in Starts(img)
    BY <1>5, <1>7, <2>1, <2>2, KeptIsPrefix
  <2>4. b \in After
    BY <1>7, <2>3
  <2>5. QED
    BY <1>4, <1>5, <1>7, <2>1, <2>4
<1>8. QED
  BY <1>1, <1>5, <1>6, <1>7

\* A white region that is neither the first nor the last is a lane.
LEMMA RegionIsLane ==
  ASSUME NEW img, NEW s \in Starts(img) \ img,
         s # minLeft, s # Max(Starts(img))
  PROVE  RegionFrom(img, s) \in Lanes(img)
<1> DEFINE r == RegionFrom(img, s)
           e == r.right
<1>1. e \in Borders(img) /\ s < e /\ \A b \in Borders(img) : ~(s < b /\ b < e)
  BY RegionEnd
<1>2. /\ s \in Int /\ e \in Int /\ minLeft + 1 <= s /\ s <= maxRight
      /\ minLeft + 1 <= e /\ e <= maxRight
  BY <1>1, StartsBounded, Constants DEF Borders
<1>3. s - 1 \in img
  BY DEF Starts, KeptBorders, Borders
<1>4. \A i \in s .. e - 1 : i \notin img
  <2> HIDE DEF e
  <2>1. QED
    BY <1>1, <1>2, SameColour, Constants
<1>5. e \in img
  <2>1. e - 1 \in s .. e - 1
    BY <1>1, <1>2
  <2>2. QED
    BY <1>1, <1>4, <2>1 DEF Borders
<1>6. r = [left |-> s, right |-> e]
  BY DEF RegionFrom
<1> HIDE DEF r, e
<1>7. s \in minLeft + 1 .. maxRight /\ e \in minLeft .. maxRight
  BY <1>2, Constants
<1>8. [left |-> s, right |-> e] \in Lanes(img)
  BY <1>1, <1>3, <1>4, <1>5, <1>7 DEF Lanes
<1>9. QED
  BY <1>6, <1>8 DEF r

\* A lane that ends before the last region is one of the white regions.
LEMMA LaneIsRegion ==
  ASSUME NEW img, NEW r \in Lanes(img), r.right <= Max(Starts(img))
  PROVE  r \in Whites(img)
<1> DEFINE s == r.left
           M == Max(Starts(img))
           e == RegionFrom(img, s).right
<1>1. /\ s \in minLeft + 1 .. maxRight /\ r.right \in minLeft .. maxRight
      /\ s < r.right /\ s - 1 \in img /\ r.right \in img
      /\ \A i \in s .. r.right - 1 : i \notin img
      /\ r = [left |-> s, right |-> r.right]
  BY DEF Lanes
<1>2. M \in Int /\ s \in Int /\ r.right \in Int /\ r.right <= M
  BY <1>1, LastStart, StartsBounded, Constants
<1>3. s \notin img /\ r.right - 1 \notin img
  <2>1. s \in s .. r.right - 1 /\ r.right - 1 \in s .. r.right - 1
    BY <1>1, <1>2
  <2>2. QED
    BY <1>1, <2>1
<1>4. s \in Borders(img) /\ r.right \in Borders(img)
  <2>1. r.right \in minLeft + 1 .. maxRight
    BY <1>1, <1>2, Constants
  <2>2. QED
    BY <1>1, <1>3, <2>1 DEF Borders
<1>5. s < M
  BY <1>1, <1>2
<1>6. s \in Starts(img)
  BY <1>2, <1>4, <1>5, KeptIsPrefix
<1>7. e \in Borders(img) /\ s < e /\ \A b \in Borders(img) : ~(s < b /\ b < e)
  <2>1. s # Max(Starts(img))
    BY <1>2, <1>5
  <2>2. QED
    BY <1>6, <2>1, RegionEnd
<1>8. e \in Int
  BY <1>7, Constants DEF Borders
<1>9. e <= r.right
  BY <1>1, <1>4, <1>7, <1>8, <1>2
<1>10. ~(e < r.right)
  <2>1. SUFFICES ASSUME e < r.right
                 PROVE  FALSE
    OBVIOUS
  <2>2. e \in s .. r.right - 1 /\ e - 1 \in s .. r.right - 1
    BY <2>1, <1>2, <1>7, <1>8
  <2>3. QED
    BY <2>2, <1>1, <1>7 DEF Borders
<1>11. e = r.right
  BY <1>2, <1>8, <1>9, <1>10
<1>12. RegionFrom(img, s) = [left |-> s, right |-> e]
  BY <1>1, <1>2, Constants DEF RegionFrom
<1>13. QED
  BY <1>1, <1>3, <1>6, <1>11, <1>12 DEF Whites

\* With no white region the whole line is one black one, whose centre is not
\* to the left of the empty region the search began with.
LEMMA LeftLineMeansWhite ==
  ASSUME NEW img, HasLeftLine(img)
  PROVE  Whites(img) # {}
<1> SUFFICES ASSUME Whites(img) = {}
             PROVE  FALSE
  OBVIOUS
<1>1. Starts(img) \subseteq img
  BY DEF Whites
<1>2. Max(Starts(img)) = minLeft
  <2> SUFFICES ASSUME Max(Starts(img)) # minLeft
               PROVE  FALSE
    OBVIOUS
  <2> DEFINE e == RegionFrom(img, minLeft).right
  <2>1. minLeft \in Starts(img)
    BY StartsBounded
  <2>2. /\ e \in Borders(img) /\ minLeft < e
        /\ \A b \in Borders(img) : ~(minLeft < b /\ b < e)
    BY <2>1, RegionEnd
  <2>3. e \in Int /\ e <= maxRight /\ minLeft \in Int
    BY <2>2, Constants DEF Borders
  <2>4. \A i \in minLeft .. e - 1 : i \in img
    <3> HIDE DEF e
    <3>1. QED
      BY <1>1, <2>1, <2>2, <2>3, SameColour, Constants
  <2>5. e \notin img
    <3>1. e - 1 \in minLeft .. e - 1
      BY <2>2, <2>3
    <3>2. QED
      BY <2>2, <2>4, <3>1 DEF Borders
  <2>6. e \in Starts(img)
    <3>1. /\ Max(Starts(img)) \in Starts(img) /\ Max(Starts(img)) \in Int
          /\ minLeft <= Max(Starts(img))
      BY LastStart, StartsBounded
    <3>2. Max(Starts(img)) \in Borders(img)
      BY <3>1 DEF Starts, KeptBorders
    <3>3. e <= Max(Starts(img))
      BY <2>2, <2>3, <3>1, <3>2
    <3>4. QED
      BY <2>2, <3>3, KeptIsPrefix
  <2>7. QED
    BY <1>1, <2>5, <2>6
<1>3. Starts(img) = {minLeft}
  <2>1. \A s \in Starts(img) : s = minLeft
    BY <1>2, LastStart, StartsBounded, Constants
  <2>2. QED
    BY <2>1, StartsBounded
<1>4. RegionFrom(img, minLeft) = [left |-> 0, right |-> LineLength - 1]
  BY <1>2 DEF RegionFrom
<1>5. BiggestWhite(img).left = minLeft
  BY DEF BiggestWhite
<1>6. PICK s \in Starts(img) : Center(RegionFrom(img, s)) < minLeft
  BY <1>5 DEF HasLeftLine, Blacks
<1>7. (LineLength - 1 + 0) \div 2 < minLeft
  BY <1>3, <1>4, <1>6 DEF Center
<1>8. QED
  BY <1>7, TracerAssumption DEF TracerAssumption, minLeft, maxRight

\* With a black region on both sides, what the search stores is the widest
\* of the lanes it can see.
LEMMA SearchFindsWidest ==
  ASSUME NEW img, HasLeftLine(img), HasRightLine(img)
  PROVE  /\ SearchedRegion(img) \in Lanes(img)
         /\ \A r \in Lanes(img) : r.right <= Max(Starts(img))
              => Size(r) <= Size(SearchedRegion(img))
<1> DEFINE B == BiggestWhite(img)
           OnLine == [left : 0 .. LineLength - 1, right : 0 .. LineLength - 1]
<1>1. /\ B \in Whites(img)
      /\ \A q \in Whites(img) : Size(q) <= Size(B)
  BY LeftLineMeansWhite, BiggestWhiteIsWidest
<1>2. PICK s \in Starts(img) \ img : B = RegionFrom(img, s)
  BY <1>1 DEF Whites
<1>3. \A q \in Blacks(img) : Center(q) \in 0 .. LineLength - 1
  <2>1. Blacks(img) \subseteq OnLine
    BY RegionFromOnLine DEF Blacks
  <2>2. QED
    BY <2>1, Constants DEF Center
<1>4. s # minLeft
  <2>1. SUFFICES ASSUME s = minLeft
                 PROVE  FALSE
    OBVIOUS
  <2>2. B.left = 0
    BY <1>2, <2>1 DEF RegionFrom
  <2>3. QED
    BY <1>3, <2>2, Constants DEF HasLeftLine
<1>5. s # Max(Starts(img))
  <2>1. SUFFICES ASSUME s = Max(Starts(img))
                 PROVE  FALSE
    OBVIOUS
  <2>2. B.right = LineLength - 1
    BY <1>2, <2>1 DEF RegionFrom
  <2>3. QED
    BY <1>3, <2>2, Constants DEF HasRightLine
<1>6. B \in Lanes(img)
  BY <1>2, <1>4, <1>5, RegionIsLane
<1>7. SearchedRegion(img) = B
  <2>1. SearchedRegion(img) = Clamped(B)
    BY DEF SearchedRegion
  <2> HIDE DEF B
  <2>2. /\ B = [left |-> B.left, right |-> B.right]
        /\ B.left \in minLeft .. maxRight /\ B.right \in minLeft .. maxRight
    BY <1>6, Constants DEF Lanes
  <2>3. QED
    BY <2>1, <2>2, Constants DEF Clamped
<1>8. QED
  BY <1>1, <1>6, <1>7, LaneIsRegion

-----------------------------------------------------------------------------
(* What the tracer's proofs say holds with the camera's lines as its       *)
(* images.                                                                 *)

\* Each update gives the tracer one of its images.
LEMMA CameraSteps ==
  /\ CInit => HInit
  /\ \A raw \in RawLines :
       CUpdate(raw) => Seen[raw] \in Images /\ HAddImage(Seen[raw])
  /\ CReset => HReset
  /\ [CNext]_cvars => [Next]_vars
<1>1. CInit => HInit
  BY DEF CInit, TInit
<1>2. ASSUME NEW raw \in RawLines, CUpdate(raw)
      PROVE  Seen[raw] \in Images /\ HAddImage(Seen[raw])
  BY <1>2, CameraAssumption DEF CUpdate, TAddImage
<1>3. CReset => HReset
  BY DEF CReset, TReset
<1>4. [CNext]_cvars => [Next]_vars
  <2>1. ASSUME NEW raw \in RawLines, CUpdate(raw)
        PROVE  Next
    BY <1>2, <2>1 DEF Next, HAddImage
  <2>2. CReset => Next
    BY <1>3 DEF HReset, Next
  <2>3. UNCHANGED cvars => UNCHANGED vars
    BY DEF cvars, tvars, hvars
  <2>4. QED
    BY <2>1, <2>2, <2>3 DEF CNext
<1>5. QED
  BY <1>1, <1>2, <1>3, <1>4

\* Making room for a region leaves the last one.
LEMMA KeptLast ==
  ASSUME imageRegionList \in Seq(Inside), imageRegionList # <<>>
  PROVE  Kept # <<>> /\ Last(Kept) = Found
<1>1. CASE Len(imageRegionList) > ListSize
  <2>1. Len(imageRegionList) > 1
    BY <1>1, TracerAssumption DEF TracerAssumption
  <2>2. /\ Tail(imageRegionList) # <<>>
        /\ Last(Tail(imageRegionList)) = Last(imageRegionList)
    <3>1. /\ Len(Tail(imageRegionList)) = Len(imageRegionList) - 1
          /\ Len(imageRegionList) \in Nat
          /\ Tail(imageRegionList) \in Seq(Inside)
      BY <2>1
    <3>2. /\ Len(imageRegionList) - 1 # 0
          /\ Len(imageRegionList) - 1 + 1 = Len(imageRegionList)
          /\ Len(imageRegionList) - 1 \in 1 .. Len(imageRegionList) - 1
      <4>1. \A n \in Nat : n > 1 => /\ n - 1 # 0 /\ n - 1 + 1 = n
                                    /\ n - 1 \in 1 .. n - 1
        OBVIOUS
      <4>2. QED
        BY <2>1, <3>1, <4>1
    <3>3. Tail(imageRegionList)[Len(imageRegionList) - 1]
            = imageRegionList[Len(imageRegionList)]
      BY <3>2
    <3>4. Tail(imageRegionList) # <<>>
      BY <3>1, <3>2
    <3>5. QED
      BY <3>1, <3>3, <3>4 DEF Last
  <2>3. QED
    BY <1>1, <2>2 DEF Kept, Found
<1>2. CASE ~(Len(imageRegionList) > ListSize)
  BY <1>2 DEF Kept, Found
<1>3. QED
  BY <1>1, <1>2

\* What a search that found both lines stored; and after an image the list
\* is not empty.
FoundInv ==
  /\ TypeInv
  /\ repeats > 0 => imageRegionList # <<>>
  /\ repeats > 0 /\ ~followed /\ ~computedRegion
       => /\ HasLeftLine(image) /\ HasRightLine(image)
          /\ Found = SearchedRegion(image)

\* Each image adds a region; following the edges computes none.
LEMMA FoundInvHolds == CSpec => []FoundInv
<1>1. CInit => FoundInv
  BY CameraSteps, TypeInvInit DEF HInit, FoundInv
<1>2. FoundInv /\ [CNext]_cvars => FoundInv'
  <2> SUFFICES ASSUME FoundInv, [CNext]_cvars
               PROVE  FoundInv'
    OBVIOUS
  <2>1. TypeInv'
    BY CameraSteps, TypeInvNext DEF FoundInv
  <2>2. ASSUME NEW img \in Images, HAddImage(img)
        PROVE  FoundInv'
    <3>1. Kept \in Seq(Inside)
      BY KeptTyped DEF FoundInv, TypeInv
    <3>2. ASSUME NEW r \in Inside
          PROVE  Append(Kept, r) # <<>> /\ Last(Append(Kept, r)) = r
      BY <3>1 DEF Last
    <3>3. image' = img /\ followed' = CanFollow(img)
      BY <2>2 DEF HAddImage
    <3>4. CASE Follow(img)
      <4>1. followed'
        BY <3>3, <3>4 DEF Follow
      <4>2. Last(Kept) \in Inside
        BY <3>1, <3>4 DEF Follow, CanFollow, Last
      <4>3. FollowedRegion(img, Last(Kept)) \in Inside
        BY <3>4, <4>2, FollowedInside DEF Follow, CanFollow
      <4>4. imageRegionList' # <<>>
        BY <3>2, <3>4, <4>3 DEF Follow
      <4>5. QED
        BY <2>1, <4>1, <4>4 DEF FoundInv
    <3>5. CASE Search(img)
      <4>1. Searched[img] = [region |-> SearchedRegion(img),
                             left   |-> HasLeftLine(img),
                             right  |-> HasRightLine(img)]
        BY DEF Searched
      <4>2. imageRegionList' = Append(Kept, SearchedRegion(img))
        BY <3>5, <4>1 DEF Search
      <4>3. computedRegion' = ~(HasLeftLine(img) /\ HasRightLine(img))
        BY <3>5, <4>1 DEF Search
      <4>4. imageRegionList' # <<>> /\ Found' = SearchedRegion(img)
        BY <3>2, <4>2, SearchedInside DEF Found, Last
      <4>5. QED
        BY <2>1, <3>3, <4>3, <4>4 DEF FoundInv
    <3>6. QED
      BY <2>2, <3>4, <3>5 DEF HAddImage, AddImage
  <2>3. CASE CReset
    BY <2>1, <2>3, CameraSteps DEF HReset, FoundInv
  <2>4. CASE UNCHANGED cvars
    BY <2>1, <2>4 DEF FoundInv, Found, cvars, tvars, hvars, vars
  <2>5. QED
    BY <2>2, <2>3, <2>4, CameraSteps DEF CNext
<1>3. QED
  BY <1>1, <1>2, PTL DEF CSpec

\* Whatever the lines: a region that was searched and not computed is the
\* widest lane between two black lines, as far as the search looks.
THEOREM SearchedWidestHolds == CSpec => []SearchedWidest
<1>1. FoundInv => SearchedWidest
  BY SearchFindsWidest DEF FoundInv, SearchedWidest
<1>2. QED
  BY <1>1, FoundInvHolds, PTL

\* The regions the tracer keeps are inside the line, with the camera too.
THEOREM CameraTypeCorrect == CSpec => []TypeOK
<1>1. FoundInv => TypeOK
  BY DEF FoundInv, TypeInv
<1>2. QED
  BY <1>1, FoundInvHolds, PTL

-----------------------------------------------------------------------------
(* The radius of the search for an edge.                                   *)

\* The alternating steps look at every offset within the radius, and no
\* other.
LEMMA OffsetsCoverRadius ==
  /\ \A k \in Steps : Offset(k) \in 1 - SearchRegion .. SearchRegion - 1
  /\ \A d \in 1 - SearchRegion .. SearchRegion - 1 :
       \E k \in Steps : Offset(k) = d
<1>1. SearchRegion \in Int
  BY Constants
<1>2. ASSUME NEW k \in Steps
      PROVE  Offset(k) \in 1 - SearchRegion .. SearchRegion - 1
  BY <1>1, Constants DEF Steps, LastStep, Offset
<1>3. ASSUME NEW d \in 1 - SearchRegion .. SearchRegion - 1
      PROVE  \E k \in Steps : Offset(k) = d
  <2>1. CASE d <= 0
    <3>1. -2 * d \in Steps
      BY <1>1, <2>1 DEF Steps, LastStep
    <3>2. Offset(-2 * d) = d
      BY <1>1, <2>1 DEF Offset
    <3>3. QED
      BY <3>1, <3>2
  <2>2. CASE d > 0
    <3>1. 2 * d - 1 \in Steps
      BY <1>1, <2>2 DEF Steps, LastStep
    <3>2. Offset(2 * d - 1) = d
      BY <1>1, <2>2 DEF Offset
    <3>3. QED
      BY <3>1, <3>2
  <2>3. QED
    BY <1>1, <2>1, <2>2
<1>4. QED
  BY <1>2, <1>3

\* Away from the border of the image, edges within the radius are followed.
LEMMA RadiusFollowed ==
  ASSUME NEW img, NEW p,
         \A d \in 1 - SearchRegion .. SearchRegion - 1 :
           InBounds(p.left + d) /\ InBounds(p.right + d),
         \E d \in 1 - SearchRegion .. SearchRegion - 1 :
           LeftEdge(img, p.left + d),
         \E d \in 1 - SearchRegion .. SearchRegion - 1 :
           RightEdge(img, p.right + d)
  PROVE  Followed(img, p)
<1>1. PICK l \in Steps : LeftEdge(img, p.left + Offset(l))
  BY OffsetsCoverRadius
<1>2. PICK r \in Steps : RightEdge(img, p.right + Offset(r))
  BY OffsetsCoverRadius
<1>3. l \in LeftHits(img, p) /\ r \in RightHits(img, p)
  BY <1>1, <1>2 DEF LeftHits, RightHits
<1>4. LastStep \in Steps /\ l <= LastStep /\ r <= LastStep
  BY Constants DEF Steps, LastStep
<1>5. Reached(img, p, LastStep)
  BY OffsetsCoverRadius DEF Reached, Steps
<1>6. LastStep \in Completed(img, p)
  BY <1>3, <1>4, <1>5 DEF Completed
<1>7. QED
  BY <1>6 DEF Followed

\* Edges that moved by less than PREV_LINE_SEARCH_REGION, each its own way,
\* are followed, when neither search can meet the border of the image.
THEOREM RadiusSearchedHolds == CSpec => RadiusSearched
<1>1. FoundInv /\ [CNext]_cvars => [MovedWithinRadius => followed']_hvars
  <2> SUFFICES ASSUME FoundInv, [CNext]_cvars, MovedWithinRadius
               PROVE  followed' \/ UNCHANGED hvars
    OBVIOUS
  <2>1. ASSUME NEW img \in Images, HAddImage(img)
        PROVE  followed'
    <3>1. imageRegionList \in Seq(Inside) /\ imageRegionList # <<>>
      BY DEF FoundInv, TypeInv, MovedWithinRadius
    <3>2. Kept # <<>> /\ Last(Kept) = Found
      BY <3>1, KeptLast
    <3>3. image' = img /\ followed' = CanFollow(img)
      BY <2>1 DEF HAddImage
    <3>4. Followed(img, Found)
      BY <3>3, RadiusFollowed DEF MovedWithinRadius
    <3>5. QED
      BY <3>2, <3>3, <3>4 DEF CanFollow
  <2>2. ~CReset
    BY CameraSteps DEF HReset, MovedWithinRadius
  <2>3. QED
    BY <2>1, <2>2, CameraSteps DEF CNext, cvars, tvars
<1>2. QED
  BY <1>1, FoundInvHolds, PTL DEF CSpec, RadiusSearched

-----------------------------------------------------------------------------
(* A standing car's view.  The same image takes a region to the next one;  *)
(* what is followed properly stays, the whole line is never followed, and  *)
(* what is searched is followed properly or too late or not at all.        *)

NextRegion(img, r) ==
  IF Followed(img, r) THEN FollowedRegion(img, r) ELSE SearchedRegion(img)

Stays(img, r) == NextRegion(img, r) = r

\* Step 0 looks at the last bounds themselves, and is not the last one.
LEMMA FirstStep == 0 \in Steps /\ Offset(0) = 0 /\ LastStep # 0
<1>1. Offset(0) = 0
  <2>1. ASSUME NEW k \in Int, -1 < k, k < 1
        PROVE  Offset(k) = 0
    BY <2>1 DEF Offset
  <2>2. QED
    BY <2>1
<1>2. SearchRegion \in Nat /\ SearchRegion # 0 /\ SearchRegion # 1
  BY TracerAssumption DEF TracerAssumption
<1>3. QED
  BY <1>1, <1>2 DEF Steps, LastStep

\* The least element of a set that has one up to k.
LEMMA LeastUpTo ==
  ASSUME NEW T \in SUBSET Nat, NEW k \in Nat, NEW i \in T, i <= k
  PROVE  /\ Min(T) \in T /\ Min(T) \in 0 .. k
         /\ ~\E j \in T : j < Min(T)
<1>1. Min(T) \in T /\ \A j \in T : Min(T) <= j
  BY MinIsLeast, 0 \in Int
<1>2. Min(T) \in Nat /\ Min(T) <= i /\ i \in Nat
  BY <1>1
<1>3. QED
  BY <1>1, <1>2

\* The step at which the edges are both known is the first of several.
LEMMA CompletedFirst ==
  ASSUME NEW img, NEW r, Followed(img, r)
  PROVE  /\ Min(Completed(img, r)) \in Completed(img, r)
         /\ \A k \in Completed(img, r) : Min(Completed(img, r)) <= k
<1>1. Completed(img, r) # {}
  BY DEF Followed
<1>2. Completed(img, r) \subseteq Steps
  BY DEF Completed
<1>3. Completed(img, r) \in SUBSET Int /\ \A k \in Completed(img, r) : 0 <= k
  <2>1. \A k \in Steps : k \in Nat
    BY StepsAreNat
  <2>2. \A k \in Completed(img, r) : k \in Nat
    BY <1>2, <2>1
  <2>3. QED
    BY <2>2
<1>4. QED
  BY <1>1, <1>3, MinIsLeast, 0 \in Int

\* A region both of whose bounds are edges is found again at once.
LEMMA EdgesStay ==
  ASSUME NEW img, NEW l \in Int, NEW r \in Int,
         LeftEdge(img, l), RightEdge(img, r), InBounds(l), InBounds(r)
  PROVE  Stays(img, [left |-> l, right |-> r])
<1> DEFINE p == [left |-> l, right |-> r]
           LH == LeftHits(img, p)
           RH == RightHits(img, p)
           C == Completed(img, p)
<1>1. 0 \in Steps /\ Offset(0) = 0 /\ LastStep # 0
  BY FirstStep
<1>2. p.left + Offset(0) = l /\ p.right + Offset(0) = r
  BY <1>1
<1>3. 0 \in LH /\ 0 \in RH
  BY <1>1, <1>2 DEF LeftHits, RightHits
<1>4. Reached(img, p, 0)
  <2>1. \A j \in 0 .. 0 : j = 0
    OBVIOUS
  <2>2. QED
    BY <1>2, <2>1 DEF Reached
<1>5. 0 \in C
  BY <1>1, <1>3, <1>4 DEF Completed
<1>6. ASSUME NEW T \in SUBSET Steps, 0 \in T
      PROVE  Min(T) = 0
  <2>1. T \in SUBSET Nat /\ 0 \in Nat /\ 0 <= 0
    BY StepsAreNat
  <2>2. Min(T) \in 0 .. 0
    BY <1>6, <2>1, LeastUpTo
  <2>3. QED
    BY <2>2
<1>7. Min(C) = 0 /\ Min(LH) = 0 /\ Min(RH) = 0
  <2>1. C \in SUBSET Steps /\ LH \in SUBSET Steps /\ RH \in SUBSET Steps
    BY DEF Completed, LeftHits, RightHits
  <2> HIDE DEF C, LH, RH
  <2>2. QED
    BY <1>3, <1>5, <1>6, <2>1
<1>8. Followed(img, p)
  BY <1>5 DEF Followed
<1>9. FollowedRegion(img, p) = [left |-> l, right |-> r]
  BY <1>1, <1>2, <1>7 DEF FollowedRegion
<1>10. QED
  BY <1>8, <1>9 DEF Stays, NextRegion

\* Both bounds of what is followed in time are edges.
LEMMA FollowedEdges ==
  ASSUME NEW img, NEW p \in Inside, Followed(img, p),
         Min(Completed(img, p)) # LastStep
  PROVE  \E l, r \in Int :
           /\ FollowedRegion(img, p) = [left |-> l, right |-> r]
           /\ LeftEdge(img, l) /\ RightEdge(img, r)
           /\ InBounds(l) /\ InBounds(r)
<1> DEFINE LH == LeftHits(img, p)
           RH == RightHits(img, p)
           k == Min(Completed(img, p))
           l == p.left + Offset(Min(LH))
           r == p.right + Offset(Min(RH))
<1>1. k \in Completed(img, p)
  BY CompletedFirst
<1>2. LH \in SUBSET Nat /\ RH \in SUBSET Nat
  BY StepsAreNat DEF LeftHits, RightHits
<1>3. k \in Nat /\ Reached(img, p, k)
      /\ (\E i \in LH : i <= k) /\ (\E i \in RH : i <= k)
  BY <1>1, StepsAreNat DEF Completed
<1>4. /\ Min(LH) \in LH /\ Min(LH) \in 0 .. k /\ ~\E i \in LH : i < Min(LH)
      /\ Min(RH) \in RH /\ Min(RH) \in 0 .. k /\ ~\E i \in RH : i < Min(RH)
  <2> HIDE DEF LH, RH, k
  <2>1. QED
    BY <1>2, <1>3, LeastUpTo
<1>5. LeftEdge(img, l) /\ RightEdge(img, r)
  BY <1>4 DEF LeftHits, RightHits
<1>6. InBounds(l) /\ InBounds(r)
  BY <1>3, <1>4 DEF Reached
<1>7. l \in Int /\ r \in Int
  <2>1. p.left \in Int /\ p.right \in Int
    BY Constants DEF Inside, InsideLine
  <2>2. Offset(Min(LH)) \in Int /\ Offset(Min(RH)) \in Int
    BY <1>4, StepsAreNat DEF LeftHits, RightHits
  <2>3. QED
    BY <2>1, <2>2
<1>8. FollowedRegion(img, p) = [left |-> l, right |-> r]
  BY DEF FollowedRegion
<1> HIDE DEF l, r
<1>9. QED
  BY <1>5, <1>6, <1>7, <1>8

\* What is followed in time stays.
LEMMA FollowedStays ==
  ASSUME NEW img, NEW p \in Inside, Followed(img, p),
         Min(Completed(img, p)) # LastStep
  PROVE  Stays(img, FollowedRegion(img, p))
BY FollowedEdges, EdgesStay

\* Following from the whole line ends at its first index.
LEMMA WholeNotFollowed ==
  ASSUME NEW img
  PROVE  ~Followed(img, WholeRegion)
<1> SUFFICES ASSUME NEW k \in Completed(img, WholeRegion)
             PROVE  FALSE
  BY DEF Followed
<1>1. k \in Nat /\ Reached(img, WholeRegion, k)
  BY StepsAreNat DEF Completed
<1>2. 0 \in 0 .. k /\ Offset(0) = 0
  BY <1>1, FirstStep
<1>3. \/ InBounds(WholeRegion.left + Offset(0))
      \/ \E i \in LeftHits(img, WholeRegion) : i < 0
  BY <1>1, <1>2 DEF Reached
<1>4. ~\E i \in LeftHits(img, WholeRegion) : i < 0
  BY StepsAreNat DEF LeftHits
<1>5. WholeRegion.left + Offset(0) = BlackCount
  BY <1>2, Constants DEF WholeRegion, minLeft
<1>6. ~InBounds(BlackCount)
  BY Constants DEF InBounds
<1>7. QED
  BY <1>3, <1>4, <1>5, <1>6

\* What following stores: two edges of the image, or the whole line.
FollowedInv ==
  repeats > 0 /\ followed
    => \/ LeftEdge(image, Found.left) /\ RightEdge(image, Found.right)
       \/ Found = WholeRegion

\* The true part of what the header says of findByPreviousIndex: the region
\* followed has both bounds on edges of the image, and there is no other
\* exception than the whole line.  (FollowedIsFound leaves it out.)
THEOREM FollowedOrWhole == CSpec => []FollowedInv
<1>1. CInit => FollowedInv
  BY CameraSteps DEF HInit, FollowedInv
<1>2. FoundInv /\ FollowedInv /\ [CNext]_cvars => FollowedInv'
  <2> SUFFICES ASSUME FoundInv, FollowedInv, [CNext]_cvars
               PROVE  FollowedInv'
    OBVIOUS
  <2>1. ASSUME NEW img \in Images, HAddImage(img)
        PROVE  FollowedInv'
    <3> DEFINE p == Last(Kept)
    <3>1. image' = img /\ followed' = CanFollow(img) /\ Kept \in Seq(Inside)
      BY <2>1, KeptTyped DEF HAddImage, FoundInv, TypeInv
    <3>2. SUFFICES ASSUME CanFollow(img)
                   PROVE  FollowedInv'
      BY <3>1 DEF FollowedInv
    <3>3. p \in Inside /\ Followed(img, p)
      BY <3>1, <3>2 DEF CanFollow, Last
    <3>4. imageRegionList' = Append(Kept, FollowedRegion(img, p))
      BY <2>1, <3>2 DEF HAddImage, AddImage, Follow, Search
    <3> HIDE DEF p
    <3>5. Found' = FollowedRegion(img, p)
      BY <3>1, <3>4 DEF Found, Last
    <3>6. CASE Min(Completed(img, p)) = LastStep
      BY <3>5, <3>6 DEF FollowedRegion, FollowedInv
    <3>7. CASE Min(Completed(img, p)) # LastStep
      <4>1. PICK l, r \in Int :
              /\ FollowedRegion(img, p) = [left |-> l, right |-> r]
              /\ LeftEdge(img, l) /\ RightEdge(img, r)
        BY <3>3, <3>7, FollowedEdges
      <4>2. Found'.left = l /\ Found'.right = r
        BY <3>5, <4>1
      <4>3. LeftEdge(image', Found'.left) /\ RightEdge(image', Found'.right)
        BY <3>1, <4>1, <4>2
      <4>4. QED
        BY <4>3 DEF FollowedInv
    <3>8. QED
      BY <3>6, <3>7
  <2>2. CASE CReset
    BY <2>2, CameraSteps DEF HReset, FollowedInv
  <2>3. CASE UNCHANGED cvars
    BY <2>3 DEF FollowedInv, Found, cvars, tvars, hvars, vars
  <2>4. QED
    BY <2>1, <2>2, <2>3, CameraSteps DEF CNext
<1>3. QED
  BY <1>1, <1>2, FoundInvHolds, PTL DEF CSpec

\* Where one image takes a region.
LEMMA RegionSteps ==
  ASSUME NEW img \in Images, NEW r \in Inside
  PROVE  /\ \/ NextRegion(img, r) \in {WholeRegion, SearchedRegion(img)}
            \/ Stays(img, NextRegion(img, r))
         /\ r = WholeRegion => NextRegion(img, r) = SearchedRegion(img)
         /\ r = SearchedRegion(img) =>
              IF FoundTooLate(img) THEN NextRegion(img, r) = WholeRegion
              ELSE Stays(img, NextRegion(img, r))
<1>1. FoundTooLate(img) <=>
        /\ Followed(img, SearchedRegion(img))
        /\ Min(Completed(img, SearchedRegion(img))) = LastStep
  BY DEF FoundTooLate, Searched
<1>2. CASE ~Followed(img, r)
  BY <1>1, <1>2 DEF NextRegion, Stays
<1>3. CASE Followed(img, r) /\ Min(Completed(img, r)) = LastStep
  <2>1. NextRegion(img, r) = WholeRegion
    BY <1>3 DEF NextRegion, FollowedRegion
  <2>2. QED
    BY <1>1, <1>3, <2>1, WholeNotFollowed
<1>4. CASE Followed(img, r) /\ Min(Completed(img, r)) # LastStep
  <2>1. Stays(img, NextRegion(img, r))
    BY <1>4, FollowedStays DEF NextRegion
  <2>2. QED
    BY <1>1, <1>4, <2>1, WholeNotFollowed
<1>5. QED
  BY <1>2, <1>3, <1>4

\* What adding an image does to the end of the list.
LEMMA ListSteps ==
  ASSUME TypeInv, NEW img \in Images, HAddImage(img)
  PROVE  /\ imageRegionList' # <<>>
         /\ Found' \in {WholeRegion, SearchedRegion(img)}
              \/ Stays(img, Found')
         /\ imageRegionList # <<>>
              => /\ Found \in Inside
                 /\ Found' = NextRegion(img, Found)
                 /\ imageRegionList'[Len(imageRegionList') - 1] = Found
         /\ imageRegionList = <<>> => Len(imageRegionList') = 1
<1>1. imageRegionList \in Seq(Inside) /\ Kept \in Seq(Inside)
  BY KeptTyped DEF TypeInv
<1>2. ASSUME NEW r \in Inside
      PROVE  /\ Append(Kept, r) # <<>> /\ Last(Append(Kept, r)) = r
             /\ Kept # <<>> =>
                  Append(Kept, r)[Len(Append(Kept, r)) - 1] = Last(Kept)
             /\ Kept = <<>> => Len(Append(Kept, r)) = 1
  <2>1. /\ Append(Kept, r) \in Seq(Inside) /\ Len(Kept) \in Nat
        /\ Len(Append(Kept, r)) = Len(Kept) + 1
        /\ Append(Kept, r)[Len(Kept) + 1] = r
    BY <1>1
  <2>2. Append(Kept, r) # <<>> /\ Last(Append(Kept, r)) = r
    BY <1>1 DEF Last
  <2>3. ASSUME Kept # <<>>
        PROVE  Append(Kept, r)[Len(Append(Kept, r)) - 1] = Last(Kept)
    <3>1. Len(Kept) \in 1 .. Len(Kept)
      BY <1>1, <2>3
    <3>2. Append(Kept, r)[Len(Kept)] = Kept[Len(Kept)]
      BY <1>1, <3>1
    <3>3. Len(Append(Kept, r)) - 1 = Len(Kept)
      BY <2>1
    <3>4. QED
      BY <3>2, <3>3 DEF Last
  <2>4. Kept = <<>> => Len(Append(Kept, r)) = 1
    BY <2>1
  <2>5. QED
    BY <2>2, <2>3, <2>4
<1>3. PICK r \in Inside :
        /\ imageRegionList' = Append(Kept, r)
        /\ IF Kept # <<>> THEN r = NextRegion(img, Last(Kept))
           ELSE r = SearchedRegion(img)
  <2>1. CASE Follow(img)
    <3>1. Kept # <<>> /\ Followed(img, Last(Kept))
      BY <2>1 DEF Follow, CanFollow
    <3>2. Last(Kept) \in Inside
      BY <1>1, <3>1 DEF Last
    <3>3. FollowedRegion(img, Last(Kept)) \in Inside
      BY <3>1, <3>2, FollowedInside
    <3>4. QED
      BY <2>1, <3>1, <3>3 DEF Follow, NextRegion
  <2>2. CASE Search(img)
    <3>1. imageRegionList' = Append(Kept, SearchedRegion(img))
      BY <2>2 DEF Search, Searched
    <3>2. Kept # <<>> => ~Followed(img, Last(Kept))
      BY <2>2 DEF Search, CanFollow
    <3>3. QED
      BY <3>1, <3>2, SearchedInside DEF NextRegion
  <2>3. QED
    BY <2>1, <2>2 DEF HAddImage, AddImage
<1>4. Found' = r
  BY <1>2, <1>3 DEF Found, Last
<1>5. CASE imageRegionList # <<>>
  <2>1. Kept # <<>> /\ Last(Kept) = Found
    BY <1>1, <1>5, KeptLast
  <2>2. Found \in Inside
    BY <1>1, <1>5 DEF Found, Last
  <2>3. Found' = NextRegion(img, Found)
    BY <1>3, <1>4, <2>1
  <2>4. imageRegionList'[Len(imageRegionList') - 1] = Found
    BY <1>2, <1>3, <2>1
  <2>5. imageRegionList' # <<>>
    BY <1>2, <1>3
  <2>6. Found' \in {WholeRegion, SearchedRegion(img)} \/ Stays(img, Found')
    BY <2>2, <2>3, RegionSteps
  <2>7. QED
    BY <1>5, <2>2, <2>3, <2>4, <2>5, <2>6
<1>6. CASE imageRegionList = <<>>
  <2>1. Kept = <<>>
    BY <1>1, <1>6, TracerAssumption DEF TracerAssumption, Kept
  <2>2. QED
    BY <1>2, <1>3, <1>4, <1>6, <2>1
<1>7. QED
  BY <1>5, <1>6

\* Where the region is after so many copies of the image.
SettleInv ==
  /\ repeats \in Nat
  /\ repeats > 0 =>
       /\ \/ Found \in {WholeRegion, SearchedRegion(image)}
          \/ Stays(image, Found)
       /\ repeats > 1 /\ ~FoundTooLate(image) =>
            Found = SearchedRegion(image) \/ Stays(image, Found)
       /\ repeats > 2 /\ ~FoundTooLate(image) => Stays(image, Found)
  /\ ViewSettles

\* One more copy of the image, or the first copy of another.
LEMMA SettleInvHolds == CSpec => []SettleInv
<1>1. CInit => SettleInv
  BY CameraSteps DEF HInit, SettleInv, ViewSettles, Settled
<1>2. FoundInv /\ SettleInv /\ [CNext]_cvars => SettleInv'
  <2> SUFFICES ASSUME FoundInv, SettleInv, [CNext]_cvars
               PROVE  SettleInv'
    OBVIOUS
  <2>1. ASSUME NEW img \in Images, HAddImage(img)
        PROVE  SettleInv'
    <3> DEFINE S == SearchedRegion(img)
               late == FoundTooLate(img)
    <3>1. image' = img /\ repeats' \in Nat \ {0}
      BY <2>1 DEF HAddImage, SettleInv
    <3>2. \/ Found' \in {WholeRegion, S}
          \/ Stays(img, Found')
      BY <2>1, ListSteps DEF FoundInv
    <3>3. CASE repeats' = 1
      BY <3>1, <3>2, <3>3 DEF SettleInv, ViewSettles, Settled
    <3>4. CASE repeats' # 1
      <4>1. /\ repeats > 0 /\ image = img
            /\ repeats' > 2 => repeats > 1
            /\ repeats' > 3 => repeats > 2
        BY <2>1, <3>4, TracerAssumption
           DEF HAddImage, SettleInv, MaxRepeats, Settled, TracerAssumption
      <4>2. /\ Found \in Inside
            /\ Found' = NextRegion(img, Found)
            /\ imageRegionList'[Len(imageRegionList') - 1] = Found
        BY <2>1, <4>1, ListSteps DEF FoundInv
      <4>3. /\ Stays(img, Found) => Found' = Found
            /\ Found = WholeRegion => Found' = S
            /\ Found = S => IF late THEN Found' = WholeRegion
                            ELSE Stays(img, Found')
        BY <4>2, RegionSteps DEF Stays
      <4>4. /\ Found \in {WholeRegion, S} \/ Stays(img, Found)
            /\ repeats > 1 /\ ~late => Found = S \/ Stays(img, Found)
            /\ repeats > 2 /\ ~late => Stays(img, Found)
        BY <4>1 DEF SettleInv
      <4>5. ~late => Found' = S \/ Stays(img, Found')
        BY <4>3, <4>4
      <4>6. repeats' > 2 /\ ~late => Stays(img, Found')
        BY <4>1, <4>3, <4>4
      <4>7. repeats' > 3 /\ ~late => Found' = Found
        BY <4>1, <4>3, <4>4
      <4>8. late => \/ Found' = Found
                    \/ {Found', Found} = {WholeRegion, S}
        BY <4>3, <4>4
      <4>9. ViewSettles'
        <5>1. (Searched[image].region)' = S
          BY <3>1 DEF Searched
        <5>2. FoundTooLate(image)' = late
          BY <3>1 DEF FoundTooLate
        <5>3. QED
          BY <4>2, <4>7, <4>8, <5>1, <5>2 DEF ViewSettles, Settled
      <4>10. QED
        BY <3>1, <3>2, <4>5, <4>6, <4>9 DEF SettleInv
    <3>5. QED
      BY <3>3, <3>4
  <2>2. CASE CReset
    BY <2>2, CameraSteps DEF HReset, SettleInv, ViewSettles, Settled
  <2>3. CASE UNCHANGED cvars
    BY <2>3 DEF SettleInv, ViewSettles, Found, cvars, tvars, hvars, vars
  <2>4. QED
    BY <2>1, <2>2, <2>3, CameraSteps DEF CNext
<1>3. QED
  BY <1>1, <1>2, FoundInvHolds, PTL DEF CSpec

\* For every radius and every way an image can look: a standing car's view
\* settles, but for a search that is found too late.
THEOREM ViewSettlesHolds == CSpec => []ViewSettles
<1>1. SettleInv => ViewSettles
  BY DEF SettleInv
<1>2. QED
  BY <1>1, SettleInvHolds, PTL

-----------------------------------------------------------------------------
(* The average of a list that has settled.                                 *)

\* Of the list as it was, at most the first region goes.
LEMMA KeptShifted ==
  ASSUME imageRegionList \in Seq(Inside)
  PROVE  \E d \in 0 .. 1 :
           /\ Len(imageRegionList) = Len(Kept) + d
           /\ \A i \in 1 .. Len(Kept) : Kept[i] = imageRegionList[i + d]
<1>1. CASE Len(imageRegionList) > ListSize
  <2>1. imageRegionList # <<>>
    BY <1>1, TracerAssumption DEF TracerAssumption
  <2>2. /\ Len(Tail(imageRegionList)) = Len(imageRegionList) - 1
        /\ Len(imageRegionList) \in Nat
    BY <2>1
  <2>3. \A i \in 1 .. Len(Tail(imageRegionList)) :
          Tail(imageRegionList)[i] = imageRegionList[i + 1]
    BY <2>1
  <2>4. Len(imageRegionList) = Len(Tail(imageRegionList)) + 1
    BY <2>2
  <2>5. QED
    BY <1>1, <2>3, <2>4 DEF Kept
<1>2. CASE ~(Len(imageRegionList) > ListSize)
  <2>1. Kept = imageRegionList
    BY <1>2 DEF Kept
  <2>2. Len(imageRegionList) = Len(Kept) + 0
    BY <2>1
  <2>3. \A i \in 1 .. Len(Kept) : i + 0 = i
    OBVIOUS
  <2>4. QED
    BY <2>1, <2>2, <2>3
<1>3. QED
  BY <1>1, <1>2

\* From the third copy of an image on, each further one adds the same region
\* to the end of the list.
TailInv ==
  /\ repeats <= MaxRepeats
  /\ repeats > 2 /\ ~FoundTooLate(image) =>
       \A i \in 1 .. Len(imageRegionList) :
         Len(imageRegionList) - i < repeats - 2 => imageRegionList[i] = Found

\* A settled region is found again, so the equal ones at the end grow by one.
LEMMA TailInvHolds == CSpec => []TailInv
<1>0. MaxRepeats \in Nat /\ MaxRepeats > 2
  BY TracerAssumption DEF TracerAssumption, MaxRepeats, Settled
<1>1. CInit => TailInv
  BY <1>0, CameraSteps DEF HInit, TailInv
<1>2. FoundInv /\ SettleInv /\ TailInv /\ [CNext]_cvars => TailInv'
  <2> SUFFICES ASSUME FoundInv, SettleInv, TailInv, [CNext]_cvars
               PROVE  TailInv'
    OBVIOUS
  <2>1. ASSUME NEW img \in Images, HAddImage(img)
        PROVE  TailInv'
    <3>1. /\ repeats \in Nat /\ repeats <= MaxRepeats
          /\ image' = img /\ repeats' \in Nat /\ repeats' <= MaxRepeats
      BY <1>0, <2>1 DEF HAddImage, SettleInv, TailInv
    <3>2. imageRegionList \in Seq(Inside) /\ Kept \in Seq(Inside)
      BY KeptTyped DEF FoundInv, TypeInv
    <3>3. PICK r : imageRegionList' = Append(Kept, r)
      BY <2>1 DEF HAddImage, AddImage, Follow, Search
    <3>4. /\ Len(imageRegionList') = Len(Kept) + 1 /\ Len(Kept) \in Nat
          /\ Found' = r /\ imageRegionList'[Len(Kept) + 1] = r
          /\ \A i \in 1 .. Len(Kept) : imageRegionList'[i] = Kept[i]
      BY <3>2, <3>3 DEF Found, Last
    <3>5. SUFFICES ASSUME repeats' > 2, ~FoundTooLate(img),
                          NEW i \in 1 .. Len(Kept),
                          Len(Kept) + 1 - i < repeats' - 2
                   PROVE  Kept[i] = Found'
      BY <3>1, <3>4 DEF TailInv, FoundTooLate
    <3>6. /\ repeats > 0 /\ image = img /\ repeats > 2
          /\ repeats' = repeats + 1 \/ repeats' = repeats
      BY <1>0, <2>1, <3>1, <3>5 DEF HAddImage
    <3>7. Found' = Found
      BY <2>1, <3>5, <3>6, ListSteps DEF FoundInv, SettleInv, Stays
    <3>8. PICK d \in 0 .. 1 :
            /\ Len(imageRegionList) = Len(Kept) + d
            /\ \A j \in 1 .. Len(Kept) : Kept[j] = imageRegionList[j + d]
      BY <3>2, KeptShifted
    <3>9. /\ i + d \in 1 .. Len(imageRegionList)
          /\ Len(imageRegionList) - (i + d) < repeats - 2
      BY <3>1, <3>4, <3>5, <3>6, <3>8
    <3>10. imageRegionList[i + d] = Found
      BY <3>5, <3>6, <3>9 DEF TailInv
    <3>11. QED
      BY <3>7, <3>8, <3>10
  <2>2. CASE CReset
    BY <1>0, <2>2, CameraSteps DEF HReset, TailInv
  <2>3. CASE UNCHANGED cvars
    BY <2>3 DEF TailInv, Found, cvars, tvars, hvars, vars
  <2>4. QED
    BY <2>1, <2>2, <2>3, CameraSteps DEF CNext
<1>3. QED
  BY <1>1, <1>2, FoundInvHolds, SettleInvHolds, PTL DEF CSpec

\* A mean is the sum of the bounds shared among the regions.
LEMMA MeanIsSum ==
  ASSUME NEW list
  PROVE  /\ Average(list).left
              = SumOf([i \in DOMAIN list |-> list[i].left], DOMAIN list)
                  \div Len(list)
         /\ Average(list).right
              = SumOf([i \in DOMAIN list |-> list[i].right], DOMAIN list)
                  \div Len(list)
<1> DEFINE S == DOMAIN list
<1>1. MapThenSumSet(LAMBDA i : list[i].left, S)
        = SumOf([i \in S |-> list[i].left], S)
  <2> DEFINE f == [i \in S |-> list[i].left]
             Step(g) == [s \in SUBSET S |->
                           IF s = {} THEN 0
                           ELSE list[Taken(s)].left + g[s \ {Taken(s)}]]
             StepOf(g) == [s \in SUBSET S |-> SumStep(f, g, s)]
  <2>1. ASSUME NEW g
        PROVE  Step(g) = StepOf(g)
    <3>1. \A s \in SUBSET S : s # {} => f[Taken(s)] = list[Taken(s)].left
      BY TakenIn
    <3> HIDE DEF f
    <3>2. QED
      BY <3>1 DEF SumStep
  <2>2. MapThenSumSet(LAMBDA i : list[i].left, S)
          = (CHOOSE g : g = Step(g))[S]
    BY DEF MapThenSumSet, MapThenFoldSet, Taken
  <2>3. SumOf(f, S) = (CHOOSE g : g = StepOf(g))[S]
    BY DEF SumOf, MapThenSumSet, MapThenFoldSet, Taken, SumStep
  <2> HIDE DEF Step, StepOf
  <2>4. QED
    BY <2>1, <2>2, <2>3
<1>2. MapThenSumSet(LAMBDA i : list[i].right, S)
        = SumOf([i \in S |-> list[i].right], S)
  <2> DEFINE f == [i \in S |-> list[i].right]
             Step(g) == [s \in SUBSET S |->
                           IF s = {} THEN 0
                           ELSE list[Taken(s)].right + g[s \ {Taken(s)}]]
             StepOf(g) == [s \in SUBSET S |-> SumStep(f, g, s)]
  <2>1. ASSUME NEW g
        PROVE  Step(g) = StepOf(g)
    <3>1. \A s \in SUBSET S : s # {} => f[Taken(s)] = list[Taken(s)].right
      BY TakenIn
    <3> HIDE DEF f
    <3>2. QED
      BY <3>1 DEF SumStep
  <2>2. MapThenSumSet(LAMBDA i : list[i].right, S)
          = (CHOOSE g : g = Step(g))[S]
    BY DEF MapThenSumSet, MapThenFoldSet, Taken
  <2>3. SumOf(f, S) = (CHOOSE g : g = StepOf(g))[S]
    BY DEF SumOf, MapThenSumSet, MapThenFoldSet, Taken, SumStep
  <2> HIDE DEF Step, StepOf
  <2>4. QED
    BY <2>1, <2>2, <2>3
<1>3. Average(list).left
        = MapThenSumSet(LAMBDA i : list[i].left, S) \div Len(list)
  BY DEF Average
<1>4. Average(list).right
        = MapThenSumSet(LAMBDA i : list[i].right, S) \div Len(list)
  BY DEF Average
<1>5. QED
  BY <1>1, <1>2, <1>3, <1>4

\* The average of equal regions is this region.
LEMMA MeanOfEqual ==
  ASSUME NEW list \in Seq(Inside), list # <<>>, NEW r \in Inside,
         \A i \in 1 .. Len(list) : list[i] = r
  PROVE  Average(list).left = r.left /\ Average(list).right = r.right
<1>1. /\ DOMAIN list = 1 .. Len(list) /\ Len(list) \in Nat \ {0}
  OBVIOUS
<1>2. IsFiniteSet(1 .. Len(list)) /\ Cardinality(1 .. Len(list)) = Len(list)
  BY <1>1, FS_Interval
<1>3. r.left \in Nat /\ r.right \in Nat
  BY Constants DEF Inside, InsideLine
<1>4. ASSUME NEW f, NEW w \in Nat, \A i \in DOMAIN list : f[i] = w
      PROVE  SumOf(f, DOMAIN list) \div Len(list) = w
  <2>1. SumOf(f, DOMAIN list) = Len(list) * w
    BY <1>1, <1>2, <1>4, SumConstant
  <2>2. (Len(list) * w) \div Len(list) = w
    BY <1>1, ShareRounded
  <2>3. QED
    BY <2>1, <2>2
<1>5. SumOf([i \in DOMAIN list |-> list[i].left], DOMAIN list) \div Len(list)
        = r.left
  <2> DEFINE f == [i \in DOMAIN list |-> list[i].left]
  <2>1. \A i \in DOMAIN list : f[i] = r.left
    BY <1>1
  <2> HIDE DEF f
  <2>2. SumOf(f, DOMAIN list) \div Len(list) = r.left
    BY <1>3, <1>4, <2>1
  <2>3. QED
    BY <2>2 DEF f
<1>6. SumOf([i \in DOMAIN list |-> list[i].right], DOMAIN list) \div Len(list)
        = r.right
  <2> DEFINE f == [i \in DOMAIN list |-> list[i].right]
  <2>1. \A i \in DOMAIN list : f[i] = r.right
    BY <1>1
  <2> HIDE DEF f
  <2>2. SumOf(f, DOMAIN list) \div Len(list) = r.right
    BY <1>3, <1>4, <2>1
  <2>3. QED
    BY <2>2 DEF f
<1>7. QED
  BY <1>5, <1>6, MeanIsSum

\* For every length of the list and every tolerance: one list of images
\* after the view of a standing car has settled the track counts as straight.
THEOREM SettledIsStraightHolds == CSpec => []SettledIsStraight
<1>1. FoundInv /\ TailInv => SettledIsStraight
  <2> SUFFICES ASSUME FoundInv, TailInv,
                      repeats = MaxRepeats, ~FoundTooLate(image)
               PROVE  Straight(imageRegionList)
    BY DEF SettledIsStraight
  <2>1. /\ ListSize \in Nat /\ Tolerance \in Nat
        /\ MaxRepeats = ListSize + 4
    BY TracerAssumption DEF TracerAssumption, MaxRepeats, Settled
  <2>2. /\ imageRegionList \in Seq(Inside) /\ imageRegionList # <<>>
        /\ Len(imageRegionList) <= ListSize + 1
    BY <2>1 DEF FoundInv, TypeInv, TypeOK
  <2>3. Len(imageRegionList) \in 1 .. Len(imageRegionList)
    BY <2>2
  <2>4. Found \in Inside
    BY <2>2, <2>3 DEF Found, Last
  <2>5. \A i \in 1 .. Len(imageRegionList) : imageRegionList[i] = Found
    BY <2>1, <2>2, <2>3 DEF TailInv
  <2>6. /\ Average(imageRegionList).left = Found.left
        /\ Average(imageRegionList).right = Found.right
    BY <2>2, <2>4, <2>5, MeanOfEqual
  <2>7. Found.left \in Nat /\ Found.right \in Nat
    BY <2>4, Constants DEF Inside, InsideLine
  <2>8. \A x \in Nat : Near(x, x)
    BY <2>1 DEF Near
  <2>9. QED
    BY <2>6, <2>7, <2>8 DEF Straight, Found
<1>2. QED
  BY <1>1, FoundInvHolds, TailInvHolds, PTL

-----------------------------------------------------------------------------
(* The frame: the regions of a list are black and white in turn, so half   *)
(* of any part of it is white.                                             *)

Line == 0 .. LineLength - 1
Listed == [region : [left : Line, right : Line], white : BOOLEAN]

\* A list of regions as getRegions gives it.
InTurn(list) ==
  /\ list \in Seq(Listed) /\ Len(list) <= MaxRegions + 1
  /\ \A k \in 1 .. Len(list) - 1 : list[k].white # list[k + 1].white

\* There is room for all borders that are kept.
LEMMA StartsCounted ==
  ASSUME NEW img
  PROVE  /\ IsFiniteSet(Starts(img))
         /\ Cardinality(Starts(img)) \in 1 .. MaxRegions + 1
<1> DEFINE B == Borders(img)
           K == KeptBorders(img)
<1>1. B \in SUBSET Int /\ IsFiniteSet(B)
  <2>1. minLeft + 1 \in Int /\ maxRight \in Int
    BY Constants
  <2>2. B \in SUBSET (minLeft + 1 .. maxRight)
    BY DEF Borders
  <2>3. IsFiniteSet(minLeft + 1 .. maxRight)
    BY <2>1, FS_Interval
  <2>4. B \in SUBSET Int
    BY <2>1, <2>2
  <2> HIDE DEF B
  <2>5. QED
    BY <2>2, <2>3, <2>4, FS_Subset
<1>2. K \in SUBSET B /\ \A b \in K : Rank(B, b) < MaxRegions
  BY DEF KeptBorders, Rank
<1>3. MaxRegions \in Nat
  BY TracerAssumption DEF TracerAssumption
<1> HIDE DEF B, K
<1>4. IsFiniteSet(K) /\ Cardinality(K) \in Nat /\ K \in SUBSET Int
  BY <1>1, <1>2, FS_Subset, FS_CardinalityType
<1>5. Cardinality(K) <= MaxRegions
  <2> SUFFICES ASSUME Cardinality(K) > MaxRegions
               PROVE  FALSE
    BY <1>3, <1>4
  <2>1. PICK b \in K : Rank(K, b) = MaxRegions
    BY <1>3, <1>4, RankTaken
  <2>2. Rank(K, b) <= Rank(B, b)
    <3>1. /\ {t \in B : t < b} \in SUBSET B
          /\ {t \in K : t < b} \in SUBSET {t \in B : t < b}
      BY <1>2
    <3>2. QED
      BY <1>1, <3>1, FS_Subset DEF Rank
  <2>3. Rank(B, b) \in Nat /\ Rank(B, b) < MaxRegions
    BY <1>1, <1>2, RankType
  <2>4. QED
    BY <1>3, <2>1, <2>2, <2>3
<1>6. Starts(img) = K \union {minLeft}
  BY DEF Starts, K
<1>7. /\ IsFiniteSet(K \union {minLeft})
      /\ Cardinality(K \union {minLeft})
           = IF minLeft \in K THEN Cardinality(K) ELSE Cardinality(K) + 1
  BY <1>4, FS_AddElement
<1>8. Cardinality(K \union {minLeft}) # 0
  BY <1>7, FS_EmptySet
<1>9. QED
  BY <1>3, <1>4, <1>5, <1>6, <1>7, <1>8

\* Where one region ends the next begins, in the other colour.
LEMMA NextStart ==
  ASSUME NEW img, NEW s \in Starts(img), NEW t \in Starts(img), s < t,
         \A u \in Starts(img) : ~(s < u /\ u < t)
  PROVE  (s \in img) # (t \in img)
<1>1. /\ s \in Int /\ t \in Int /\ minLeft <= s /\ t <= maxRight
      /\ Max(Starts(img)) \in Int
  BY LastStart, StartsBounded
<1>2. t \in Borders(img)
  BY <1>1, Constants DEF Starts, KeptBorders
<1>3. ASSUME NEW b \in Borders(img), s < b, b < t
      PROVE  FALSE
  <2>1. b \in Int /\ t <= Max(Starts(img))
    BY LastStart, Constants DEF Borders
  <2>2. b \in Starts(img)
    BY <1>1, <1>3, <2>1, KeptIsPrefix
  <2>3. QED
    BY <1>3, <2>2
<1>4. t - 1 \in s .. t - 1 /\ t <= maxRight + 1
  BY <1>1, Constants
<1>5. t - 1 \in img <=> s \in img
  BY <1>1, <1>3, <1>4, SameColour
<1>6. QED
  BY <1>2, <1>5 DEF Borders

\* So the list of an image has its colours in turn.
LEMMA RegionsInTurn ==
  ASSUME NEW img \in Images
  PROVE  InTurn(Regions[img])
<1> DEFINE S == Starts(img)
           n == Cardinality(S)
           start(k) == CHOOSE s \in S : Cardinality({t \in S : t < s}) = k - 1
           R == [k \in 1 .. n |-> [region |-> RegionFrom(img, start(k)),
                                   white  |-> start(k) \notin img]]
<1>1. Regions[img] = R
  BY DEF Regions
<1>2. S \in SUBSET Int /\ IsFiniteSet(S) /\ n \in 1 .. MaxRegions + 1
  BY StartsBounded, StartsCounted
<1>3. MaxRegions \in Nat /\ n \in Nat
  BY <1>2, TracerAssumption DEF TracerAssumption
<1>4. ASSUME NEW k \in 1 .. n
      PROVE  start(k) \in S /\ Rank(S, start(k)) = k - 1
  <2> HIDE DEF S
  <2>1. k - 1 \in Nat /\ k - 1 < n
    BY <1>3
  <2>2. \E s \in S : Rank(S, s) = k - 1
    BY <1>2, <2>1, RankTaken
  <2>3. QED
    BY <2>2 DEF Rank
<1>5. R \in Seq(Listed) /\ Len(R) = n
  <2>1. \A k \in 1 .. n : R[k] \in Listed
    BY <1>4, RegionFromOnLine DEF Listed, Line
  <2>2. R \in [1 .. n -> Listed]
    BY <2>1
  <2> HIDE DEF R
  <2>3. QED
    BY <1>3, <2>2
<1>6. ASSUME NEW k \in 1 .. n - 1
      PROVE  R[k].white # R[k + 1].white
  <2> DEFINE s == start(k)
             t == start(k + 1)
  <2>1. k \in 1 .. n /\ k + 1 \in 1 .. n /\ k + 1 - 1 = k - 1 + 1
    BY <1>3
  <2>2. /\ s \in S /\ Rank(S, s) = k - 1
        /\ t \in S /\ Rank(S, t) = k - 1 + 1
    <3> HIDE DEF start
    <3>1. s \in S /\ Rank(S, s) = k - 1
      BY <1>4, <2>1
    <3>2. t \in S /\ Rank(S, t) = k + 1 - 1
      BY <1>4, <2>1
    <3>3. QED
      BY <2>1, <3>1, <3>2
  <2>3. R[k].white = (s \notin img) /\ R[k + 1].white = (t \notin img)
    BY <2>1
  <2> HIDE DEF s, t, n, S, R
  <2>4. PICK u \in S : s < u /\ \A v \in S : ~(s < v /\ v < u)
    <3>1. Rank(S, s) + 1 < Cardinality(S)
      BY <1>3, <2>2 DEF n
    <3>2. QED
      BY <1>2, <2>2, <3>1, NextElement
  <2>5. Rank(S, u) = k - 1 + 1
    BY <1>2, <2>2, <2>4, RankNext
  <2>6. u = t
    BY <1>2, <2>2, <2>5, RankInjective
  <2>7. (s \in img) # (t \in img)
    BY <2>2, <2>4, <2>6, NextStart DEF S
  <2>8. QED
    BY <2>3, <2>7
<1> HIDE DEF R, n
<1>7. QED
  BY <1>1, <1>2, <1>5, <1>6 DEF InTurn

\* As many of its first regions as it has white ones, taken from a list with
\* its colours in turn, fit the frame, and half of them are white.
LEMMA HalfWhite ==
  ASSUME NEW list, InTurn(list)
  PROVE  LET c == WhitesIn(list)
         IN /\ c \in Nat /\ c <= Len(list) /\ c <= SendRegions
            /\ Cardinality({k \in 1 .. c : list[k].white}) >= c \div 2
<1> DEFINE n == Len(list)
           On == {k \in 1 .. n : list[k].white}
           c == Cardinality(On)
<1>1. /\ n \in Nat /\ n <= MaxRegions + 1 /\ DOMAIN list = 1 .. n
      /\ \A k \in 1 .. n : list[k].white \in BOOLEAN
  <2>1. list \in Seq(Listed) /\ n <= MaxRegions + 1
    BY DEF InTurn
  <2>2. n \in Nat /\ DOMAIN list = 1 .. n
    BY <2>1
  <2>3. \A k \in 1 .. n : list[k] \in Listed
    BY <2>1
  <2>4. \A k \in 1 .. n : list[k].white \in BOOLEAN
    BY <2>3 DEF Listed
  <2>5. QED
    BY <2>1, <2>2, <2>4
<1>2. WhitesIn(list) = c
  BY <1>1 DEF WhitesIn
<1>3. On \in SUBSET (1 .. n) /\ \A k \in 1 .. n - 1 : k \in On <=> k + 1 \notin On
  <2>1. ASSUME NEW k \in 1 .. n - 1
        PROVE  k \in On <=> k + 1 \notin On
    <3>1. k \in 1 .. n /\ k + 1 \in 1 .. n
      BY <1>1
    <3>2. list[k].white # list[k + 1].white
      BY DEF InTurn
    <3>3. QED
      BY <1>1, <3>1, <3>2
  <2>2. QED
    BY <2>1
<1>4. \A m \in 0 .. n : On \intersect (1 .. m) = {k \in 1 .. m : list[k].white}
  BY <1>1
<1>5. On \intersect (1 .. n) = On
  OBVIOUS
<1> HIDE DEF On
<1>6. c \in Nat /\ 2 * c <= n + 1
  BY <1>1, <1>3, <1>5, HalfOfEach, n \in 0 .. n
<1>7. MaxRegions \in Nat /\ SendRegions \in Nat /\ MaxRegions < 2 * SendRegions
  BY TracerAssumption, FrameAssumption DEF TracerAssumption, FrameAssumption
<1>8. c <= n
  <2>1. n = 0 => On = {}
    BY <1>3
  <2>2. n = 0 => c = 0
    BY <2>1, FS_EmptySet
  <2> HIDE DEF c
  <2>3. QED
    BY <1>1, <1>6, <2>2
<1>9. c <= SendRegions
  <2> HIDE DEF c
  <2>1. QED
    BY <1>1, <1>6, <1>7
<1>10. Cardinality(On \intersect (1 .. c)) >= c \div 2
  <2> DEFINE d == Cardinality(On \intersect (1 .. c))
  <2>1. c \in 0 .. n
    BY <1>1, <1>6, <1>8
  <2>2. d \in Nat /\ c <= 2 * d + 1
    BY <1>1, <1>3, <2>1, HalfOfEach
  <2> HIDE DEF c, d
  <2>3. d >= c \div 2
    BY <1>6, <2>2
  <2>4. QED
    BY <2>3 DEF d
<1>11. On \intersect (1 .. c) = {k \in 1 .. c : list[k].white}
  BY <1>1, <1>4, <1>6, <1>8
<1>12. QED
  BY <1>2, <1>6, <1>8, <1>9, <1>10, <1>11

\* The frame is taken from a list with its colours in turn.
FrameInv ==
  /\ InTurn(currentRegions)
  /\ whiteRegionsCount = WhitesIn(currentRegions)
  /\ repeats > 0 /\ followed
       => whiteRegionsCount = 1 /\ currentRegions[1].region = Found

\* A region that is followed is a list of its own, which has its colours in turn.
LEMMA FrameInvHolds == CSpec => []FrameInv
<1>0. MaxRegions \in Nat
  BY TracerAssumption DEF TracerAssumption
<1>1. CInit => FrameInv
  <2> SUFFICES ASSUME CInit
               PROVE  FrameInv
    OBVIOUS
  <2>1. currentRegions = <<>> /\ whiteRegionsCount = 0 /\ repeats = 0
    BY DEF CInit, TInit, HInit
  <2>2. InTurn(<<>>)
    BY <1>0 DEF InTurn
  <2>3. WhitesIn(<<>>) = 0
    <3>1. {k \in DOMAIN <<>> : <<>>[k].white} = {}
      OBVIOUS
    <3>2. QED
      BY <3>1, FS_EmptySet DEF WhitesIn
  <2>4. QED
    BY <2>1, <2>2, <2>3 DEF FrameInv
<1>2. FoundInv /\ FrameInv /\ [CNext]_cvars => FrameInv'
  <2> SUFFICES ASSUME FoundInv, FrameInv, [CNext]_cvars
               PROVE  FrameInv'
    OBVIOUS
  <2>1. ASSUME NEW raw \in RawLines, CUpdate(raw)
        PROVE  FrameInv'
    <3> DEFINE img == Seen[raw]
    <3>1. img \in Images /\ HAddImage(img) /\ ListRegions(img)
      BY <2>1, CameraSteps DEF CUpdate, TAddImage
    <3> HIDE DEF img
    <3>2. CASE followed'
      <4> DEFINE list == <<[region |-> Last(imageRegionList'), white |-> TRUE]>>
      <4>1. currentRegions' = list /\ whiteRegionsCount' = 1
        BY <3>1, <3>2 DEF ListRegions
      <4>2. TypeInv' /\ imageRegionList' # <<>>
        <5>1. TypeInv'
          BY CameraSteps, TypeInvNext DEF FoundInv
        <5>2. QED
          BY <3>1, <5>1, ListSteps DEF FoundInv
      <4>3. Last(imageRegionList') \in [left : Line, right : Line]
        <5>1. imageRegionList' \in Seq(Inside)
          BY <4>2 DEF TypeInv
        <5>2. Last(imageRegionList') \in Inside
          BY <4>2, <5>1 DEF Last
        <5>3. QED
          BY <5>2, Constants DEF Inside, InsideLine, Line
      <4>4. list \in Seq(Listed) /\ Len(list) = 1 /\ DOMAIN list = 1 .. 1
        BY <4>3 DEF Listed
      <4>5. list[1].white /\ list[1].region = Last(imageRegionList')
        OBVIOUS
      <4> HIDE DEF list
      <4>6. InTurn(list)
        BY <1>0, <4>4 DEF InTurn
      <4>7. WhitesIn(list) = 1
        <5>1. {k \in DOMAIN list : list[k].white} = {1}
          BY <4>4, <4>5
        <5>2. QED
          BY <5>1, FS_Singleton DEF WhitesIn
      <4>8. QED
        BY <4>1, <4>5, <4>6, <4>7 DEF FrameInv, Found, Last
    <3>3. CASE ~followed'
      <4>1. /\ currentRegions' = Regions[img]
            /\ whiteRegionsCount' = WhitesIn(Regions[img])
        BY <3>1, <3>3 DEF ListRegions
      <4>2. QED
        BY <3>1, <3>3, <4>1, RegionsInTurn DEF FrameInv
    <3>4. QED
      BY <3>2, <3>3
  <2>2. CASE CReset
    <3>1. repeats' = 0 /\ UNCHANGED <<currentRegions, whiteRegionsCount>>
      BY <2>2 DEF CReset, TReset, HReset
    <3>2. QED
      BY <3>1 DEF FrameInv
  <2>3. CASE UNCHANGED cvars
    BY <2>3 DEF FrameInv, Found, cvars, tvars, hvars, vars
  <2>4. QED
    BY <2>1, <2>2, <2>3 DEF CNext
<1>3. QED
  BY <1>1, <1>2, FoundInvHolds, PTL DEF CSpec

\* For every image and every number of regions a list may have: the frame
\* counts all white regions, is built inside the list, and holds every other
\* white region at least; a region that is followed is the one it holds.
THEOREM HalfTheWhitesSentHolds == CSpec => []HalfTheWhitesSent
<1>1. FrameInv => HalfTheWhitesSent
  <2> SUFFICES ASSUME FrameInv
               PROVE  HalfTheWhitesSent
    OBVIOUS
  <2> DEFINE c == whiteRegionsCount
  <2>1. /\ c \in Nat /\ c <= Len(currentRegions) /\ c <= SendRegions
        /\ Cardinality({k \in 1 .. c : currentRegions[k].white}) >= c \div 2
    BY HalfWhite DEF FrameInv
  <2>2. SendRegions \in Nat
    BY FrameAssumption DEF FrameAssumption
  <2>3. FrameCount = c
    BY <2>1, <2>2 DEF FrameCount
  <2>4. Cardinality(FrameRegions) >= FrameCount \div 2
    BY <2>1, <2>3 DEF FrameRegions
  <2>5. QED
    BY <2>1, <2>3, <2>4 DEF HalfTheWhitesSent, FrameInv
<1>2. QED
  BY <1>1, FrameInvHolds, PTL

-----------------------------------------------------------------------------
(* The darkest and the brightest level of a line.                          *)

\* A factor common to both sides of an integer division cancels.
LEMMA CommonFactor ==
  ASSUME NEW k \in Nat \ {0}, NEW a \in Nat, NEW b \in Nat \ {0}
  PROVE  (k * a) \div (k * b) = a \div b
<1> DEFINE q == a \div b
           r == a - q * b
<1>1. q \in Nat /\ q * b <= a /\ a < q * b + b /\ q * b \in Nat
  OBVIOUS
<1>2. r \in Nat /\ r < b /\ a = q * b + r
  BY <1>1
<1> HIDE DEF q, r
<1>3. k * a = q * (k * b) + k * r
  <2>1. k * a = k * (q * b + r)
    BY <1>2
  <2>2. k * (q * b + r) = q * (k * b) + k * r
    BY <1>1, <1>2
  <2>3. QED
    BY <2>1, <2>2
<1>4. k * r < k * b /\ k * b \in Nat \ {0} /\ k * r \in Nat
  BY <1>2
<1>5. (k * a) \div (k * b) = q
  BY <1>1, <1>3, <1>4
<1>6. QED
  BY <1>5 DEF q

\* There are pixels between the margins.
LEMMA InnerPixels ==
  /\ Img!Inner # {} /\ Img!Inner \subseteq Img!Pixels /\ WhiteOriginal \in Nat
<1>1. WhiteOriginal \in Nat
  BY CameraAssumption DEF CameraAssumption
<1>2. BlackCount \in Img!Inner
  BY TracerAssumption
     DEF TracerAssumption, Img!Inner, minLeft, maxRight
<1>3. Img!Inner \subseteq Img!Pixels
  BY Constants DEF Img!Inner, Img!Pixels
<1>4. QED
  BY <1>1, <1>2, <1>3

\* Levels are brightnesses of pixels between the margins.
LEMMA LevelsBounded ==
  ASSUME NEW raw \in Img!RawImage
  PROVE  /\ Img!Levels(raw) # {} /\ Img!Levels(raw) \in SUBSET Int
         /\ \A v \in Img!Levels(raw) : 0 <= v /\ v <= WhiteOriginal
         /\ \A i \in Img!Inner : raw[i] \in Img!Levels(raw)
BY InnerPixels DEF Img!Levels, Img!RawImage

\* The darkest and the brightest level are among them.
LEMMA Extremes ==
  ASSUME NEW raw \in Img!RawImage
  PROVE  /\ Img!Darkest(raw) \in Img!Levels(raw)
         /\ Img!Brightest(raw) \in Img!Levels(raw)
         /\ \A i \in Img!Inner : /\ Img!Darkest(raw) <= raw[i]
                                 /\ raw[i] <= Img!Brightest(raw)
<1> DEFINE T == Img!Levels(raw)
<1>1. /\ T # {} /\ T \in SUBSET Int
      /\ \A v \in T : 0 <= v /\ v <= WhiteOriginal
      /\ \A i \in Img!Inner : raw[i] \in T
  BY LevelsBounded
<1> HIDE DEF T
<1>2. Min(T) \in T /\ \A v \in T : Min(T) <= v
  BY <1>1, MinIsLeast
<1>3. Max(T) \in T /\ \A v \in T : Max(T) >= v
  BY <1>1, InnerPixels, MaxIsGreatest
<1>4. Img!Darkest(raw) = Min(T) /\ Img!Brightest(raw) = Max(T)
  BY DEF Img!Darkest, Img!Brightest, T, Img!Min, Img!Max, Min, Max
<1>5. QED
  BY <1>1, <1>2, <1>3, <1>4 DEF T

\* A line under another light, within what the sensor can tell.
Relit(raw, lit, gain, stray) ==
  \A i \in Img!Pixels : lit[i] = gain * raw[i] + stray

\* Its extremes are those of the line under that light.
LEMMA ExtremesRelit ==
  ASSUME NEW raw \in Img!RawImage, NEW lit \in Img!RawImage,
         NEW gain \in Nat \ {0}, NEW stray \in Nat,
         Relit(raw, lit, gain, stray)
  PROVE  /\ Img!Darkest(lit) = gain * Img!Darkest(raw) + stray
         /\ Img!Brightest(lit) = gain * Img!Brightest(raw) + stray
<1> DEFINE d == Img!Darkest(raw)
           b == Img!Brightest(raw)
           e == Img!Darkest(lit)
           f == Img!Brightest(lit)
<1>1. PICK i \in Img!Inner : raw[i] = d
  BY Extremes DEF Img!Levels
<1>2. PICK j \in Img!Inner : lit[j] = e
  BY Extremes DEF Img!Levels
<1>3. PICK k \in Img!Inner : raw[k] = b
  BY Extremes DEF Img!Levels
<1>4. PICK l \in Img!Inner : lit[l] = f
  BY Extremes DEF Img!Levels
<1>5. \A p \in Img!Inner : /\ d <= raw[p] /\ raw[p] <= b
                           /\ e <= lit[p] /\ lit[p] <= f
  BY Extremes
<1>6. \A p \in Img!Inner : /\ raw[p] \in Int
                           /\ lit[p] = gain * raw[p] + stray
  BY InnerPixels DEF Relit, Img!RawImage
<1>7. d \in Int /\ b \in Int
  BY <1>1, <1>3, <1>6
<1>8. \A x, y \in Int : x <= y => gain * x + stray <= gain * y + stray
  <2>1. ASSUME NEW x \in Int, NEW y \in Int, x <= y
        PROVE  gain * x + stray <= gain * y + stray
    <3>1. gain * (y - x) >= 0 /\ gain * (y - x) = gain * y - gain * x
      BY <2>1
    <3>2. gain * x \in Int /\ gain * y \in Int
      OBVIOUS
    <3>3. QED
      BY <3>1, <3>2
  <2>2. QED
    BY <2>1
<1> HIDE DEF d, b, e, f
<1>9. DEFINE g(x) == gain * x + stray
<1>10. \A x \in Int : g(x) \in Int
  OBVIOUS
<1>11. \A x, y \in Int : x <= y => g(x) <= g(y)
  BY <1>8
<1>12. \A p \in Img!Inner : lit[p] = g(raw[p])
  BY <1>6
<1> HIDE DEF g
<1>13. e = g(d)
  <2>1. e <= g(d)
    BY <1>1, <1>5, <1>12
  <2>2. g(d) <= g(raw[j])
    BY <1>5, <1>6, <1>7, <1>11, <1>2
  <2>3. g(raw[j]) = e /\ g(d) \in Int /\ e \in Int
    BY <1>2, <1>6, <1>7, <1>10, <1>12
  <2>4. QED
    BY <2>1, <2>2, <2>3
<1>14. f = g(b)
  <2>1. g(b) <= f
    BY <1>3, <1>5, <1>12
  <2>2. g(raw[l]) <= g(b)
    BY <1>5, <1>6, <1>7, <1>11, <1>4
  <2>3. g(raw[l]) = f /\ g(b) \in Int /\ f \in Int
    BY <1>4, <1>6, <1>7, <1>10, <1>12
  <2>4. QED
    BY <2>1, <2>2, <2>3
<1>15. QED
  BY <1>13, <1>14 DEF d, b, e, f, g

-----------------------------------------------------------------------------
(* Cutting the margins off, normalising, and what is black.                *)

\* The cut changes no level, and leaves no pixel beyond the extremes.
LEMMA CutKeepsLevels ==
  ASSUME NEW raw \in Img!RawImage
  PROVE  /\ Img!Cut(raw) \in Img!RawImage
         /\ Img!Darkest(Img!Cut(raw)) = Img!Darkest(raw)
         /\ Img!Brightest(Img!Cut(raw)) = Img!Brightest(raw)
         /\ \A i \in Img!Pixels : /\ Img!Darkest(raw) <= Img!Cut(raw)[i]
                                  /\ Img!Cut(raw)[i] <= Img!Brightest(raw)
<1> DEFINE b == Img!Brightest(raw)
<1>1. \A i \in Img!Pixels :
        Img!Cut(raw)[i] = IF i \in Img!Inner THEN raw[i] ELSE b
  BY DEF Img!Cut
<1>2. Img!Levels(Img!Cut(raw)) = Img!Levels(raw)
  BY <1>1, InnerPixels DEF Img!Levels
<1>3. b \in 0 .. WhiteOriginal /\ Img!Darkest(raw) <= b
  BY Extremes, InnerPixels DEF Img!Levels, Img!RawImage
<1>4. Img!Cut(raw) \in Img!RawImage
  <2>1. \A i \in Img!Pixels : raw[i] \in 0 .. WhiteOriginal
    BY DEF Img!RawImage
  <2>2. \A i \in Img!Pixels :
          (IF i \in Img!Inner THEN raw[i] ELSE b) \in 0 .. WhiteOriginal
    BY <2>1, <1>3
  <2>3. QED
    BY <2>2 DEF Img!Cut, Img!RawImage
<1>5. \A i \in Img!Pixels : /\ Img!Darkest(raw) <= Img!Cut(raw)[i]
                            /\ Img!Cut(raw)[i] <= b
  BY <1>1, <1>3, Extremes
<1>6. QED
  BY <1>2, <1>4, <1>5 DEF Img!Darkest, Img!Brightest

\* Cutting the margins off does not depend on the light.
LEMMA CutRelit ==
  ASSUME NEW raw \in Img!RawImage, NEW lit \in Img!RawImage,
         NEW gain \in Nat \ {0}, NEW stray \in Nat,
         Relit(raw, lit, gain, stray)
  PROVE  Relit(Img!Cut(raw), Img!Cut(lit), gain, stray)
BY ExtremesRelit DEF Relit, Img!Cut

\* The normalisation takes the offset away and divides by the gain.
LEMMA NormalizedRelit ==
  ASSUME NEW raw \in Img!RawImage, NEW lit \in Img!RawImage,
         NEW gain \in Nat \ {0}, NEW stray \in Nat,
         Relit(raw, lit, gain, stray),
         \A i \in Img!Pixels : Img!Darkest(raw) <= raw[i]
  PROVE  Img!Normalized(lit) = Img!Normalized(raw)
<1> DEFINE d == Img!Darkest(raw)
           b == Img!Brightest(raw)
<1>1. d \in Nat /\ b \in Nat /\ d <= b
  BY Extremes, InnerPixels DEF Img!Levels, Img!RawImage
<1>2. /\ Img!Darkest(lit) = gain * d + stray
      /\ Img!Brightest(lit) = gain * b + stray
  BY ExtremesRelit
<1> DEFINE n == b - d
<1>3. n \in Nat /\ gain * n \in Nat
  BY <1>1
<1>4. Img!Diversity(raw) = n /\ Img!Diversity(lit) = gain * n
  <2>1. (gain * b + stray) - (gain * d + stray) = gain * (b - d)
    BY <1>1
  <2>2. QED
    BY <1>2, <2>1 DEF Img!Diversity
<1>5. gain * n = 0 <=> n = 0
  BY <1>3
<1>6. ASSUME NEW i \in Img!Pixels
      PROVE  (IF gain * n = 0 THEN 0
              ELSE ((lit[i] - (gain * d + stray)) * White) \div (gain * n))
             = (IF n = 0 THEN 0 ELSE ((raw[i] - d) * White) \div n)
  <2> DEFINE m == raw[i] - d
  <2>1. m \in Nat /\ raw[i] \in Int
    BY <1>1, InnerPixels DEF Img!RawImage
  <2>2. lit[i] - (gain * d + stray) = gain * m
    <3>1. (gain * raw[i] + stray) - (gain * d + stray) = gain * (raw[i] - d)
      BY <1>1, <2>1
    <3>2. QED
      BY <3>1 DEF Relit
  <2> HIDE DEF m, n
  <2>3. White \in Nat /\ m * White \in Nat
    BY <2>1, CameraAssumption
  <2>4. (gain * m) * White = gain * (m * White)
    BY <2>1, <2>3
  <2>5. CASE n = 0
    BY <2>5, <1>5
  <2>6. CASE n # 0
    <3>1. (gain * (m * White)) \div (gain * n) = (m * White) \div n
      BY <2>3, <2>6, <1>3, CommonFactor
    <3>2. QED
      BY <3>1, <2>2, <2>4, <2>6, <1>5 DEF m
  <2>7. QED
    BY <2>5, <2>6
<1>7. QED
  BY <1>2, <1>4, <1>6 DEF Img!Normalized

\* With LOW_DIVERSITY zero no line is low in diversity.
LEMMA NeverLowDiversity ==
  \A line \in Img!RawImage : ~Img!isLowDiversity(line)
<1>1. \A line \in Img!RawImage :
        /\ Img!Darkest(line) \in Int /\ Img!Brightest(line) \in Int
        /\ Img!Darkest(line) <= Img!Brightest(line)
  BY Extremes, InnerPixels DEF Img!Levels, Img!RawImage
<1>2. QED
  BY <1>1, CameraAssumption DEF Img!isLowDiversity, Img!Diversity

\* So the same pixels are black.
LEMMA BlackRelit ==
  ASSUME NEW raw \in Img!RawImage, NEW lit \in Img!RawImage,
         NEW gain \in Nat \ {0}, NEW stray \in Nat,
         Relit(raw, lit, gain, stray)
  PROVE  Img!Black(lit) = Img!Black(raw)
<1>1. Img!Normalized(Img!Cut(lit)) = Img!Normalized(Img!Cut(raw))
  BY CutKeepsLevels, CutRelit, NormalizedRelit
<1>2. QED
  BY <1>1, NeverLowDiversity DEF Img!Black

-----------------------------------------------------------------------------
(* The image of each update().                                             *)

\* What is sent is a line whose margins are no brighter than the rest.
SentInv ==
  /\ sentImage \in Img!RawImage
  /\ \A i \in Img!Pixels : sentImage[i] <= Img!Brightest(sentImage)

\* The image sent is one the camera could give, and cut: no margin outshines it.
LEMMA SentInvHolds == CSpec => []SentInv
<1>1. CInit => SentInv
  <2>1. ASSUME CInit PROVE SentInv
    <3>1. sentImage \in Img!RawImage /\ \A i \in Img!Pixels : sentImage[i] = 0
      BY <2>1, InnerPixels DEF CInit, Img!RawImage
    <3>2. Img!Brightest(sentImage) \in Nat
      BY <3>1, Extremes, InnerPixels DEF Img!Levels
    <3>3. QED
      BY <3>1, <3>2 DEF SentInv
  <2>2. QED
    BY <2>1
<1>2. SentInv /\ [CNext]_cvars => SentInv'
  <2> SUFFICES ASSUME SentInv, [CNext]_cvars PROVE SentInv'
    OBVIOUS
  <2>1. CASE UNCHANGED sentImage
    BY <2>1 DEF SentInv, Img!RawImage, Img!Pixels, Img!Brightest, Img!Levels,
                Img!Inner, Img!Max
  <2>2. ASSUME NEW raw \in RawLines, CUpdate(raw) PROVE SentInv'
    <3>1. raw \in Img!RawImage /\ sentImage' = Img!Cut(raw)
      BY <2>2, CameraAssumption DEF CUpdate
    <3>2. /\ Img!Cut(raw) \in Img!RawImage
          /\ \A i \in Img!Pixels :
               Img!Cut(raw)[i] <= Img!Brightest(Img!Cut(raw))
      BY <3>1, CutKeepsLevels
    <3>3. QED
      BY <3>1, <3>2 DEF SentInv
  <2>3. QED
    BY <2>1, <2>2 DEF CNext, CReset, cvars
<1>3. QED
  BY <1>1, <1>2, PTL DEF CSpec

\* The light does not matter: whatever line the camera gave, the same line
\* under any other light that does not saturate the sensor has the same
\* black pixels.
THEOREM LightingInvariantHolds == CSpec => []LightingInvariant
<1>1. SentInv => LightingInvariant
  <2> DEFINE s == sentImage
             b == Img!Brightest(sentImage)
  <2> SUFFICES ASSUME SentInv,
                      NEW gain \in 1 .. WhiteOriginal,
                      NEW stray \in 0 .. WhiteOriginal,
                      gain * b + stray <= WhiteOriginal
               PROVE  Img!Black(Lit(s, gain, stray)) = Img!Black(s)
    BY DEF LightingInvariant
  <2>1. s \in Img!RawImage /\ gain \in Nat \ {0} /\ stray \in Nat
    BY InnerPixels DEF SentInv
  <2>2. \A i \in Img!Pixels : s[i] \in Nat /\ s[i] <= b
    BY <2>1, InnerPixels DEF SentInv, Img!RawImage
  <2>3. b \in Nat
    BY <2>1, Extremes, InnerPixels DEF Img!Levels
  <2> HIDE DEF b
  <2>4. ASSUME NEW i \in Img!Pixels
        PROVE  gain * s[i] + stray \in 0 .. WhiteOriginal
    <3>1. gain * (b - s[i]) \in Nat /\ gain * s[i] \in Nat /\ gain * b \in Nat
      BY <2>1, <2>2, <2>3
    <3>2. gain * (b - s[i]) = gain * b - gain * s[i]
      BY <2>1, <2>2, <2>3
    <3>3. QED
      BY <3>1, <3>2, <2>1, InnerPixels
  <2>5. /\ Lit(s, gain, stray) \in Img!RawImage
        /\ Relit(s, Lit(s, gain, stray), gain, stray)
    BY <2>4 DEF Lit, Relit, Img!RawImage
  <2>6. QED
    BY <2>1, <2>5, BlackRelit
<1>2. QED
  BY <1>1, SentInvHolds, PTL

-----------------------------------------------------------------------------
(* The threshold of a line that is bright enough.                          *)

\* The threshold takes the sum of SumOf, over as many pixels as are looked at.
LEMMA ThresholdSum ==
  ASSUME NEW norm
  PROVE  /\ Img!getAverageThreshold(norm)
              = (SumOf(norm, Img!Inner) \div LineLength - 2 * BlackCount) % 65536
         /\ IsFiniteSet(Img!Inner) /\ Cardinality(Img!Inner) \in Nat
         /\ Cardinality(Img!Inner) <= LineLength
<1>1. Img!getAverageThreshold(norm)
        = (SumOf(norm, Img!Inner) \div LineLength - 2 * BlackCount) % 65536
  BY DEF Img!getAverageThreshold, Img!MapThenSumSet, Img!MapThenFoldSet,
         SumOf, MapThenSumSet, MapThenFoldSet
<1>2. IsFiniteSet(Img!Inner) /\ IsFiniteSet(Img!Pixels)
      /\ Cardinality(Img!Pixels) = LineLength
  <2>1. /\ 0 \in Int /\ LineLength - 1 \in Int /\ ~(0 > LineLength - 1)
        /\ LineLength - 1 - 0 + 1 = LineLength
    BY TracerAssumption DEF TracerAssumption
  <2>2. IsFiniteSet(Img!Pixels) /\ Cardinality(Img!Pixels) = LineLength
    BY <2>1, FS_Interval DEF Img!Pixels
  <2>3. QED
    BY <2>2, InnerPixels, FS_Subset
<1>3. QED
  BY <1>1, <1>2, InnerPixels, FS_Subset, FS_CardinalityType

\* The levels of a line in shares of its range.
LEMMA NormalizedBounds ==
  ASSUME NEW raw \in Img!RawImage, Img!Diversity(raw) > 0, NEW i \in Img!Pixels,
         Img!Darkest(raw) <= raw[i], raw[i] <= Img!Brightest(raw)
  PROVE  /\ Img!Normalized(raw)[i] \in 0 .. White
         /\ raw[i] = Img!Darkest(raw) => Img!Normalized(raw)[i] = 0
         /\ raw[i] = Img!Brightest(raw) => Img!Normalized(raw)[i] = White
<1> DEFINE d == Img!Darkest(raw)
           b == Img!Brightest(raw)
           n == b - d
           m == raw[i] - d
<1>1. d \in Int /\ b \in Int /\ raw[i] \in Int /\ n > 0
  BY Extremes, InnerPixels DEF Img!Levels, Img!RawImage, Img!Diversity
<1>2. Img!Normalized(raw)[i] = (m * White) \div n
  BY <1>1 DEF Img!Normalized, Img!Diversity
<1>3. /\ n \in Nat \ {0} /\ m \in 0 .. n
      /\ raw[i] = d => m = 0
      /\ raw[i] = b => m = n
  BY <1>1
<1>4. White \in Nat
  BY CameraAssumption DEF CameraAssumption
<1> HIDE DEF n, m
<1>5. QED
  BY <1>2, <1>3, <1>4, ShareRounded

\* With enough bright pixels the threshold lies above black and not above
\* white.
LEMMA ThresholdBetween ==
  ASSUME NEW norm, \A i \in Img!Inner : norm[i] \in 0 .. White,
         NEW T \in SUBSET Img!Inner, \A i \in T : norm[i] = White,
         Cardinality(T) * White >= (2 * BlackCount + 1) * LineLength
  PROVE  Img!getAverageThreshold(norm) \in 1 .. White
<1> DEFINE sum == SumOf(norm, Img!Inner)
           q == sum \div LineLength
<1>1. /\ White \in Nat /\ BlackCount \in Int /\ LineLength \in Int
      /\ LineLength > 0
  BY CameraAssumption, TracerAssumption, Constants
     DEF CameraAssumption, TracerAssumption
<1>2. /\ sum \in Int
      /\ sum <= Cardinality(Img!Inner) * White
      /\ Cardinality(T) * White <= sum /\ Cardinality(T) \in Nat
  <2>1. \A i \in Img!Inner : norm[i] \in Int /\ 0 <= norm[i] /\ norm[i] <= White
    BY <1>1
  <2>2. \A i \in Img!Inner : norm[i] \in Nat
    BY <2>1
  <2>3. \A i \in T : White <= norm[i]
    BY <1>1
  <2>4. 0 \in Int /\ White \in Int
    BY <1>1
  <2> HIDE DEF sum
  <2>5. sum \in Int /\ sum <= Cardinality(Img!Inner) * White
    BY <2>1, <2>4, ThresholdSum, SumBounds DEF sum
  <2>6. Cardinality(T) * White <= sum /\ Cardinality(T) \in Nat
    <3>1. IsFiniteSet(Img!Inner) /\ White \in Nat
      BY <1>1, ThresholdSum
    <3>2. QED
      BY <2>2, <2>3, <3>1, SumAtLeast DEF sum
  <2>7. QED
    BY <2>5, <2>6
<1>3. sum <= LineLength * White /\ LineLength * White \in Int
  <2> DEFINE c == Cardinality(Img!Inner)
  <2>1. c \in Nat /\ c <= LineLength
    BY ThresholdSum
  <2> HIDE DEF c, sum
  <2>2. /\ (LineLength - c) * White >= 0
        /\ (LineLength - c) * White = LineLength * White - c * White
        /\ c * White \in Int /\ LineLength * White \in Int
    BY <1>1, <2>1
  <2>3. sum <= c * White
    BY <1>2 DEF c
  <2>4. QED
    BY <1>2, <2>2, <2>3
<1>4. (2 * BlackCount + 1) * LineLength <= sum
      /\ (2 * BlackCount + 1) * LineLength \in Int
  <2> HIDE DEF sum
  <2>1. Cardinality(T) * White \in Int
        /\ (2 * BlackCount + 1) * LineLength \in Int
    BY <1>1, <1>2
  <2>2. QED
    BY <1>2, <2>1
<1> HIDE DEF sum
<1>5. q \in Int /\ 0 <= sum - q * LineLength /\ sum - q * LineLength < LineLength
  <2>1. ASSUME NEW x \in Int, NEW y \in Int, y > 0 PROVE x \div y \in Int
    BY <2>1
  <2>2. q \in Int
    BY <1>1, <1>2, <2>1
  <2>3. QED
    BY <1>1, <1>2, <2>2, DivisionRest
<1> HIDE DEF q
<1>6. q * LineLength \in Int
  BY <1>1, <1>5
<1>7. 2 * BlackCount + 1 <= q
  <2>1. SUFFICES ASSUME q < 2 * BlackCount + 1 PROVE FALSE
    BY <1>1, <1>5
  <2>2. (2 * BlackCount - q) * LineLength >= 0
    BY <1>1, <1>5, <2>1
  <2>3. (2 * BlackCount - q) * LineLength
          = (2 * BlackCount + 1) * LineLength - q * LineLength - LineLength
    BY <1>1, <1>5
  <2>4. QED
    BY <1>1, <1>2, <1>4, <1>5, <1>6, <2>2, <2>3
<1>8. q <= White
  <2>1. SUFFICES ASSUME q > White PROVE FALSE
    BY <1>1, <1>5
  <2>2. (q - (White + 1)) * LineLength >= 0
    BY <1>1, <1>5, <2>1
  <2>3. (q - (White + 1)) * LineLength
          = q * LineLength - LineLength * White - LineLength
    BY <1>1, <1>5
  <2>4. QED
    BY <1>1, <1>2, <1>3, <1>5, <1>6, <2>2, <2>3
<1>9. q - 2 * BlackCount \in 1 .. White
  BY <1>1, <1>5, <1>7, <1>8, Constants
<1>10. (q - 2 * BlackCount) % 65536 = q - 2 * BlackCount
  <2>1. White < 65536 /\ 65536 \in Nat
    BY CameraAssumption DEF CameraAssumption
  <2>2. ASSUME NEW n \in Nat, White < n
        PROVE  (q - 2 * BlackCount) % n = q - 2 * BlackCount
    <3>1. q - 2 * BlackCount \in Nat /\ q - 2 * BlackCount < n
      BY <1>1, <1>9, <2>2
    <3>2. QED
      BY <3>1, RemainderSelf
  <2>3. QED
    BY <2>1, <2>2
<1>11. QED
  BY <1>9, <1>10, ThresholdSum DEF q, sum

\* Whatever the line: when its brightest pixels alone outweigh the margins
\* cut off, the threshold of 16 bits does not wrap, and what is darkest on it
\* is black and what is brightest white.
THEOREM TrackSeenHolds == CSpec => []TrackSeen
<1>1. SentInv => TrackSeen
  <2> DEFINE At(v) == {i \in Img!Inner : sentImage[i] = v}
             dark == At(Img!Darkest(sentImage))
             bright == At(Img!Brightest(sentImage))
             cut == Img!Cut(sentImage)
             norm == Img!Normalized(cut)
  <2> SUFFICES ASSUME SentInv, Img!Diversity(sentImage) > 0,
                      Cardinality(bright) * White
                        >= (2 * BlackCount + 1) * LineLength
               PROVE  /\ dark \subseteq Img!Black(sentImage)
                      /\ bright \intersect Img!Black(sentImage) = {}
    BY DEF TrackSeen
  <2>1. sentImage \in Img!RawImage
    BY DEF SentInv
  <2>2. /\ cut \in Img!RawImage
        /\ Img!Darkest(cut) = Img!Darkest(sentImage)
        /\ Img!Brightest(cut) = Img!Brightest(sentImage)
        /\ \A i \in Img!Pixels : /\ Img!Darkest(cut) <= cut[i]
                                 /\ cut[i] <= Img!Brightest(cut)
    BY <2>1, CutKeepsLevels
  <2>3. Img!Diversity(cut) > 0
    BY <2>2 DEF Img!Diversity
  <2>4. \A i \in Img!Inner : i \in Img!Pixels /\ cut[i] = sentImage[i]
    BY InnerPixels DEF Img!Cut
  <2> HIDE DEF cut
  <2>5. \A i \in Img!Pixels :
          /\ norm[i] \in 0 .. White
          /\ cut[i] = Img!Darkest(cut) => norm[i] = 0
          /\ cut[i] = Img!Brightest(cut) => norm[i] = White
    BY <2>2, <2>3, NormalizedBounds
  <2>6. \A i \in dark : norm[i] = 0 /\ i \in Img!Pixels
    BY <2>2, <2>4, <2>5
  <2>7. \A i \in bright : norm[i] = White
    BY <2>2, <2>4, <2>5
  <2>8. \A i \in Img!Inner : norm[i] \in 0 .. White
    BY <2>4, <2>5
  <2> DEFINE thresh == Img!getAverageThreshold(norm)
  <2>9. Img!Black(sentImage) = {i \in Img!Pixels : norm[i] < thresh}
    BY <2>1, NeverLowDiversity DEF Img!Black, cut
  <2>10. bright \in SUBSET Img!Inner
    OBVIOUS
  <2> HIDE DEF norm, dark, bright
  <2>11. thresh \in 1 .. White /\ White \in Nat
    BY <2>7, <2>8, <2>10, ThresholdBetween, CameraAssumption
       DEF CameraAssumption
  <2> HIDE DEF thresh
  <2>12. \A i \in dark : norm[i] < thresh
    BY <2>6, <2>11
  <2>13. \A i \in bright : ~(norm[i] < thresh)
    BY <2>7, <2>11
  <2>14. QED
    BY <2>6, <2>9, <2>12, <2>13
<1>2. QED
  BY <1>1, SentInvHolds, PTL

=============================================================================
