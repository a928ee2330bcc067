----------------------------- MODULE LineTracer -----------------------------
(***************************************************************************)
(* LineTracer: from one thresholded camera line after the other, where the *)
(* two edges of the track are.  An image is the set of its black pixels.   *)
(*                                                                         *)
(* addImage first follows the edges from their last position; if that      *)
(* fails it searches the whole line for the widest white region, and if    *)
(* that has not a black one on both sides it computes the missing edge.    *)
(* The loops are stated by what they find: findByPreviousIndex by the step *)
(* of its search at which both edges are known, getRegions by the set of   *)
(* regions between the colour changes.                                     *)
(***************************************************************************)
EXTENDS Integers, Sequences, FiniteSetsExt

CONSTANTS
  LineLength,     \* TFC_CAMERA_LINE_LENGTH
  BlackCount,     \* BLACK_COUNT: pixels not looked at on either side
  SearchRegion,   \* PREV_LINE_SEARCH_REGION
  MaxRegions,     \* MAX_REGIONS_COUNT
  Distance,       \* REGION_DISTANCE + REGION_COMPUTED_SIZE, rounded down
  ListSize,       \* listSize_
  Tolerance,      \* TOLERANCE
  Images          \* the thresholded images the camera may give

minLeft  == BlackCount
maxRight == LineLength - BlackCount - 1

ASSUME TracerAssumption ==
  /\ BlackCount \in Nat /\ LineLength \in 1 .. 255 /\ minLeft < maxRight
  /\ SearchRegion \in Nat \ {0, 1}
  /\ MaxRegions \in Nat
  /\ Distance \in Nat /\ 2 * (Distance + 1) <= LineLength
  /\ ListSize \in Nat \ {0} /\ Tolerance \in Nat
  /\ Images \subseteq SUBSET (minLeft .. maxRight)

VARIABLES
  imageRegionList,        \* the white regions of the last images
  hasLeft, hasRight,      \* hasLeft_, hasRight_
  computedRegion          \* computedRegion_

vars == <<imageRegionList, hasLeft, hasRight, computedRegion>>

\* A white Region: its two bounds.
Region == [left : 0 .. 255, right : 0 .. 255]
WholeRegion == [left |-> minLeft, right |-> maxRight]

Init ==
  /\ imageRegionList = <<>>
  /\ hasLeft = FALSE /\ hasRight = FALSE
  /\ computedRegion \in BOOLEAN

-----------------------------------------------------------------------------
(* findByPreviousIndex: from the last bounds p, one pixel further away on  *)
(* alternate sides at each step, both edges in the same step.              *)

LeftEdge(img, i)  == i \in img /\ i + 1 \notin img
RightEdge(img, i) == i \in img /\ i - 1 \notin img

InBounds(i) == BlackCount < i /\ i < LineLength - BlackCount - 1

\* Mutated: the search ends a step on either side too early.
LastStepEarly == 2 * (SearchRegion - 2)

LastStep == 2 * (SearchRegion - 1)
Steps == 0 .. LastStep
Offset(k) == IF k % 2 = 0 THEN -(k \div 2) ELSE (k + 1) \div 2

LeftHits(img, p)  == {k \in Steps : LeftEdge(img, p.left + Offset(k))}
RightHits(img, p) == {k \in Steps : RightEdge(img, p.right + Offset(k))}

\* Step k is reached: an index out of bounds stops the search for good,
\* unless its edge had been found before.
Reached(img, p, k) ==
  \A j \in 0 .. k :
    /\ InBounds(p.left + Offset(j)) \/ \E i \in LeftHits(img, p) : i < j
    /\ InBounds(p.right + Offset(j)) \/ \E i \in RightHits(img, p) : i < j

\* The steps at which both edges are known.
Completed(img, p) ==
  {k \in Steps : /\ \E i \in LeftHits(img, p) : i <= k
                 /\ \E i \in RightHits(img, p) : i <= k
                 /\ Reached(img, p, k)}

Followed(img, p) == Completed(img, p) # {}

\* Mutated: the index that went on searching is stored, not the one found.
FollowedRegionLast(img, p) ==
  IF Min(Completed(img, p)) = LastStep THEN WholeRegion
  ELSE [left  |-> p.left + Offset(Min(Completed(img, p))),
        right |-> p.right + Offset(Min(Completed(img, p)))]

\* The bounds are stored at the start of the next step: after the last one
\* there is none, and the region stays what its constructor made it.
FollowedRegion(img, p) ==
  IF Min(Completed(img, p)) = LastStep THEN WholeRegion
  ELSE [left  |-> p.left + Offset(Min(LeftHits(img, p))),
        right |-> p.right + Offset(Min(RightHits(img, p)))]

-----------------------------------------------------------------------------
(* getRegions and the search for the widest white one.                     *)

Borders(img) ==
  {i \in minLeft + 1 .. maxRight : (i \in img) # (i - 1 \in img)}

\* Only MaxRegions borders are kept: the region after the last takes the rest.
KeptBorders(img) ==
  {i \in Borders(img) :
     Cardinality({j \in Borders(img) : j < i}) < MaxRegions}

Starts(img) == {minLeft} \union KeptBorders(img)

\* The first region is drawn to the left end of the line, the last to the
\* right end; in between a region ends at the first pixel of the next.
RegionFrom(img, s) ==
  [left  |-> IF s = minLeft THEN 0 ELSE s,
   right |-> IF s = Max(Starts(img)) THEN LineLength - 1
             ELSE Min({t \in Starts(img) : t > s})]

Whites(img) == {RegionFrom(img, s) : s \in Starts(img) \ img}
Blacks(img) == {RegionFrom(img, s) : s \in Starts(img) \intersect img}

Size(r)   == r.right - r.left
Center(r) == (r.right + r.left) \div 2

\* Mutated: the first white region is taken for the widest.
BiggestWhiteFirst(img) ==
  IF Whites(img) = {} THEN [left |-> minLeft, right |-> minLeft]
  ELSE CHOOSE r \in Whites(img) : \A q \in Whites(img) : r.left <= q.left

\* The first of the widest; with no white pixel an empty one at the left.
BiggestWhite(img) ==
  IF Whites(img) = {} THEN [left |-> minLeft, right |-> minLeft]
  ELSE CHOOSE r \in Whites(img) :
         \A q \in Whites(img) :
           Size(q) < Size(r) \/ (Size(q) = Size(r) /\ r.left <= q.left)

HasLeftLine(img) ==
  \E r \in Blacks(img) : Center(r) < BiggestWhite(img).left
HasRightLine(img) ==
  \E r \in Blacks(img) : Center(r) > BiggestWhite(img).right

\* Mutated: a computed region is not clamped by the constructor of Region.
ClampedNot(r) == r

\* The constructor of Region, for bounds in order.
Clamped(r) ==
  LET clamp(x) == IF x < minLeft THEN minLeft
                  ELSE IF x > maxRight THEN maxRight ELSE x
  IN [left |-> clamp(r.left), right |-> clamp(r.right)]

\* The half the region lies in decides which edge is believed.
CompletedRegion(r) ==
  IF Center(r) > LineLength \div 2
  THEN [r EXCEPT !.left = r.right - Distance - 1]
  ELSE [r EXCEPT !.right = r.left + Distance]

SearchedRegion(img) ==
  Clamped(IF HasLeftLine(img) /\ HasRightLine(img) THEN BiggestWhite(img)
          ELSE CompletedRegion(BiggestWhite(img)))

\* What the search of each image finds.
Searched ==
  [img \in Images |-> [region |-> SearchedRegion(img),
                       left   |-> HasLeftLine(img),
                       right  |-> HasRightLine(img)]]

-----------------------------------------------------------------------------
(* addImage, reset, and what getDistancesPair computes from the list.      *)

\* Mutated: the newest region is dropped.
KeptOldest ==
  IF Len(imageRegionList) > ListSize
  THEN SubSeq(imageRegionList, 1, ListSize) ELSE imageRegionList

Kept == IF Len(imageRegionList) > ListSize THEN Tail(imageRegionList)
        ELSE imageRegionList

Last(s) == s[Len(s)]

CanFollow(img) == Kept # <<>> /\ Followed(img, Last(Kept))

Follow(img) ==
  /\ CanFollow(img)
  /\ imageRegionList' = Append(Kept, FollowedRegion(img, Last(Kept)))
  /\ computedRegion' = FALSE
  /\ UNCHANGED <<hasLeft, hasRight>>

Search(img) ==
  /\ ~CanFollow(img)
  /\ imageRegionList' = Append(Kept, Searched[img].region)
  /\ hasLeft' = Searched[img].left /\ hasRight' = Searched[img].right
  /\ computedRegion' = ~(Searched[img].left /\ Searched[img].right)

AddImage(img) == Follow(img) \/ Search(img)

Reset ==
  /\ imageRegionList' = <<>>
  /\ UNCHANGED <<hasLeft, hasRight, computedRegion>>

Next == (\E img \in Images : AddImage(img)) \/ Reset

Spec == Init /\ [][Next]_vars

\* currentAverage_, which the car steers by; the list must not be empty.
Average(list) ==
  LET mean(bound(_)) ==
        MapThenSumSet(LAMBDA i : bound(list[i]), DOMAIN list) \div Len(list)
  IN [left |-> mean(LAMBDA r : r.left), right |-> mean(LAMBDA r : r.right)]

\* unchangedLeft_ and unchangedRight_: the last bounds are near the average.
Near(x, y) == x - y \in -Tolerance .. Tolerance
Straight(list) ==
  /\ Near(Last(list).left, Average(list).left)
  /\ Near(Last(list).right, Average(list).right)

-----------------------------------------------------------------------------
(* Properties.                                                             *)

\* Every region on the list lies between minLeft and maxRight, whichever of
\* the ways of finding it gave it, so no later index leaves the image; and
\* the list never holds more than ListSize + 1 of them.
TypeOK ==
  /\ Len(imageRegionList) <= ListSize + 1
  /\ \A i \in 1 .. Len(imageRegionList) :
       imageRegionList[i] \in [left : minLeft .. maxRight,
                               right : minLeft .. maxRight]
  /\ hasLeft \in BOOLEAN /\ hasRight \in BOOLEAN
  /\ computedRegion \in BOOLEAN

=============================================================================
