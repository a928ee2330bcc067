-------------------------- MODULE LineTracerHistory --------------------------
(***************************************************************************)
(* LineTracer with the image its last step looked at and the number of     *)
(* steps that saw this same image, so that properties can compare the      *)
(* edges found with the edges that are there.                              *)
(***************************************************************************)
EXTENDS LineTracer

VARIABLES
  image,     \* the last image
  repeats,   \* how many times in a row it was given, capped; 0 after a reset
  followed   \* whether the last region was found by following the edges

hvars == <<vars, image, repeats, followed>>

\* The images after which a standing car's view has settled, and one more
\* list of them.
Settled   == 3
MaxRepeats == Settled + ListSize + 1

HInit == Init /\ image = {} /\ repeats = 0 /\ followed = FALSE

HAddImage(img) ==
  /\ AddImage(img)
  /\ image' = img
  /\ repeats' = IF repeats = 0 \/ img # image THEN 1
                ELSE IF repeats < MaxRepeats THEN repeats + 1 ELSE repeats
  /\ followed' = CanFollow(img)

HReset == Reset /\ repeats' = 0 /\ followed' = FALSE /\ UNCHANGED image

-----------------------------------------------------------------------------
Found == Last(imageRegionList)

\* Runs of white pixels with a black pixel on both sides.
Lanes(img) ==
  {r \in [left : minLeft + 1 .. maxRight, right : minLeft .. maxRight] :
     /\ r.left < r.right /\ r.left - 1 \in img /\ r.right \in img
     /\ \A i \in r.left .. r.right - 1 : i \notin img}

\* A region that was searched and not computed is the widest lane between
\* two black lines that is there, among those that end before the last
\* region kept: further right the search does not look.
SearchedWidest ==
  repeats > 0 /\ ~followed /\ ~computedRegion
    => /\ Found \in Lanes(image)
       /\ \A r \in Lanes(image) :
            r.right <= Max(Starts(image)) => Size(r) <= Size(Found)

\* From the region the search stores, both edges are known in the last step
\* of findByPreviousIndex only, after which none is left to store them.
FoundTooLate(img) ==
  LET p == Searched[img].region
  IN Followed(img, p) /\ Min(Completed(img, p)) = LastStep

\* The view of a standing car settles: from its fourth copy on, an image
\* gives the same region as before, however the edges were found.  The one
\* exception is a search that is found too late: then the whole line and the
\* region searched may alternate for ever.
ViewSettles ==
  repeats > Settled /\ Len(imageRegionList) > 1
    => LET previous == imageRegionList[Len(imageRegionList) - 1]
       IN \/ Found = previous
          \/ /\ FoundTooLate(image)
             /\ {Found, previous} = {WholeRegion, Searched[image].region}

\* ... and one list of images later the track counts as straight.
SettledIsStraight ==
  repeats = MaxRepeats /\ ~FoundTooLate(image) => Straight(imageRegionList)

\* LineTracer.h says of findByPreviousIndex that it returns True if a region
\* was found, and of its argument that it is the region found: both bounds
\* are edges of the image.
FollowedIsFound ==
  repeats > 0 /\ followed
    => LeftEdge(image, Found.left) /\ RightEdge(image, Found.right)

\* Both edges moved by less than PREV_LINE_SEARCH_REGION from where they
\* were, each its own way, and neither search can meet the image's border.
MovedWithinRadius ==
  LET Radius == 1 - SearchRegion .. SearchRegion - 1
  IN /\ repeats > 0 /\ repeats' > 0
     /\ \A d \in Radius : InBounds(Found.left + d) /\ InBounds(Found.right + d)
     /\ \E d \in Radius : LeftEdge(image', Found.left + d)
     /\ \E d \in Radius : RightEdge(image', Found.right + d)

\* PREV_LINE_SEARCH_REGION is the radius of the region in which an edge is
\* searched from its last position.  Edges that moved within it are followed:
\* the alternation reaches all of it, the last step included.
RadiusSearched == [][MovedWithinRadius => followed']_hvars

=============================================================================
