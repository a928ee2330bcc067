--------------------------- MODULE TelemetryFrame ---------------------------
(***************************************************************************)
(* What the car tells its observers of the regions it sees: the tracer's   *)
(* list of the regions of the last image with their number by colour, and  *)
(* the part of it that setSendData() copies into a frame.                  *)
(***************************************************************************)
EXTENDS LineTracerHistory

CONSTANT SendRegions    \* SEND_REGIONS_NUM

\* 25 and 15 in the code: every other one of MaxRegions + 1 regions fits.
ASSUME FrameAssumption == SendRegions \in Nat /\ MaxRegions < 2 * SendRegions

VARIABLES
  currentRegions,       \* currentRegions_: records [region, white]
  whiteRegionsCount     \* whiteRegionsCount_

tvars == <<hvars, currentRegions, whiteRegionsCount>>

TInit == HInit /\ currentRegions = <<>> /\ whiteRegionsCount = 0

\* getRegions() lists the regions of each image from left to right.
Regions ==
  [img \in Images |->
     LET start(k) == CHOOSE s \in Starts(img) :
                       Cardinality({t \in Starts(img) : t < s}) = k - 1
     IN [k \in 1 .. Cardinality(Starts(img)) |->
           [region |-> RegionFrom(img, start(k)),
            white  |-> start(k) \notin img]]]

WhitesIn(list) == Cardinality({k \in DOMAIN list : list[k].white})

\* Mutated: following the edges leaves the number of white regions alone.
ListRegionsStale(img) ==
  \/ /\ followed'
     /\ currentRegions' =
          <<[region |-> Last(imageRegionList'), white |-> TRUE]>>
     /\ UNCHANGED whiteRegionsCount
  \/ /\ ~followed'
     /\ currentRegions' = Regions[img]
     /\ whiteRegionsCount' = WhitesIn(Regions[img])

\* The edges followed are the only region known.
ListRegions(img) ==
  \/ /\ followed'
     /\ currentRegions' =
          <<[region |-> Last(imageRegionList'), white |-> TRUE]>>
     /\ whiteRegionsCount' = 1
  \/ /\ ~followed'
     /\ currentRegions' = Regions[img]
     /\ whiteRegionsCount' = WhitesIn(Regions[img])

TAddImage(img) == HAddImage(img) /\ ListRegions(img)

\* reset() clears the history only.
TReset == HReset /\ UNCHANGED <<currentRegions, whiteRegionsCount>>

\* setSendData(): as many regions as there are white ones are looked at from
\* the left, and the black ones among them skipped.
FrameCount == IF whiteRegionsCount < SendRegions THEN whiteRegionsCount
              ELSE SendRegions
FrameRegions == {k \in 1 .. FrameCount : currentRegions[k].white}

-----------------------------------------------------------------------------
\* Every frame is built without reaching past the list of regions, counts
\* all white regions, and holds at least every other one of them: all it may
\* lose are those on the right.  A region that is followed is always sent.
HalfTheWhitesSent ==
  /\ whiteRegionsCount <= Len(currentRegions)
  /\ FrameCount = whiteRegionsCount
  /\ Cardinality(FrameRegions) >= FrameCount \div 2
  /\ repeats > 0 /\ followed
       => FrameCount = 1 /\ currentRegions[1].region = Found

=============================================================================
