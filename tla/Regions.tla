------------------------------- MODULE Regions -------------------------------
(***************************************************************************)
(* Bounding boxes: regions are nodes with the coordinates of a rectangle,  *)
(* linked to the images they lie in.  FindBoundingBox asks PMGD for the    *)
(* regions and, for their pixels, once more for the images linked to them, *)
(* and puts the two lists together by position.  How searches work is the  *)
(* subject of GraphSearch, how images are read that of ImageLoop.  The     *)
(* second axis of a rectangle is like the first and left out.              *)
(***************************************************************************)
EXTENDS Lists

CONSTANTS
  RegionImages,  \* the images, numbered from 1 as PMGD hands them out
  Width,         \* of every image
  Corners, Sides,   \* bound: where rectangles start, and how long they are
  MaxRegions     \* bound

ASSUME RegionAssumption ==
  IsFiniteSet(RegionImages) /\ RegionImages = 1..Cardinality(RegionImages) /\ Corners \subseteq Int

VARIABLES
  readable,   \* the images whose file can be read, fixed: all, or all but the first
  regions,    \* their rectangles, in the order of the nodes
  shownIn,    \* pairs of a region and an image that share an edge, of any class
  imageEdges, \* those with an edge of the class that "image" stands for
  found       \* the last FindBoundingBox: what matched, what was asked, and its answer

regionVars == <<readable, regions, shownIn, imageEdges, found>>

Rectangles == [x : Corners, w : Sides]

NotFound == [ids |-> <<>>, limit |-> 0, blob |-> FALSE, status |-> "none",
             entities |-> <<>>, blobs |-> <<>>]

RegionInit ==
  /\ readable \in {RegionImages, RegionImages \ {1}}
  /\ regions = <<>> /\ shownIn = {} /\ imageEdges = {}
  /\ found = NotFound

\* AddBoundingBox, with the images its "image" and its "link" stand for (bound: one each,
\* or all as the image)
AddBoundingBox ==
  \E rect \in Rectangles, image \in {{}, RegionImages} \cup {{m} : m \in RegionImages},
     link \in {{}} \cup {{m} : m \in RegionImages} :
  /\ Len(regions) < MaxRegions
  /\ regions' = Append(regions, rect)
  /\ shownIn' = shownIn \cup ({Len(regions) + 1} \X (image \cup link))
  /\ imageEdges' = imageEdges \cup ({Len(regions) + 1} \X image)
  /\ found' = NotFound
  /\ UNCHANGED readable

\* AddConnection between a region and an image, of another class
ConnectRegion == \E id \in DOMAIN regions, image \in RegionImages :
  /\ shownIn' = shownIn \cup {<<id, image>>}
  /\ found' = NotFound
  /\ UNCHANGED <<readable, regions, imageEdges>>

\* UpdateBoundingBox of those its reference or its constraints stand for
UpdateBoundingBox == \E ids \in SUBSET DOMAIN regions, rect \in Rectangles :
  /\ ids # {}
  /\ regions' = [id \in DOMAIN regions |-> IF id \in ids THEN rect ELSE regions[id]]
  /\ found' = NotFound
  /\ UNCHANGED <<readable, shownIn, imageEdges>>

(***************************************************************************)
(* FindBoundingBox.                                                        *)
(***************************************************************************)
\* "rectangle" becomes constraints on the coordinates, one by one
InRectangle(region, rect) ==
  /\ rect.x <= region.x /\ region.x <= rect.w
  /\ region.w <= rect.w + rect.x

\* the regions that meet the constraints: those linked to one image after those of another
\* when "link" or "image" gives a reference to images, and otherwise in their order
Matching(near, edges, rects) ==
  LET ids == {id \in DOMAIN regions : \A r \in rects : InRectangle(regions[id], r)}
      of(image) == InOrder({id \in ids : <<id, image>> \in edges})
      images == InOrder(near)
  IN  IF near = {} THEN InOrder(ids)
      ELSE FlattenSeq([i \in DOMAIN images |-> of(images[i])])

\* the list behind the reference is sorted, so the second query sees the same order
ByCorner(ids) ==
  LET corners == InOrder({regions[ids[i]].x : i \in DOMAIN ids})
  IN  FlattenSeq([k \in DOMAIN corners |-> Filtered(ids, {id \in DOMAIN regions : regions[id].x = corners[k]})])

ImagesOf_once(ids) ==  \* bug: an image with several of the regions is returned once
  InOrder({m \in RegionImages : \E i \in DOMAIN ids : <<ids[i], m>> \in shownIn})

\* the second query: the images of one region after those of another
ImagesOf(ids) ==
  FlattenSeq([i \in DOMAIN ids |-> InOrder({m \in RegionImages : <<ids[i], m>> \in shownIn})])

\* crop fails, and what it fails on is encoded, when the rectangle is not within the image
Cropped(image, rect) ==
  IF rect.x + rect.w <= Width THEN [image |-> image, rect |-> rect]
  ELSE [image |-> image, rect |-> [x |-> 0, w |-> Width]]

\* a limit of 0 is none; it applies to the regions only
Listed(ids, limit) == IF limit = 0 \/ limit > Len(ids) THEN ids ELSE SubSeq(ids, 1, limit)

\* a region beyond the number of images is left out, one whose image cannot be read has no blob
BoxResponse(ids, images, blob) ==
  LET kept == IF blob /\ Len(images) < Len(ids) THEN SubSeq(ids, 1, Len(images)) ELSE ids
      read == InOrder({i \in DOMAIN kept : images[i] \in readable})
  IN  [entities |-> kept,
       blobs |-> IF blob THEN [n \in DOMAIN read |-> Cropped(images[read[n]], regions[kept[read[n]]])]
                 ELSE <<>>]

\* nothing found is an error as the command always has a reference, and so is, with
\* "unique", more than one region or image.  (Bound: asked once between two changes, and with
\* a limit of at most 1; the state does not depend on what was asked before.)
FindBoundingBox == found = NotFound /\
  \E near \in SUBSET RegionImages, edges \in {shownIn, imageEdges},
     rects \in {{}} \cup {{r} : r \in Rectangles}, sort, blob, unique \in BOOLEAN, limit \in 0..1 :
    LET matching == Matching(near, edges, rects)
        ids == IF sort THEN ByCorner(matching) ELSE matching
        images == IF blob THEN ImagesOf(ids) ELSE <<>>
        failed == ids = <<>> \/ (unique /\ (Len(ids) > 1 \/ Len(images) > 1))
        answer == BoxResponse(Listed(ids, limit), images, blob)
    IN  /\ found' = [NotFound EXCEPT !.ids = ids, !.limit = limit, !.blob = blob,
                       !.status = IF failed THEN "error" ELSE "success",
                       !.entities = IF failed THEN @ ELSE answer.entities,
                       !.blobs = IF failed THEN @ ELSE answer.blobs]
        /\ UNCHANGED <<readable, regions, shownIn, imageEdges>>

RegionNext == AddBoundingBox \/ ConnectRegion \/ UpdateBoundingBox \/ FindBoundingBox

RegionSpec == RegionInit /\ [][RegionNext]_regionVars

-----------------------------------------------------------------------------
\* the region lies in one image only, and that can be read
HasOneImage(id) == \E m \in readable : {n \in RegionImages : <<id, n>> \in shownIn} = {m}

\* The regions found are listed in their order, each with pixels cut out of its own image and,
\* where it lies within the image, exactly its own, whatever the order, the limit and the
\* images that regions share: up to the first region that lies in no image, in several or in
\* one that cannot be read, whatever follows it.  (BoundingBoxCommand.cc:265-270 pairs regions
\* and images by position; such a region shifts all that come after it.)
RegionsPaired == found.status = "success" /\ found.blob =>
  \A i \in DOMAIN Listed(found.ids, found.limit) : (\A k \in 1..i : HasOneImage(found.ids[k])) =>
    /\ i \in DOMAIN found.entities /\ i \in DOMAIN found.blobs
    /\ found.entities[i] = found.ids[i]
    /\ <<found.ids[i], found.blobs[i].image>> \in shownIn
    /\ regions[found.ids[i]].x + regions[found.ids[i]].w <= Width
         => found.blobs[i].rect = regions[found.ids[i]]
=============================================================================
