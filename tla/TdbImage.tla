------------------------------ MODULE TdbImage ------------------------------
(***************************************************************************)
(* Images as TileDB arrays: one object of class VCL::TDBImage, driven      *)
(* through its operations in any order, and the arrays of its group.  An   *)
(* image is the row-major sequence of its pixels and is stored from row 1  *)
(* on; row 0 holds its size, in two bytes each.                            *)
(***************************************************************************)
EXTENDS Integers, SequencesExt

CONSTANTS
  TdbNames,   \* names of arrays in the group
  MaxDim,     \* bound: height and width of an image
  MaxPixels,  \* bound: pixels of an image that is written
  MaxUchar,   \* values of a byte, MAX_UCHAR
  MinTile     \* _min_tile_dimension

ASSUME TdbAssumption == MaxDim \in Nat /\ MaxUchar \in Nat \ {0} /\ MinTile \in Nat \ {0}

VARIABLES
  arrays,     \* the arrays of the group
  object,     \* the TDBImage, or NoObject
  written     \* history: what write() was given for each array

tdbVars == <<arrays, object, written>>

Dims == 1..MaxDim
NoArray == <<>>
NoObject == <<>>
NoName == "none"   \* the name of a copy: set_equal() does not copy _name
NoData == <<>>     \* _raw_data == NULL
Blend == -1        \* a pixel computed from others, or not filled in by TileDB

LowByte_only(d) == d % MaxUchar   \* bug: one byte of the size is stored

LowByte(d) == d % (MaxUchar * MaxUchar)

(***************************************************************************)
(* Tiles.                                                                  *)
(***************************************************************************)
GreatestFactor(a) ==
  CHOOSE b \in 1..a :
    /\ b = 1 \/ (a % b = 0 /\ a \div b >= MinTile)
    /\ \A c \in (b + 1)..a : a % c # 0 \/ a \div c < MinTile

\* the dimension grows until it can be divided
Grown(d) == CHOOSE e \in d..(d + 2 * MinTile) :
              /\ GreatestFactor(e) # 1
              /\ \A f \in d..(e - 1) : GreatestFactor(f) = 1

TileExtents(upper) == [x \in 1..2 |-> GreatestFactor(Grown(upper[x]))]

(***************************************************************************)
(* Arrays.                                                                 *)
(***************************************************************************)
Upper(h, w) == <<h + 1, w>>

Stored2D(h, w, upper, pixels) ==
  [h |-> LowByte(h), w |-> LowByte(w), upper |-> upper, tile |-> TileExtents(upper),
   cells |-> [p \in (1..h) \X (0..(w - 1)) |-> pixels[(p[1] - 1) * w + p[2] + 1]]]

InDomain(a, rows, cols) ==
  /\ rows[1] <= rows[2] /\ rows[2] <= Grown(a.upper[1])
  /\ cols[1] <= cols[2] /\ cols[2] <= Grown(a.upper[2])

\* read_from_tdb for an area as large as the buffer
Pixels(a, h, w) ==
  [i \in 1..(h * w) |-> LET p == <<(i - 1) \div w + 1, (i - 1) % w>>
                        IN  IF p \in DOMAIN a.cells THEN a.cells[p] ELSE Blend]

Exists(o) == o.name \in TdbNames /\ arrays[o.name] # NoArray

NewImage(n) == [name |-> n, data |-> NoData, h |-> 0, w |-> 0, upper |-> <<>>, tile |-> <<>>]

\* read_image_metadata, unless the size is known
Sized(o) ==
  LET a == arrays[o.name]
  IN  IF o.h # 0 THEN o ELSE [o EXCEPT !.h = a.h, !.w = a.w, !.upper = Upper(a.h, a.w)]

\* an empty or too large area makes TileDB throw
ReadAll(o) ==
  IF o.data # NoData \/ ~Exists(o) THEN o
  ELSE LET s == Sized(o)
           a == arrays[o.name]
       IN  IF s.h > 0 /\ s.w > 0 /\ InDomain(a, <<1, s.h>>, <<0, s.w - 1>>)
           THEN [s EXCEPT !.data = Pixels(a, s.h, s.w), !.tile = a.tile] ELSE s

\* read(rect) takes x for the row and y for the column, does not skip the row of the size,
\* and asks for one row and one column more than fit the buffer
ReadArea(o, r) ==
  IF o.data # NoData \/ ~Exists(o) THEN o
  ELSE LET s == Sized(o)
           a == arrays[o.name]
           cut == [s EXCEPT !.h = r.height, !.w = r.width]
       IN  IF s.h < r.height + r.y \/ s.w < r.width + r.x THEN s
           ELSE IF InDomain(a, <<r.x, r.x + r.height>>, <<r.y, r.y + r.width>>)
           THEN [cut EXCEPT !.data = [i \in 1..(r.height * r.width) |-> Blend], !.tile = a.tile]
           ELSE cut

(***************************************************************************)
(* resize: the pixels around each pixel of the result, found by their row  *)
(* and column through the tiles.                                           *)
(***************************************************************************)
TileSide(i, size, tile) == IF i \div tile = size \div tile
                           THEN size - (size \div tile) * tile ELSE tile

Index(o, row, column) ==
  LET width == TileSide(column, o.w, o.tile[2])
      height == TileSide(row, o.h, o.tile[1])
  IN  (row \div o.tile[1]) * o.w * o.tile[1] + (row % o.tile[1]) * width
        + (column \div o.tile[2]) * width * height + (column % o.tile[2])

Clamped_late(i, n) == IF i < 0 THEN 0 ELSE IF i > n THEN n ELSE i   \* bug: n is not an index

Clamped(i, n) == IF i < 0 THEN 0 ELSE IF i > n - 1 THEN n - 1 ELSE i

\* floor of the middle of pixel i of new, on the scale of old, and the next
Around(i, old, new) ==
  LET low == ((2 * i + 1) * old - new) \div (2 * new)
  IN  {Clamped(low, old), Clamped(low + 1, old)}

Accessed(o, h, w) ==
  UNION {{Index(o, r, c) : r \in Around(i, o.h, h), c \in Around(j, o.w, w)} :
           i \in 0..(h - 1), j \in 0..(w - 1)}

ResizedData(o, h, w) ==
  [o EXCEPT !.h = h, !.w = w, !.upper = Upper(h, w), !.data = [i \in 1..(h * w) |-> Blend]]

(***************************************************************************)
(* The operations.                                                         *)
(***************************************************************************)
TdbInit ==
  /\ arrays = [n \in TdbNames |-> NoArray]
  /\ object = NoObject
  /\ written = [n \in TdbNames |-> NoArray]

\* write(cv_img), which replaces what has the name
WriteMat == \E n \in TdbNames, h, w \in Dims :
  LET pixels == [i \in 1..(h * w) |-> i] IN
  /\ h * w <= MaxPixels
  /\ arrays' = [arrays EXCEPT ![n] = Stored2D(h, w, Upper(h, w), pixels)]
  /\ object' = [name |-> n, data |-> pixels, h |-> h, w |-> w, upper |-> Upper(h, w),
                tile |-> TileExtents(Upper(h, w))]
  /\ written' = [written EXCEPT ![n] = [h |-> h, w |-> w, data |-> pixels]]

OpenImage == \E n \in TdbNames :
  /\ object' = NewImage(n)
  /\ UNCHANGED <<arrays, written>>

ReadImage ==
  /\ object # NoObject
  /\ object' = ReadAll(object)
  /\ UNCHANGED <<arrays, written>>

CropImage == \E x, y \in 0..1, h, w \in 1..2 :
  /\ object # NoObject
  /\ object' = ReadArea(object, [x |-> x, y |-> y, height |-> h, width |-> w])
  /\ UNCHANGED <<arrays, written>>

ResizeImage == \E h, w \in 1..2 :
  /\ object # NoObject /\ ReadAll(object).data # NoData
  /\ object' = ResizedData(ReadAll(object), h, w)
  /\ UNCHANGED <<arrays, written>>

\* an image that has not been read yet is only read
ThresholdImage == \E value \in {1} :
  /\ object # NoObject
  /\ object' = IF object.data = NoData THEN ReadAll(object)
               ELSE [object EXCEPT !.data =
                       [i \in DOMAIN @ |-> IF @[i] \in 1..value THEN 0 ELSE @[i]]]
  /\ UNCHANGED <<arrays, written>>

\* write(image_id): an array cannot be created twice, but the name is taken first
WriteImage == \E n \in TdbNames :
  /\ object # NoObject /\ object.data # NoData
  /\ LET tile == TileExtents(object.upper) IN
     IF arrays[n] = NoArray
     THEN /\ arrays' = [arrays EXCEPT ![n] =
                          Stored2D(object.h, object.w, object.upper, object.data)]
          /\ written' = [written EXCEPT ![n] =
                           [h |-> object.h, w |-> object.w, data |-> object.data]]
          /\ object' = [object EXCEPT !.name = n, !.tile = tile]
     ELSE /\ object' = [object EXCEPT !.name = n, !.tile = tile]
          /\ UNCHANGED <<arrays, written>>

\* the copy constructor reads the original first
CopyImage ==
  /\ object # NoObject
  /\ object' = [ReadAll(object) EXCEPT !.name = NoName]
  /\ UNCHANGED <<arrays, written>>

\* without a name what is removed is the group
DeleteImage ==
  /\ object # NoObject
  /\ arrays' = [n \in TdbNames |-> IF object.name \in {n, NoName} THEN NoArray ELSE arrays[n]]
  /\ written' = [n \in TdbNames |-> IF arrays'[n] = NoArray THEN NoArray ELSE written[n]]
  /\ object' = [object EXCEPT !.data = NoData]

TdbNext ==
  \/ WriteMat \/ OpenImage \/ ReadImage \/ CropImage \/ ResizeImage \/ ThresholdImage
  \/ WriteImage \/ CopyImage \/ DeleteImage

TdbSpec == TdbInit /\ [][TdbNext]_tdbVars

(***************************************************************************)
(* Properties.                                                             *)
(***************************************************************************)

\* Whatever was cropped, resized, thresholded or copied in between, and under whatever name
\* it was written, an array reads back as the image it was given, if its sides fit two bytes.
TdbRoundTrip ==
  \A n \in TdbNames :
    LET a == arrays[n]
        i == written[n]
    IN  a # NoArray /\ i.h < MaxUchar * MaxUchar /\ i.w < MaxUchar * MaxUchar =>
          LET o == ReadAll(NewImage(n)) IN [h |-> o.h, w |-> o.w, data |-> o.data] = i

\* An image in memory has as many pixels as its size says, and resizing it to any size
\* reads only these, though its tiles need not fit it any more.
ResizeInBounds ==
  object # NoObject /\ object.data # NoData =>
    /\ Len(object.data) = object.h * object.w
    /\ \A h, w \in Dims : \A i \in Accessed(object, h, w) : i \in 0..(object.h * object.w - 1)
=============================================================================
