----------------------------- MODULE BlobFlood -----------------------------
(***************************************************************************)
(* The blobs of the CUDA chapter's picture (src/training/js/ch/08-cuda.js, *)
(* 334-375): the same threshold, then blobs of eight neighbours named by a *)
(* flood fill with a stack, and the points where a black blob meets a      *)
(* white one, kept per pair of blobs.                                      *)
(***************************************************************************)
EXTENDS TagPipeline, Sequences, Filtering

VARIABLES
    flImage, \* dec
    flThr,   \* th
    flLab,   \* lab: each pixel's blob, or -1
    flSizes, \* sizes: each finished blob's pixels
    flAt,    \* i: the pixel of the outer loop
    flStack, \* stack: pixels of the blob being filled
    flCount, \* n: its pixels so far
    flPairs  \* pairs: for a black and a white blob, the pixels they touch at

floodVars == <<flImage, flThr, flLab, flSizes, flAt, flStack, flCount, flPairs>>

\* The 3x3 pixels around one.
Around(p) == {q \in Pixels : X(q) - X(p) \in -1..1 /\ Y(q) - Y(p) \in -1..1}

FloodInit ==
    /\ flImage \in Images
    /\ flThr = Threshold(flImage)
    /\ flLab = [p \in Pixels |-> -1]
    /\ flSizes = <<>> /\ flAt = 0 /\ flStack = <<>> /\ flCount = 0 /\ flPairs = {}

\* The pixels in the order loops over rows and columns come to them.
RowByRow == [k \in 1..(W * H) |-> k - 1]

\* The outer loop: a pixel that has a name or none to get is passed, another starts a blob.
PassPixel ==
    /\ flStack = <<>> /\ flCount = 0 /\ flAt \in Pixels
    /\ flLab[flAt] >= 0 \/ flThr[flAt] = Skip
    /\ flAt' = flAt + 1
    /\ UNCHANGED <<flImage, flThr, flLab, flSizes, flStack, flCount, flPairs>>

StartBlob ==
    /\ flStack = <<>> /\ flCount = 0 /\ flAt \in Pixels
    /\ flLab[flAt] < 0 /\ flThr[flAt] /= Skip
    /\ flStack' = <<flAt>>
    /\ flLab' = [flLab EXCEPT ![flAt] = Len(flSizes)]
    /\ UNCHANGED <<flImage, flThr, flSizes, flAt, flCount, flPairs>>

\* Mutant: a pixel gets its name when it is taken from the stack.
FillPixelLate ==
    /\ flStack /= <<>> /\ Len(flStack) <= W * H
    /\ LET p == flStack[Len(flStack)]
           fresh == {q \in Around(p) \ {p} : flLab[q] < 0 /\ flThr[q] = flThr[p]}
       IN  /\ flStack' = SubSeq(flStack, 1, Len(flStack) - 1)
                         \o Only(RowByRow, fresh)
           /\ flLab' = [flLab EXCEPT ![p] = Len(flSizes)]
    /\ flCount' = flCount + 1
    /\ UNCHANGED <<flImage, flThr, flSizes, flAt, flPairs>>

\* The inner loop: a pixel of the blob names its neighbours and puts them on the stack, row by
\* row.
FillPixel ==
    /\ flStack /= <<>>
    /\ LET p == flStack[Len(flStack)]
           fresh == {q \in Around(p) : flLab[q] < 0 /\ flThr[q] = flThr[p]}
       IN  /\ flStack' = SubSeq(flStack, 1, Len(flStack) - 1)
                         \o Only(RowByRow, fresh)
           /\ flLab' = [q \in Pixels |-> IF q \in fresh THEN Len(flSizes) ELSE flLab[q]]
    /\ flCount' = flCount + 1
    /\ UNCHANGED <<flImage, flThr, flSizes, flAt, flPairs>>

EndBlob ==
    /\ flStack = <<>> /\ flCount > 0
    /\ flSizes' = Append(flSizes, flCount)
    /\ flCount' = 0
    /\ flAt' = flAt + 1
    /\ UNCHANGED <<flImage, flThr, flLab, flStack, flPairs>>

BigBlob(p) == flLab[p] >= 0 /\ flSizes[flLab[p] + 1] >= MinBlob

\* The neighbours a pixel looks at: right, below, and below to both sides.
Ahead(p) == {q \in Around(p) : Y(q) > Y(p) \/ (Y(q) = Y(p) /\ X(q) > X(p))}

\* After the last pixel: every pair of big blobs of different colours that touch.
MeetBlobs ==
    /\ flAt = W * H
    /\ flPairs' = {pair \in Pixels \X Pixels :
                      /\ pair[2] \in Ahead(pair[1]) /\ flThr[pair[1]] /= flThr[pair[2]]
                      /\ BigBlob(pair[1]) /\ BigBlob(pair[2])}
    /\ flAt' = flAt + 1
    /\ UNCHANGED <<flImage, flThr, flLab, flSizes, flStack, flCount>>

FloodNext == PassPixel \/ StartBlob \/ FillPixel \/ EndBlob \/ MeetBlobs

-----------------------------------------------------------------------------

FloodTypeOK ==
    /\ flImage \in Images /\ flThr \in [Pixels -> {0, Skip, 255}]
    /\ flLab \in [Pixels -> -1..(W * H - 1)]
    /\ flSizes \in Seq(1..(W * H))
    /\ flAt \in 0..(W * H + 1)
    /\ flStack \in Seq(Pixels) /\ flCount \in 0..(W * H)
    /\ flPairs \subseteq Pixels \X Pixels

\* The pixels of p's blob of eight neighbours.
Blob8(p) ==
    LET reach[n \in Nat] ==
            IF n = 0 THEN {p}
            ELSE LET near == reach[n - 1]
                 IN  near \union {q \in Pixels : flThr[q] = flThr[p]
                                                 /\ \E k \in near : q \in Around(k)}
    IN  reach[W * H]

(* The names the flood fill gives are those of the blobs, each with its size;
   every pixel goes onto the stack once, so no size is too big.
   Two pixels are a pair just when they touch and are of big blobs of different colours. *)
FloodNamesBlobs ==
    flAt = W * H + 1 =>
        LET blob == [p \in Pixels |-> Blob8(p)]
        IN  \A p \in Pixels :
              /\ flThr[p] = Skip => flLab[p] = -1
              /\ flThr[p] /= Skip =>
                    /\ blob[p] = {q \in Pixels : flLab[q] = flLab[p]}
                    /\ flSizes[flLab[p] + 1] = Cardinality(blob[p])
              /\ \A q \in Around(p) :
                    (<<p, q>> \in flPairs \/ <<q, p>> \in flPairs)
                        <=> /\ {flThr[p], flThr[q]} = {0, 255}
                            /\ Cardinality(blob[p]) >= MinBlob /\ Cardinality(blob[q]) >= MinBlob

=============================================================================
