---------------------------- MODULE TagPipeline ----------------------------
(***************************************************************************)
(* The detection pipeline the AprilTags chapter runs in the browser on a   *)
(* camera frame (src/training/js/ch/02-apriltags.js, 295-328): threshold   *)
(* by tiles, connected components by union-find, and the pixels where a    *)
(* black blob meets a white one.  Pixels are numbered row by row from 0.   *)
(***************************************************************************)
EXTENDS Integers, FiniteSets

CONSTANTS
    W, H,        \* the picture's size
    TS,          \* pixels of a tile's side
    Images,      \* bound: the pictures, functions from pixels to 0..255
    MinBlob      \* pixels a blob needs to be looked at (25)

Pixels == 0..(W * H - 1)

ASSUME PipelineAssumption ==
    /\ W \in Nat \ {0} /\ H \in Nat \ {0} /\ TS \in Nat \ {0} /\ MinBlob \in Nat
    /\ Images \subseteq [Pixels -> 0..255]

VARIABLES
    piImage,  \* img0
    piThr,    \* thr
    piParent, \* parent
    piPhase,  \* the loop that runs
    piAt,     \* the pixel it is at
    piSize,   \* size
    piEdge    \* edge

pipeVars == <<piImage, piThr, piParent, piPhase, piAt, piSize, piEdge>>

X(i) == i % W
Y(i) == i \div W
Skip == 127

Least(S) == CHOOSE x \in S : \A y \in S : x <= y
Greatest(S) == CHOOSE x \in S : \A y \in S : y <= x

\* A pixel's tile and the tiles around it, and what they span.
TilesAround(i) ==
    {j \in Pixels : /\ X(j) \div TS - X(i) \div TS \in -1..1
                    /\ Y(j) \div TS - Y(i) \div TS \in -1..1}
Threshold(img) ==
    [i \in Pixels |->
        LET mn == Least({img[j] : j \in TilesAround(i)})
            mx == Greatest({img[j] : j \in TilesAround(i)})
        IN  IF mx - mn < 20 THEN Skip
            ELSE IF 2 * (img[i] - mn) > mx - mn THEN 255 ELSE 0]

\* find(): the root, and the parents it leaves, each pixel it goes through moved up by one.
Root(parent, i) ==
    LET root[a \in Pixels] == IF parent[a] = a THEN a ELSE root[parent[a]]
    IN  root[i]
Halved(parent, i) ==
    LET through[a \in Pixels] ==
            IF parent[a] = a THEN {} ELSE {a} \union through[parent[parent[a]]]
    IN  [a \in Pixels |-> IF a \in through[i] THEN parent[parent[a]] ELSE parent[a]]

\* Mutant: the first root becomes the second one's child, whichever is lower.
UniteUpwards(parent, a, b) ==
    LET found == Halved(Halved(parent, a), b)
    IN  [found EXCEPT ![Root(parent, a)] = Root(parent, b)]

\* Mutant: the pixel itself, not its root, becomes the child.
UniteUnfound(parent, a, b) == [parent EXCEPT ![Greatest({a, b})] = Least({a, b})]

\* unite(): the higher root becomes a child of the lower one.
Unite(parent, a, b) ==
    LET found == Halved(Halved(parent, a), b)
        ra == Root(parent, a)
        rb == Root(parent, b)
    IN  IF ra = rb THEN found ELSE [found EXCEPT ![Greatest({ra, rb})] = Least({ra, rb})]

PipelineInit ==
    /\ piImage \in Images
    /\ piThr = Threshold(piImage)
    /\ piParent = [i \in Pixels |-> i]
    /\ piPhase = "unite" /\ piAt = 0
    /\ piSize = [i \in Pixels |-> 0]
    /\ piEdge = {}

\* The loops go on to the next pixel, the last one to the next loop.
NextPixel(then) ==
    /\ piAt' = IF piAt + 1 \in Pixels THEN piAt + 1 ELSE 0
    /\ piPhase' = IF piAt + 1 \in Pixels THEN piPhase ELSE then

\* Step 3: a pixel and the equal ones to its right and below it.
UnitePixel ==
    /\ piPhase = "unite"
    /\ LET i == piAt
           right == IF X(i) + 1 < W /\ piThr[i] /= Skip /\ piThr[i + 1] = piThr[i]
                    THEN Unite(piParent, i, i + 1) ELSE piParent
       IN  piParent' = IF Y(i) + 1 < H /\ piThr[i] /= Skip /\ piThr[i + W] = piThr[i]
                       THEN Unite(right, i, i + W) ELSE right
    /\ NextPixel("count")
    /\ UNCHANGED <<piImage, piThr, piSize, piEdge>>

\* The blobs' sizes, kept at their roots.
CountPixel ==
    /\ piPhase = "count"
    /\ IF piThr[piAt] /= Skip
       THEN /\ piSize' = [piSize EXCEPT ![Root(piParent, piAt)] = @ + 1]
            /\ piParent' = Halved(piParent, piAt)
       ELSE UNCHANGED <<piSize, piParent>>
    /\ NextPixel("edge")
    /\ UNCHANGED <<piImage, piThr, piEdge>>

Big(i) == piSize[Root(piParent, i)] >= MinBlob

\* Step 4: a pixel that is not on the frame's rim, and those to its right and below it that are
\* of the other colour.  The size of a blob is looked up at its root, which find() seeks.
Sought(parent, seeks, i) == IF seeks THEN Halved(parent, i) ELSE parent
Seeks(i) == X(i) \in 1..(W - 2) /\ Y(i) \in 1..(H - 2) /\ piThr[i] /= Skip
Other(i, j) == piThr[j] /= Skip /\ piThr[j] /= piThr[i]

EdgePixel ==
    /\ piPhase = "edge"
    /\ LET i == piAt
           first == Sought(piParent, Seeks(i), i)
           second == Sought(first, Seeks(i) /\ Big(i) /\ Other(i, i + 1), i + 1)
           meets == {j \in {i + 1, i + W} : Other(i, j) /\ Big(j)}
       IN  /\ piParent' = Sought(second, Seeks(i) /\ Big(i) /\ Other(i, i + W), i + W)
           /\ piEdge' = IF Seeks(i) /\ Big(i) /\ meets /= {}
                        THEN piEdge \union {i} \union meets ELSE piEdge
    /\ NextPixel("done")
    /\ UNCHANGED <<piImage, piThr, piSize>>

PipelineNext == UnitePixel \/ CountPixel \/ EdgePixel

PipelineSpec == PipelineInit /\ [][PipelineNext]_pipeVars

-----------------------------------------------------------------------------

PipelineTypeOK ==
    /\ piImage \in Images
    /\ piThr \in [Pixels -> {0, Skip, 255}]
    /\ piParent \in [Pixels -> Pixels]
    /\ piPhase \in {"unite", "count", "edge", "done"}
    /\ piAt \in Pixels
    /\ piSize \in [Pixels -> 0..(W * H)]
    /\ piEdge \subseteq Pixels

(* No pixel's parent comes after it, so every search for a root ends, and ends at a pixel that
   is its own parent; halving the way and joining roots keep it so. *)
ParentsComeFirst == \A i \in Pixels : piParent[i] <= i

\* The pixels a blob reaches from i: neighbours of one value.
Alike(i, j) ==
    /\ piThr[i] /= Skip /\ piThr[i] = piThr[j]
    /\ \/ j \in {i + 1, i - 1} /\ Y(j) = Y(i)
       \/ j \in {i + W, i - W}
Blob(i) ==
    LET reach[n \in Nat] ==
            IF n = 0 THEN {i}
            ELSE LET near == reach[n - 1]
                 IN  near \union {j \in Pixels : \E k \in near : Alike(k, j)}
    IN  reach[W * H]

(* When the loops are over, two pixels have one root just when they are in one blob, and the
   count kept at a root is its blob's; the pixels marked as edge are where a black blob and a
   white one, both big enough, touch.  The order of the scan and the shortening of the ways
   never join or part what they should not. *)
BlobsAreComponents ==
    piPhase = "done" =>
        LET blob == [i \in Pixels |-> Blob(i)]
            root == [i \in Pixels |-> Root(piParent, i)]
        IN  \A i \in Pixels :
              /\ piThr[i] /= Skip => /\ blob[i] = {j \in Pixels : root[j] = root[i]}
                                     /\ piSize[root[i]] = Cardinality(blob[i])
              /\ i \in piEdge =>
                    \E j \in {i - 1, i + 1, i - W, i + W} \intersect Pixels :
                       /\ {piThr[i], piThr[j]} = {0, 255}
                       /\ Cardinality(blob[i]) >= MinBlob /\ Cardinality(blob[j]) >= MinBlob

=============================================================================
