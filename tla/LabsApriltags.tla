--------------------------- MODULE LabsApriltags ---------------------------
(***************************************************************************)
(* The AprilTags chapter (src/training/js/ch/02-apriltags.js) and the tag  *)
(* codes of site.js: a tag's squares and bits, the decoder, the lab that   *)
(* flips squares, the anatomy lab, and the crossfades of the pipeline's    *)
(* story.                                                                  *)
(*                                                                         *)
(* A pattern is the set of its white squares, numbered row by row.         *)
(***************************************************************************)
EXTENDS Integers, Sequences, FiniteSets, Filtering

CONSTANTS
    HamCells,    \* bound: the squares the reader flips
    HamRandom,   \* bound: the random patterns
    HamLastTag,  \* bound: the last tag the lab goes on to
    StoryStages, \* stages of the pipeline's story, 0 first
    FadeFrames   \* frames a crossfade takes (300 ms)

ASSUME ApriltagsAssumption ==
    /\ HamCells \subseteq 0..35 /\ IsFiniteSet(HamCells)
    /\ HamRandom \subseteq SUBSET (0..35)
    /\ HamLastTag \in 3..47
    /\ 0 \in StoryStages /\ FadeFrames \in Nat \ {0}

-----------------------------------------------------------------------------
(* The tags *)

\* site.js: the codes' 36 bits, as two halves of 18, and the square of each bit in the 8x8 grid.
CODES == <<
    <<221056, 38987>>, <<226969, 150695>>, <<225576, 116769>>, <<230893, 28905>>,
    <<245319, 65969>>, <<250023, 56691>>, <<5992, 168485>>, <<17435, 47683>>,
    <<35055, 186269>>, <<34772, 74044>>, <<53164, 105638>>, <<64987, 176376>>,
    <<72298, 95252>>, <<71539, 254128>>, <<76177, 155506>>, <<83456, 121750>>,
    <<96997, 27470>>, <<107167, 49900>>, <<113710, 140882>>, <<123353, 87453>>,
    <<138976, 250153>>, <<138033, 42437>>, <<142739, 129295>>, <<160093, 243217>>,
    <<167428, 62197>>, <<179509, 220035>>, <<185960, 16367>>, <<191554, 94085>>,
    <<214756, 195702>>, <<213877, 68050>>, <<232255, 106848>>, <<49106, 97379>>,
    <<72848, 26395>>, <<82206, 142933>>, <<101746, 165831>>, <<107593, 82278>>,
    <<107472, 252234>>, <<113609, 48566>>, <<144246, 63622>>, <<161701, 177944>>,
    <<180187, 154250>>, <<191377, 192553>>, <<215190, 224601>>, <<228910, 166913>>,
    <<232913, 41519>>, <<257750, 79709>>, <<25252, 92200>>, <<35786, 115130>>>>
BitX == <<1,2,3,4,5,2,3,4,3,6,6,6,6,6,5,5,5,4,6,5,4,3,2,5,4,3,4,1,1,1,1,1,2,2,2,3>>
BitY == <<1,1,1,1,1,2,2,2,3,1,2,3,4,5,2,3,4,3,6,6,6,6,6,5,5,5,4,6,5,4,3,2,5,4,3,4>>

Ids == 0..47
Bits == 0..35
Squares == 0..35
Rotations == 0..3

\* Bit i of a tag's code, the first one the highest.
Bit(id, i) ==
    IF i < 18 THEN (CODES[id + 1][1] \div 2^(17 - i)) % 2
              ELSE (CODES[id + 1][2] \div 2^(35 - i)) % 2

\* Site.tagBitIndex and its inverse.
SquareOf(i) == 6 * (BitY[i + 1] - 1) + BitX[i + 1] - 1
TagBitIndex(s) == CHOOSE i \in Bits : SquareOf(i) = s

\* data6(id) and rot6, 90 degrees clockwise.
Data6(id) == {SquareOf(i) : i \in {k \in Bits : Bit(id, k) = 1}}
Rot6(w) == {s \in Squares : 6 * (5 - (s % 6)) + s \div 6 \in w}

\* All codes in all rotations.
Turned == [id \in Ids |-> LET a == Data6(id) b == Rot6(a) c == Rot6(b)
                          IN  [r \in Rotations |-> <<a, b, c, Rot6(c)>>[r + 1]]]

Hamming(v, w) == Cardinality((v \ w) \union (w \ v))

\* No code, turned or not, is nearer than 11 squares to another or to itself turned, which is
\* what the decoder's names rest on.
ASSUME CodesApart ==
    \A a, b \in Ids : \A r \in Rotations :
        (a = b /\ r = 0) \/ (a > b) \/ Hamming(Turned[a][0], Turned[b][r]) >= 11

SmallestIn(S) == CHOOSE x \in S : \A y \in S : x <= y

\* Mutant: tags are taken as upright.
DecodeUpright(bits) ==
    LET d == [id \in Ids |-> Hamming(bits, Turned[id][0])]
        id == CHOOSE k \in Ids : \A j \in Ids : d[k] < d[j] \/ (d[k] = d[j] /\ k <= j)
    IN  [id |-> id, rot |-> 0, d |-> d[id], second |-> SmallestIn({d[j] : j \in Ids \ {id}})]

\* decode(): the first of the nearest codes, and how far the nearest other tag is.
Decode(bits) ==
    LET d == [id \in Ids |-> [r \in Rotations |-> Hamming(bits, Turned[id][r])]]
        perId == [id \in Ids |-> SmallestIn({d[id][r] : r \in Rotations})]
        id == CHOOSE k \in Ids :
                 \A j \in Ids : perId[k] < perId[j] \/ (perId[k] = perId[j] /\ k <= j)
    IN  [id |-> id,
         rot |-> SmallestIn({r \in Rotations : d[id][r] = perId[id]}),
         d |-> perId[id],
         second |-> SmallestIn({perId[j] : j \in Ids \ {id}})]

-----------------------------------------------------------------------------
(* The Hamming lab *)

VARIABLES
    hmBase, \* base: the tag it was last reset to
    hmCur,  \* cur: the pattern
    hmRef   \* ref: the pattern without the reader's flips

hammingVars == <<hmBase, hmCur, hmRef>>

HammingTypeOK == hmBase \in 3..HamLastTag /\ hmCur \subseteq Squares /\ hmRef \subseteq Squares

HammingInit == hmBase = 3 /\ hmCur = Turned[3][0] /\ hmRef = hmCur

\* A square, or the buttons that flip one or five of them.
FlipSquares(squares) ==
    /\ hmCur' = (hmCur \ squares) \union (squares \ hmCur)
    /\ UNCHANGED <<hmBase, hmRef>>

TurnPattern == hmCur' = Rot6(hmCur) /\ hmRef' = Rot6(hmRef) /\ UNCHANGED hmBase

RandomPattern(w) == hmCur' = w /\ hmRef' = w /\ UNCHANGED hmBase

NextTag ==
    /\ hmBase < HamLastTag
    /\ hmBase' = (hmBase + 1) % Cardinality(Ids)
    /\ hmCur' = Turned[hmBase'][0]
    /\ hmRef' = hmCur'

HammingNext ==
    \/ \E squares \in SUBSET HamCells : Cardinality(squares) \in {1, 5} /\ FlipSquares(squares)
    \/ TurnPattern
    \/ \E w \in HamRandom : RandomPattern(w)
    \/ NextTag

-----------------------------------------------------------------------------
(* The anatomy lab *)

VARIABLES
    anId,     \* id
    anSquare, \* the data square that is lit in the tag, or -1
    anBit,    \* the bit that is lit in the list, or -1
    anField   \* the tag the number field shows

anatomyVars == <<anId, anSquare, anBit, anField>>

AnatomyTypeOK ==
    /\ anId \in Ids /\ anField \in Ids
    /\ anSquare \in Squares \union {-1} /\ anBit \in Bits \union {-1}

AnatomyInit == anId = 3 /\ anSquare = -1 /\ anBit = -1 /\ anField = 3

\* setId and draw(): nothing stays lit.
DrawTag(id) == anId' = id /\ anField' = id /\ anSquare' = -1 /\ anBit' = -1

PrevTag == DrawTag((anId - 1 + 48) % 48)
FollowingTag == DrawTag((anId + 1 + 48) % 48)
TypeTag(v) == DrawTag(IF v < 0 THEN 0 ELSE IF v > 47 THEN 47 ELSE v)
ShowNumbers == DrawTag(anId)

\* hi(), from the tag or from the list of bits.
PointSquare(s) == anSquare' = s /\ anBit' = TagBitIndex(s) /\ UNCHANGED <<anId, anField>>
PointBorder == anSquare' = -1 /\ anBit' = -1 /\ UNCHANGED <<anId, anField>>
PointBit(i) ==
    \E s \in Squares : TagBitIndex(s) = i /\ PointSquare(s)

AnatomyNext ==
    \/ PrevTag \/ FollowingTag \/ ShowNumbers \/ PointBorder
    \/ \E v \in {-1, 0, 48} : TypeTag(v)
    \/ \E s \in HamCells : PointSquare(s)
    \/ \E i \in {0, 35} : PointBit(i)

-----------------------------------------------------------------------------
(* The story's crossfades *)

VARIABLES
    sdReduced, \* Site.reduced: no animation
    sdShown,   \* shown
    sdFades,   \* the callbacks that wait for the next frame: each one's stage and age
    sdDrawn    \* the stage the canvas and the caption show

fadeVars == <<sdReduced, sdShown, sdFades, sdDrawn>>

FadeTypeOK ==
    /\ sdReduced \in BOOLEAN
    /\ sdShown \in StoryStages /\ sdDrawn \in StoryStages
    /\ sdFades \in Seq([stage : StoryStages, age : 0..FadeFrames])
    /\ \A i \in DOMAIN sdFades : sdFades[i].age < FadeFrames

FadeInit == sdReduced \in BOOLEAN /\ sdShown = 0 /\ sdFades = <<>> /\ sdDrawn = 0

\* go(s), which Site.scrolly calls; the queue is bounded by what fits into one frame.
StoryGo(s) ==
    /\ s /= sdShown /\ Len(sdFades) < 3
    /\ sdShown' = s
    /\ IF sdReduced
       THEN sdDrawn' = s /\ UNCHANGED sdFades
       ELSE sdFades' = Append(sdFades, [stage |-> s, age |-> 0]) /\ UNCHANGED sdDrawn
    /\ UNCHANGED sdReduced

\* A frame runs the callbacks in the order they were asked for: each draws its stage, and asks
\* again while it is young and its stage is still the one shown.
FadeFrame ==
    /\ sdFades /= <<>>
    /\ sdDrawn' = sdFades[Len(sdFades)].stage
    /\ LET older == [i \in DOMAIN sdFades |-> [sdFades[i] EXCEPT !.age = @ + 1]]
       IN  sdFades' = Only(older, [stage : {sdShown}, age : 0..(FadeFrames - 1)])
    /\ UNCHANGED <<sdReduced, sdShown>>

FadeNext == (\E s \in StoryStages : StoryGo(s)) \/ FadeFrame

-----------------------------------------------------------------------------

(* Whatever squares the reader flips, turns included, a pattern five or fewer squares off some
   tag in some rotation is given that tag's number and turn, and no other tag is as near: that
   is why a tag read with a wrong square is still never taken for another one. *)
FiveOffIsStillTheTag ==
    LET m == Decode(hmCur)
    IN  \A id \in Ids : \A rot \in Rotations :
            LET off == Hamming(hmCur, Turned[id][rot])
            IN  off <= 5 => m.id = id /\ m.rot = rot /\ m.d = off /\ m.second > 5

(* Scrolling on while a stage still fades in starts a second fade: when no fade is left, what
   the canvas and its caption show is the stage that was last asked for. *)
FadeEndsOnShown == sdFades = <<>> => sdDrawn = sdShown

=============================================================================
