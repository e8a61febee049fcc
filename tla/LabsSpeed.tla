----------------------------- MODULE LabsSpeed -----------------------------
(***************************************************************************)
(* The speed chapter (src/training/js/ch/10-speed.js): the cameras that    *)
(* share one USB bus, the order in which a decoder's frequencies are kept, *)
(* and the two ways of taking a frame from the camera.  The labs share no  *)
(* state.                                                                  *)
(***************************************************************************)
EXTENDS Integers, Sequences, FiniteSets, SequencesExt, FiniteSetsExt, Filtering

CONSTANTS
    UsbTouches, \* bound: ports changed since the last preset
    LlTimes,    \* processing times of the Low Latency lab, in sixths of a millisecond
    LlUntil     \* dur: how long its simulation runs

ASSUME SpeedAssumption == UsbTouches \in Nat /\ LlTimes \subseteq Nat /\ LlUntil \in Nat

-----------------------------------------------------------------------------
(* The USB lab.  Ports are set up one after another, and evaluate reserves bytes for them in the *)
(* order they were last set: order grows with every change, of which the model keeps the line    *)
(* that it makes of the cameras.                                                                 *)

UsbFits == 6720
UsbRefuses == 7400
UsbPorts == 0..4
CamTypes == {"thrifty", "gs", "color"}
\* TYPES: the allocations a camera offers, its stock one first.
CamAllocs(type) ==
    IF type = "color" THEN <<3072, 2400, 1600, 800, 256, 128>>
                      ELSE <<3060, 1984, 1280, 944, 640, 512>>

VARIABLES
    ubCams,   \* state: the camera and the allocation of each port
    ubLine,   \* the ports with a camera, in the order they were set up
    ubModel,  \* model: what evaluate made of them, which is drawn and listed
    ubPreset, \* the preset whose button was pressed last
    ubTouched \* the changes made to it since

usbVars == <<ubCams, ubLine, ubModel, ubPreset, ubTouched>>

Fixed(type, alloc) == [type |-> type, alloc |-> alloc]
NoCamera == Fixed("", 0)

UsbPresets ==
    [stock2 |-> <<<<0, Fixed("thrifty", 3060)>>, <<1, Fixed("thrifty", 3060)>>>>,
     stock3 |-> [n \in 1..3 |-> <<n - 1, Fixed("thrifty", 3060)>>],
     usbc   |-> <<<<4, Fixed("color", 3072)>>, <<0, Fixed("thrifty", 3060)>>,
                  <<1, Fixed("thrifty", 3060)>>>>,
     ours   |-> [n \in 1..5 |-> <<n - 1, Fixed("thrifty", 1280)>>],
     greedy |-> [n \in 1..5 |-> <<n - 1, IF n = 5 THEN Fixed("color", 2400)
                                                  ELSE Fixed("thrifty", 1280)>>]]

UsbStatuses == {"ok", "untested", "refused"}
UsbTypeOK ==
    /\ ubCams \in [UsbPorts -> [type : CamTypes \union {""}, alloc : Nat]]
    /\ ubLine \in Seq(UsbPorts) /\ IsInjective(ubLine)
    /\ ToSet(ubLine) = {i \in UsbPorts : ubCams[i] /= NoCamera}
    /\ ubModel.total \in Nat /\ ubModel.status \in Seq(UsbStatuses)
    /\ ubPreset \in DOMAIN UsbPresets /\ ubTouched \in 0..UsbTouches

\* One camera asks for its share: between the two limits nothing was measured, and it starts.
Reserve(got, alloc) ==
    LET want == got.total + alloc
    IN [total  |-> IF want < UsbRefuses THEN want ELSE got.total,
        status |-> Append(got.status, IF want <= UsbFits THEN "ok"
                                      ELSE IF want < UsbRefuses THEN "untested" ELSE "refused")]

Evaluate(cams, line) ==
    LET got[n \in 0..Len(line)] ==
            IF n = 0 THEN [total |-> 0, status |-> <<>>]
            ELSE Reserve(got[n - 1], cams[line[n]].alloc)
    IN  got[Len(line)]

Render(cams, line) ==
    /\ ubCams' = cams
    /\ ubLine' = line
    /\ ubModel' = Evaluate(cams, line)

Unplug(line, i) == Only(line, UsbPorts \ {i})
PlugIn(line, i) == Append(Unplug(line, i), i)

\* A preset empties every port and then sets up its own, in their order.
PresetLine(k) == [n \in 1..Len(UsbPresets[k]) |-> UsbPresets[k][n][1]]
PresetCams(k) ==
    [i \in UsbPorts |-> IF i \in ToSet(PresetLine(k))
                       THEN UsbPresets[k][CHOOSE n \in DOMAIN PresetLine(k) : PresetLine(k)[n] = i][2]
                       ELSE NoCamera]

UsbPick(k) ==
    /\ Render(PresetCams(k), PresetLine(k))
    /\ ubPreset' = k
    /\ ubTouched' = 0

UsbInit ==
    /\ ubCams = PresetCams("ours")
    /\ ubLine = PresetLine("ours")
    /\ ubModel = Evaluate(ubCams, ubLine)
    /\ ubPreset = "ours"
    /\ ubTouched = 0

Touch ==
    /\ ubTouched < UsbTouches
    /\ ubTouched' = ubTouched + 1
    /\ UNCHANGED ubPreset

\* Another camera in a port starts with its own stock allocation.
ChangeCamera(i, type) ==
    /\ Touch
    /\ type /= ubCams[i].type
    /\ IF type = "" THEN Render([ubCams EXCEPT ![i] = NoCamera], Unplug(ubLine, i))
                    ELSE Render([ubCams EXCEPT ![i] = Fixed(type, CamAllocs(type)[1])],
                                PlugIn(ubLine, i))

\* Its allocation is chosen from those it offers; the port goes to the end of the line.
ChangeAlloc(i, alloc) ==
    /\ Touch
    /\ ubCams[i] /= NoCamera
    /\ alloc \in ToSet(CamAllocs(ubCams[i].type)) \ {ubCams[i].alloc}
    /\ Render([ubCams EXCEPT ![i].alloc = alloc], PlugIn(ubLine, i))

UsbNext ==
    \/ \E k \in DOMAIN UsbPresets : UsbPick(k)
    \/ \E i \in UsbPorts, type \in CamTypes \union {""} : ChangeCamera(i, type)
    \/ \E i \in UsbPorts : \E alloc \in ToSet(CamAllocs("gs")) \union ToSet(CamAllocs("color")) :
           ChangeAlloc(i, alloc)

Started(n) == {m \in 1..n : ubModel.status[m] /= "refused"}
ReservedBy(ms) == MapThenSumSet(LAMBDA m : ubCams[ubLine[m]].alloc, ms)

\* The table is true of the bus: a camera is refused exactly if those that started before it in
\* the line, and no other, leave it less than it asks for; what is reserved is the sum of those
\* that started and stays under the bus's limit; a camera has only an allocation of its own type;
\* and each preset shows what its button promises until a port is changed.
UsbTableTrue ==
    /\ Len(ubModel.status) = Len(ubLine)
    /\ \A n \in 1..Len(ubLine) :
           /\ ubModel.status[n] = "refused"
                  <=> ReservedBy(Started(n - 1)) + ubCams[ubLine[n]].alloc >= UsbRefuses
           /\ ubModel.status[n] = "ok" => ReservedBy(Started(n)) <= UsbFits
    /\ ubModel.total = ReservedBy(Started(Len(ubLine))) /\ ubModel.total < UsbRefuses
    /\ \A i \in ToSet(ubLine) : ubCams[i].alloc \in ToSet(CamAllocs(ubCams[i].type))
    /\ ubTouched = 0 =>
           ("refused" \in ToSet(ubModel.status)) = (ubPreset \in {"stock3", "usbc", "greedy"})

-----------------------------------------------------------------------------
(* The inverse transform lab keeps the first n of 64 frequencies, in the zigzag order. *)

VARIABLE idN \* n: how many

idctVars == <<idN>>
IdctTypeOK == idN \in 1..64

\* The frequencies <<v, u>> on one diagonal, walked in the direction its number says.
Diagonal(s) ==
    LET low == IF s > 7 THEN s - 7 ELSE 0
        high == IF s > 7 THEN 7 ELSE s
    IN [n \in 1..(high - low + 1) |->
           LET i == low + n - 1 IN IF s % 2 = 1 THEN <<i, s - i>> ELSE <<s - i, i>>]

Zig == FlattenSeq([n \in 1..15 |-> Diagonal(n - 1)])
Kept == ToSet(SubSeq(Zig, 1, idN))

IdctInit == idN = 6
KeepFrequencies(n) == idN' = n
IdctNext == \E n \in 1..64 \ {idN} : KeepFrequencies(n)

\* The lab keeps as many frequencies as it says, none of them finer (u + v) than one it leaves
\* out, and each one next to the one before it, so that the last is where the zigzag has come to.
ZigzagKeeps ==
    /\ Cardinality(Kept) = idN
    /\ \A f \in Kept, g \in (0..7) \X (0..7) \ Kept : f[1] + f[2] <= g[1] + g[2]
    /\ \A n \in 2..idN : /\ Zig[n][1] - Zig[n - 1][1] \in -1..1
                         /\ Zig[n][2] - Zig[n - 1][2] \in -1..1

-----------------------------------------------------------------------------
(* The Low Latency lab simulates, for a processing time p, the frames a pipeline takes when it   *)
(* waits for the camera's next one (on) and when it takes the newest at once (off).  The two     *)
(* loops are taken side by side, a frame of each in a step.                                      *)

TF == 50 \* the camera's frame time, 1000/120 ms

VARIABLES
    llP,  \* p
    llOn, \* the loop with the mode on: the frames taken, the last one, its start, and t, its end
    llOff \* the loop with the mode off

llVars == <<llP, llOn, llOff>>

Loops == [taken : Nat, last : Nat \union {-1}, start : Nat, t : Nat]
LowTypeOK == llP \in Nat /\ llOn \in Loops /\ llOff \in Loops

\* Which frame each takes: on, the first one and then the next to come; off, the newest there is,
\* unless it was the last one taken.
TakeNext(loop) == IF loop.taken = 0 THEN 0 ELSE loop.t \div TF + 1
TakeNewest(loop) ==
    IF loop.t \div TF <= loop.last THEN loop.last + 1 ELSE loop.t \div TF

\* It is processed from when it has come and the loop is free.
Taken(loop, k) ==
    LET start == IF loop.t > k * TF THEN loop.t ELSE k * TF
    IN [taken |-> loop.taken + 1, last |-> k, start |-> start, t |-> start + llP]

NotStarted == [taken |-> 0, last |-> -1, start |-> 0, t |-> 0]

LowInit ==
    /\ llP \in LlTimes
    /\ llOn = NotStarted
    /\ llOff = NotStarted

\* Both loops run while t is less than dur.
SimulateFrame ==
    /\ llOff.t < LlUntil \/ llOn.t < LlUntil
    /\ llOff' = IF llOff.t < LlUntil THEN Taken(llOff, TakeNewest(llOff)) ELSE llOff
    /\ llOn' = IF llOn.t < LlUntil THEN Taken(llOn, TakeNext(llOn)) ELSE llOn
    /\ UNCHANGED llP

\* The slider simulates both again.
DragTime(p) ==
    /\ p /= llP
    /\ llP' = p
    /\ llOn' = NotStarted
    /\ llOff' = NotStarted

LowNext == SimulateFrame \/ \E p \in LlTimes : DragTime(p)
LowSpec == LowInit /\ [][LowNext]_llVars

\* Waiting costs frames and gains none: as long as both loops run, the one that does not wait has
\* finished its n-th frame no later than the one that does, and in the end it has taken at least
\* as many, which is what the two rates on the page are to show.
WaitingLoses ==
    /\ llOn.taken <= llOff.taken
    /\ llOn.taken = llOff.taken => llOff.t <= llOn.t
    /\ llOn.taken < llOff.taken => llOn.t >= LlUntil

\* A frame is never used before it has come, and never once a newer one is there.
TakenWhenNewest(loop) ==
    loop.taken > 0 => loop.last * TF <= loop.start /\ loop.start < (loop.last + 1) * TF

NewestTaken == TakenWhenNewest(llOn) /\ TakenWhenNewest(llOff)

\* No frame is processed twice: a frame taken is newer than the loop's last one.
FramesForward ==
    [][/\ llOff'.taken > llOff.taken => llOff'.last > llOff.last
       /\ llOn'.taken > llOn.taken => llOn'.last > llOn.last]_llVars

=============================================================================
