------------------------------ MODULE LabsPit ------------------------------
(***************************************************************************)
(* The pit page (src/training/js/ch/21-pit.js): a symptom finder that      *)
(* walks a tree of yes-or-no questions to a likely cause, notes written    *)
(* under the lines of two health-check reports, copy buttons, and a        *)
(* checklist the browser keeps for the day.                                *)
(***************************************************************************)
EXTENDS Naturals, Sequences, FiniteSets, SequencesExt

CONSTANTS
    PitItems,     \* the checklist's items
    PitFullItems, \* those the short tour hides
    PitDays,      \* bound: the days are 1..PitDays
    PitCopies     \* bound: timers of a copy button under way

ASSUME PitAssumption == /\ IsFiniteSet(PitItems) /\ PitFullItems \subseteq PitItems
                        /\ PitDays \in Nat \ {0} /\ PitCopies \in Nat \ {0}

-----------------------------------------------------------------------------
(* The tree N: where yes and no lead from a question, and the chapter a cause refers to. *)

FromNoTargets ==
    [notargets |-> <<"nt_topic", "nt_fps">>, nt_topic |-> <<"L_name", "L_nt">>,
     nt_fps |-> <<"L_nodetect", "lowfps">>]
WhyNoTargets == [L_name |-> "photonlib", L_nt |-> "networktables", L_nodetect |-> "settings"]

FromMissing ==
    [missing |-> <<"L_stuck", "mi_listed">>, mi_listed |-> <<"mi_bw", "L_cable">>,
     mi_bw |-> <<"L_bw", "L_notset">>]
WhyMissing == [L_stuck |-> "failsafes", L_cable |-> "camsetup", L_bw |-> "camsetup",
               L_notset |-> "camsetup"]

FromLowFps ==
    [lowfps |-> <<"L_idle", "lf_all">>, lf_all |-> <<"lf_thr", "L_exposure">>,
     lf_thr |-> <<"L_throttle", "L_allslow">>]
WhyLowFps == [L_idle |-> "failsafes", L_exposure |-> "settings", L_throttle |-> "failsafes",
              L_allslow |-> "settings"]

FromSight ==
    [flicker |-> <<"L_lights", "L_range">>, pose |-> <<"L_offset", "po_move">>,
     po_move |-> <<"L_timing", "L_jumps">>]
WhySight == [L_lights |-> "settings", L_range |-> "settings", L_offset |-> "coords",
             L_timing |-> "latency", L_jumps |-> "gyro"]

FromReach ==
    [nodash |-> <<"L_bench", "nd_ping">>, nd_ping |-> <<"L_pvnotanswering", "L_network">>,
     pvdown |-> <<"L_jar", "L_pvother">>]
WhyReach == [L_bench |-> "networktables", L_pvnotanswering |-> "linux",
             L_network |-> "networktables", L_jar |-> "photonvision", L_pvother |-> "failsafes"]

FromRest == [stream |-> <<"L_connlimit", "L_streamother">>]
WhyRest == [version |-> "photonlib", noboot |-> "failsafes", L_connlimit |-> "photonvision",
            L_streamother |-> "photonvision", norec |-> "failsafes", lostset |-> "camsetup",
            blackcal |-> "calibration", calfail |-> "calibration"]

\* Two parts of the tree together.
And(f, g) == [node \in DOMAIN f \union DOMAIN g |-> IF node \in DOMAIN f THEN f[node] ELSE g[node]]

Leads ==
    And(FromNoTargets, And(FromMissing, And(FromLowFps, And(FromSight, And(FromReach, FromRest)))))
Why == And(WhyNoTargets, And(WhyMissing, And(WhyLowFps, And(WhySight, And(WhyReach, WhyRest)))))
Symptoms == {"notargets", "missing", "lowfps", "flicker", "pose", "nodash", "pvdown", "version",
             "noboot", "stream", "norec", "lostset", "blackcal", "calfail"}
Asking(node) == node \in DOMAIN Leads
Replies == {"yes", "no"}
Lead(node, reply) == IF reply = "yes" THEN Leads[node][1] ELSE Leads[node][2]

VARIABLE ptPath \* path: the nodes visited and the reply given at each, "" at the last

finderVars == <<ptPath>>

PitNodes == DOMAIN Leads \union DOMAIN Why
FinderTypeOK == ptPath \in Seq([id : PitNodes, ans : Replies \union {""}])

FinderInit == ptPath = <<>>

Visit(id) == [id |-> id, ans |-> ""]
Unanswered(path) == [path EXCEPT ![Len(path)].ans = ""]

PickSymptom(id) ==
    /\ ptPath = <<>>
    /\ ptPath' = <<Visit(id)>>

Reply(reply) ==
    /\ ptPath /= <<>> /\ Asking(Last(ptPath).id)
    /\ ptPath' = Append([ptPath EXCEPT ![Len(ptPath)].ans = reply],
                        Visit(Lead(Last(ptPath).id, reply)))

\* A crumb: back to an answered question, whose answer is dropped.
Crumb(i) ==
    /\ i \in 1..(Len(ptPath) - 1)
    /\ ptPath' = Unanswered(SubSeq(ptPath, 1, i))

PitBack ==
    /\ ptPath /= <<>>
    /\ ptPath' = IF Len(ptPath) = 1 THEN <<>> ELSE Unanswered(Front(ptPath))

PitReset == ptPath /= <<>> /\ ptPath' = <<>>

FinderNext ==
    \/ \E id \in Symptoms : PickSymptom(id)
    \/ \E reply \in Replies : Reply(reply)
    \/ \E i \in 1..Cardinality(PitNodes) : Crumb(i)
    \/ PitBack
    \/ PitReset

-----------------------------------------------------------------------------
(* The reports: each noteworthy line with the notes whose key it contains, the notes in the
   order they are written in. *)

LinesWithKeys ==
    [ok  |-> <<{1}, {2}, {3}, {4}, {5}, {7}, {6}, {8}, {9}, {10}, {11}, {12}, {13}>>,
     hit |-> <<{1}, {2}, {3}, {4}, {5}>>]
NoteCount == [ok |-> 13, hit |-> 5]

\* The first note left whose key the line contains goes under it, once.
NotesUnder(lines, notes) ==
    LET Place[k \in 0..Len(lines)] ==
            IF k = 0 THEN [left |-> notes, under |-> <<>>]
            ELSE LET before == Place[k - 1]
                     fits == lines[k] \intersect before.left
                     note == IF fits = {} THEN 0 ELSE CHOOSE n \in fits : \A m \in fits : n <= m
                 IN  [left |-> before.left \ {note}, under |-> Append(before.under, note)]
    IN  Place[Len(lines)]

VARIABLES
    rpReport, \* the report shown
    rpPart,   \* the part of the statistics line explained (pick)
    cpLabel,  \* a copy button's label
    cpTimers  \* its timers under way

reportVars == <<rpReport, rpPart, cpLabel, cpTimers>>

StatsParts == 0..8

ReportTypeOK ==
    /\ rpReport \in DOMAIN LinesWithKeys
    /\ rpPart \in StatsParts
    /\ cpLabel \in {"Copy", "Copied", "Select it"}
    /\ cpTimers \in 0..PitCopies

ReportInit == rpReport = "ok" /\ rpPart = 3 /\ cpLabel = "Copy" /\ cpTimers = 0

ShowReport(report) == rpReport' = report /\ UNCHANGED <<rpPart, cpLabel, cpTimers>>

PickReportPart(i) == rpPart' = i /\ UNCHANGED <<rpReport, cpLabel, cpTimers>>

\* The clipboard took the command.
CopyWorks ==
    /\ cpTimers < PitCopies
    /\ cpLabel' = "Copied"
    /\ cpTimers' = cpTimers + 1
    /\ UNCHANGED <<rpReport, rpPart>>

CopyFails == cpLabel' = "Select it" /\ UNCHANGED <<rpReport, rpPart, cpTimers>>

CopyTimer ==
    /\ cpTimers > 0
    /\ cpTimers' = cpTimers - 1
    /\ cpLabel' = "Copy"
    /\ UNCHANGED <<rpReport, rpPart>>

ReportNext ==
    \/ \E report \in DOMAIN LinesWithKeys : ShowReport(report)
    \/ \E i \in StatsParts : PickReportPart(i)
    \/ CopyWorks \/ CopyFails \/ CopyTimer

-----------------------------------------------------------------------------
(* The checklist of the day *)

VARIABLES
    dyDay,     \* the day it is
    dyToday,   \* today: the day the page was opened
    dyTicked,  \* the items pressed
    dySaved,   \* localStorage: a day and its items
    dyBlocked, \* the browser keeps no storage
    dyMode,    \* the page's mode
    dyCount,   \* what the count says: ticked, of how many
    dyWhen     \* history: the day each ticked item was ticked

dayVars == <<dyDay, dyToday, dyTicked, dySaved, dyBlocked, dyMode, dyCount, dyWhen>>

DayTypeOK ==
    /\ dyDay \in 1..PitDays /\ dyToday \in 1..dyDay
    /\ dyTicked \subseteq PitItems
    /\ dySaved \in [day : 0..PitDays, on : SUBSET PitItems]
    /\ dyBlocked \in BOOLEAN
    /\ dyMode \in {"short", "full"}
    /\ dyCount \in [done : Nat, of : Nat]
    /\ dyWhen \in [PitItems -> 0..PitDays]

ItemsIn(mode) == IF mode = "short" THEN PitItems \ PitFullItems ELSE PitItems

\* count(): the line counts what is in sight, the storage keeps everything.
Count(ticked, mode) == [done |-> Cardinality(ticked \intersect ItemsIn(mode)),
                        of |-> Cardinality(ItemsIn(mode))]
CountAndSave(today, ticked, mode) ==
    /\ dyCount' = Count(ticked, mode)
    /\ dySaved' = IF dyBlocked THEN dySaved ELSE [day |-> today, on |-> ticked]

DayInit ==
    /\ dyDay = 1 /\ dyToday = 1 /\ dyTicked = {}
    /\ dyBlocked \in BOOLEAN
    /\ dySaved = [day |-> IF dyBlocked THEN 0 ELSE 1, on |-> {}]
    /\ dyMode \in {"short", "full"}
    /\ dyCount = Count({}, dyMode)
    /\ dyWhen = [i \in PitItems |-> 0]

Tick(i) ==
    /\ i \in ItemsIn(dyMode)
    /\ dyTicked' = IF i \in dyTicked THEN dyTicked \ {i} ELSE dyTicked \union {i}
    /\ dyWhen' = [dyWhen EXCEPT ![i] = IF i \in dyTicked THEN 0 ELSE dyDay]
    /\ CountAndSave(dyToday, dyTicked', dyMode)
    /\ UNCHANGED <<dyDay, dyToday, dyBlocked, dyMode>>

ClearDay ==
    /\ dyTicked' = {}
    /\ dyWhen' = [i \in PitItems |-> 0]
    /\ CountAndSave(dyToday, {}, dyMode)
    /\ UNCHANGED <<dyDay, dyToday, dyBlocked, dyMode>>

SwitchDay(mode) ==
    /\ dyMode' = mode
    /\ CountAndSave(dyToday, dyTicked, mode)
    /\ UNCHANGED <<dyDay, dyToday, dyTicked, dyBlocked, dyWhen>>

Midnight ==
    /\ dyDay < PitDays
    /\ dyDay' = dyDay + 1
    /\ UNCHANGED <<dyToday, dyTicked, dySaved, dyBlocked, dyMode, dyCount, dyWhen>>

\* Mutant: what is kept is taken over whatever its day.
KeptAnyDay == IF dyBlocked THEN {} ELSE dySaved.on

\* What a page opened now finds.
KeptTicks == IF dyBlocked \/ dySaved.day /= dyDay THEN {} ELSE dySaved.on

OpenPage ==
    /\ dyToday' = dyDay
    /\ dyTicked' = KeptTicks
    /\ dyWhen' = [i \in PitItems |-> IF i \in KeptTicks THEN dyWhen[i] ELSE 0]
    /\ CountAndSave(dyDay, dyTicked', dyMode)
    /\ UNCHANGED <<dyDay, dyBlocked, dyMode>>

DayNext ==
    \/ \E i \in PitItems : Tick(i)
    \/ ClearDay
    \/ \E mode \in {"short", "full"} : SwitchDay(mode)
    \/ Midnight
    \/ OpenPage

DaySpec == DayInit /\ [][DayNext]_dayVars

-----------------------------------------------------------------------------

(* The trail above a question tells how the reader came to it: from a symptom, by the answers
   shown, along the tree, without asking anything twice, and the node they are at has no answer
   yet.  A cause refers to a chapter. *)
TrailLeadsHere ==
    /\ \A i \in 1..Len(ptPath) :
          /\ i = 1 => ptPath[i].id \in Symptoms
          /\ ptPath[i].ans /= "" <=> i < Len(ptPath)
          /\ i < Len(ptPath) => /\ Asking(ptPath[i].id)
                                /\ ptPath[i + 1].id = Lead(ptPath[i].id, ptPath[i].ans)
          /\ \A j \in 1..(i - 1) : ptPath[j].id /= ptPath[i].id
    /\ ptPath /= <<>> => Last(ptPath).id \in DOMAIN Leads \union DOMAIN Why

(* Every note of the report shown stands under exactly one line. *)
NotesAllPlaced ==
    LET placed == NotesUnder(LinesWithKeys[rpReport], 1..NoteCount[rpReport])
    IN  placed.left = {}

(* On a page opened today, an item is ticked only if it was ticked today. *)
TickedToday == dyToday = dyDay => \A i \in dyTicked : dyWhen[i] = dyDay

=============================================================================
