------------------------- MODULE LabsNetworktables -------------------------
(***************************************************************************)
(* The labs of the NetworkTables chapter (src/training/js/ch/              *)
(* 15-networktables.js): the publish/subscribe diagram, whose messages fly *)
(* to the server in two legs and whose answers wait on a timer; the packet *)
(* layers; the topic tree; and the USB port picker.                        *)
(***************************************************************************)
EXTENDS Naturals, Sequences, SequencesExt, Filtering

CONSTANTS
    NtEvents, \* bound: events published, the student's and the demo's
    NtLegs,   \* ticks of a message's legs: to the server, to its row (0.5 and 0.35 s)
    NtSteps,  \* the ticks a frame may take (Site.loop's dt, 0.05 s at most)
    NtNodes,  \* the topics of the tree, "root" among them
    NtParent, \* the folder of each but the root
    NtPorts   \* the ports of the picker

ASSUME NetworktablesAssumption ==
    /\ NtEvents \in Nat /\ NtLegs \in Seq(Nat \ {0}) /\ Len(NtLegs) = 2
    /\ NtSteps \subseteq Nat \ {0} /\ NtSteps /= {}
    /\ {"root", "rawBytes"} \subseteq NtNodes /\ NtParent \in [NtNodes \ {"root"} -> NtNodes]
    /\ \E n \in NtNodes : n /= "root" /\ NtParent[n] = "root"

-----------------------------------------------------------------------------
(* Publish and subscribe *)

VARIABLES
    ntTopics,  \* topics: the values the server shows
    ntFlights, \* flights: the messages on their way, in the array's order
    ntTimers,  \* the timeouts of values that arrived: each one's `then`
    ntSeq,     \* seq: results PhotonVision has published
    ntAuto,    \* autoI: events the demo has played
    ntDemo,    \* demo: until the first click
    ntLabels,  \* the toggles' labels: the value each button says it sends
    ntCount,   \* events so far (bounded by NtEvents)
    ntPace     \* the ticks this display's frames take: only one number of them, if it drops none

pubsubVars == <<ntTopics, ntFlights, ntTimers, ntSeq, ntAuto, ntDemo, ntLabels, ntCount, ntPace>>

\* The topics: raw holds the number of the result, has whether it saw a tag, pir and pis the
\* pipeline asked for and in use, rec whether Rewind records (1 for true).
Topics == [raw : 0..NtEvents, has : 0..1, pir : 0..1, pis : 0..1, rec : 0..1]

\* What is done once a published value has been shown: nothing, or PhotonVision answers with a
\* pipeline.
Nothing == 9
Thens == {Nothing, 0, 1}

PubsubTypeOK ==
    /\ ntTopics \in Topics
    /\ \A i \in DOMAIN ntFlights :
          /\ ntFlights[i].topic \in DOMAIN ntTopics /\ ntFlights[i].leg \in 1..2
          /\ ntFlights[i].age \in 0..(NtLegs[ntFlights[i].leg] - 1) /\ ntFlights[i].then \in Thens
    /\ \A i \in DOMAIN ntTimers : ntTimers[i] \in Thens
    /\ ntSeq \in 0..NtEvents /\ ntAuto \in 0..4 /\ ntDemo \in BOOLEAN
    /\ ntLabels \in [rec : 0..1, pipe : 0..1] /\ ntCount \in 0..NtEvents
    /\ ntPace \subseteq NtSteps

PubsubInit ==
    /\ ntTopics = [raw |-> 0, has |-> 0, pir |-> 0, pis |-> 0, rec |-> 0]
    /\ ntFlights = <<>> /\ ntTimers = <<>> /\ ntSeq = 0 /\ ntAuto = 0 /\ ntDemo = TRUE
    /\ ntLabels = [rec |-> 1, pipe |-> 1] /\ ntCount = 0
    /\ ntPace \in (SUBSET NtSteps) \ {{}}

\* publish: the message starts its first leg.
Publish(topic, value, then) ==
    [topic |-> topic, value |-> value, leg |-> 1, age |-> 0, then |-> then]

\* Two results of three have a tag in them.
SawTag(seq) == IF seq % 3 = 0 THEN 0 ELSE 1

\* events: a result, the Rewind toggle, the pipeline toggle. The toggles send the opposite of
\* the value the server shows now, whatever is still on its way.
Published(event) ==
    CASE event = "result" -> <<Publish("raw", ntSeq + 1, Nothing),
                               Publish("has", SawTag(ntSeq + 1), Nothing)>>
      [] event = "record" -> <<Publish("rec", 1 - ntTopics.rec, Nothing)>>
      [] event = "pipe"   -> <<Publish("pir", 1 - ntTopics.pir, 1 - ntTopics.pir)>>

\* An event is published and the labels are set from the values shown at that moment.
Happens(event) ==
    /\ ntCount < NtEvents
    /\ ntCount' = ntCount + 1
    /\ ntSeq' = IF event = "result" THEN ntSeq + 1 ELSE ntSeq
    /\ ntFlights' = ntFlights \o Published(event)
    /\ ntLabels' = [rec |-> 1 - ntTopics.rec, pipe |-> 1 - ntTopics.pir]
    /\ UNCHANGED <<ntTopics, ntTimers, ntPace>>

Click(event) == Happens(event) /\ ntDemo' = FALSE /\ UNCHANGED ntAuto

\* busy: values published whose timeout has not run.
Busy == Len(ntFlights) + Len(ntTimers)

DemoPlays ==
    /\ ntDemo /\ Busy = 0
    /\ Happens(<<"result", "result", "pipe", "result", "record">>[ntAuto + 1])
    /\ ntAuto' = (ntAuto + 1) % 5
    /\ UNCHANGED ntDemo

\* A frame of d ticks.
Aged(f, d) == [f EXCEPT !.age = @ + d]

\* The messages at the end of a leg.
Ending(flights, leg) == {f \in ToSet(flights) : f.leg = leg /\ f.age >= NtLegs[leg]}

\* Mutant: the values that land in one frame are shown from the first message to the last.
LandedFirstToLast(flights) == Only(flights, Ending(flights, 2))

\* The messages of the second leg that land in this frame, in the order they are handled: the
\* loop goes from the last message to the first.
Landed(flights) == Reverse(Only(flights, Ending(flights, 2)))

\* Those at the end of their first leg start the second, in the order they are handled.
SecondLegs(flights) ==
    LET handled == Reverse(Only(flights, Ending(flights, 1)))
    IN  [i \in DOMAIN handled |-> [handled[i] EXCEPT !.leg = 2, !.age = 0]]

\* The messages that neither turn nor land.
Flying(flights) == Only(flights, ToSet(flights) \ (Ending(flights, 1) \cup Ending(flights, 2)))

\* The last of them with a topic is what the topic's row shows.
ShownOf(k, landed) ==
    LET ours == Only(landed, {f \in ToSet(landed) : f.topic = k})
    IN  IF ours = <<>> THEN ntTopics[k] ELSE Last(ours).value

\* A frame: every message moves on; those that land are shown and start a timeout. The flights on
\* to the subscribers only make them glow.
FliesOn ==
    \E d \in ntPace :
       LET moved == [i \in DOMAIN ntFlights |-> Aged(ntFlights[i], d)]
           landed == Landed(moved)
       IN  /\ ntFlights /= <<>>
           /\ ntFlights' = Flying(moved) \o SecondLegs(moved)
           /\ ntTopics' = [k \in DOMAIN ntTopics |-> ShownOf(k, landed)]
           /\ ntTimers' = ntTimers \o [i \in DOMAIN landed |-> landed[i].then]
           /\ UNCHANGED <<ntSeq, ntAuto, ntDemo, ntLabels, ntCount, ntPace>>

\* The timeouts run in the order they were set, at any time: the frames stop while the diagram
\* is off the screen, the timeouts do not.
TimeoutRuns ==
    /\ ntTimers /= <<>>
    /\ ntTimers' = Tail(ntTimers)
    /\ ntFlights' = IF Head(ntTimers) = Nothing THEN ntFlights
                    ELSE Append(ntFlights, Publish("pis", Head(ntTimers), Nothing))
    /\ UNCHANGED <<ntTopics, ntSeq, ntAuto, ntDemo, ntLabels, ntCount, ntPace>>

PubsubNext ==
    \/ \E event \in {"result", "record", "pipe"} : Click(event)
    \/ DemoPlays
    \/ FliesOn
    \/ TimeoutRuns

-----------------------------------------------------------------------------
(* Packet layers, topic tree, ports *)

VARIABLES
    nlDimmed, \* the layers that are dimmed (class off)
    ttOpen,   \* the folders that are open
    ttSel,    \* selBtn: the topic described
    npPort    \* the port whose note is shown, "" before the first click

treeVars == <<nlDimmed, ttOpen, ttSel, npPort>>

\* The folders are those with topics in them.
NtFolders == {NtParent[n] : n \in NtNodes \ {"root"}}

TreeTypeOK ==
    /\ nlDimmed \subseteq 1..4 /\ ttOpen \subseteq NtFolders /\ ttSel \in NtNodes
    /\ npPort \in NtPorts \cup {""}

\* At the start the root and one of its folders are opened by clicks, and a topic in it selected.
TreeInit ==
    /\ nlDimmed = {} /\ npPort = ""
    /\ ttSel = "rawBytes" /\ ttOpen = {"root", NtParent["rawBytes"]}

PickLayer(k) ==
    /\ nlDimmed' = IF k = 0 THEN {} ELSE (1..4) \ {k}
    /\ UNCHANGED <<ttOpen, ttSel, npPort>>

\* Only the topics of folders that are open, and whose own folder is, can be clicked (the tree
\* is modelled to the depth of three the code opens at the start).
InSight(n) ==
    n /= "root" => /\ NtParent[n] \in ttOpen
                   /\ NtParent[n] /= "root" => NtParent[NtParent[n]] \in ttOpen

\* A click selects, and opens or closes a folder.
ClickTopic(n) ==
    /\ InSight(n)
    /\ ttSel' = n
    /\ ttOpen' = IF n \notin NtFolders THEN ttOpen
                 ELSE IF n \in ttOpen THEN ttOpen \ {n} ELSE ttOpen \cup {n}
    /\ UNCHANGED <<nlDimmed, npPort>>

PickNtPort(p) == npPort' = p /\ UNCHANGED <<nlDimmed, ttOpen, ttSel>>

TreeNext ==
    \/ \E k \in 0..4 : PickLayer(k)
    \/ \E n \in NtNodes : ClickTopic(n)
    \/ \E p \in NtPorts : PickNtPort(p)

-----------------------------------------------------------------------------
\* The easy-to-read hasTarget is about the result that is shown, at any moment. And once nothing
\* is on its way the last result published is shown, and PhotonVision's pipeline is the one
\* the dashboard asked for last, on a display whose frames take the same time each: where they
\* differ, of two messages that were one frame apart and land in the same, longer frame, the
\* older one is handled last, and stays. Clicks come
\* while messages are on their way, answers are sent by timers that run on while the frames stand
\* still, and the frame loop handles the messages last to first: on both legs, which is what
\* keeps those in order that were sent between the same two frames.
StateAnswersRequest ==
    /\ ntTopics.has = SawTag(ntTopics.raw)
    /\ Busy = 0 /\ (\E d \in NtSteps : ntPace = {d}) =>
           ntTopics.raw = ntSeq /\ ntTopics.pis = ntTopics.pir

=============================================================================
