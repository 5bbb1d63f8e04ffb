------------------------------ MODULE MCPrograms ------------------------------
(* The concurrent programs but those with a run of their own, one at a time: those *)
(* of Rendezvous, the drinking well of Well, or those that read from the disk of    *)
(* Disk, while the others stay where they are.                                      *)
EXTENDS Rendezvous

CONSTANTS NUM_PEOPLE, NUM_ITERATIONS, MAX_OCCUPANCY,
          Programs, NumBlocks, Story, Garbage, MaxDepth

VARIABLES part,             \* "rendezvous", "well" or "disk"
          kind, count, entered, endianness, waiting, ready, at, yields, rounds, ent,
          waitingHistogram, occupancyHistogram,
          client, start, prompt, prq, due, queue, held, masked, isInterrupt, frames, data,
          sum, flag, hops, i, cur, place, runnable, done, stopped

W == INSTANCE Well
D == INSTANCE Disk WITH program <- client, count <- hops, at <- place, ready <- runnable,
                        ended <- stopped

ASSUME ProgramsAssumption == W!WellAssumption /\ D!DiskAssumption

(* What the disk holds: values whose partial sums differ. *)
SmallStory == <<1, 2, 4>>

wellVars == <<kind, count, entered, endianness, waiting, ready, at, yields, rounds, ent,
              waitingHistogram, occupancyHistogram>>
diskVars == <<client, start, prompt, prq, due, queue, held, masked, isInterrupt, frames, data,
              sum, flag, hops, i, cur, place, runnable, done, stopped>>
allVars == <<part, vars, wellVars, diskVars>>

MCInit ==
  /\ Init /\ W!Init /\ D!Init
  /\ part \in {"rendezvous", "well", "disk"}
  /\ part # "rendezvous" => program = "q1"
  /\ part # "well" => kind = [p \in W!People |-> "BIG"]
  /\ part # "disk" => client = "sRead" /\ prompt

AppStep(t) == part = "rendezvous" /\ Step(t) /\ UNCHANGED <<part, wellVars, diskVars>>
AppMain == part = "rendezvous" /\ Main /\ UNCHANGED <<part, wellVars, diskVars>>
WellStep == part = "well" /\ W!Next /\ UNCHANGED <<part, vars, diskVars>>
OfDisk == part = "disk" /\ UNCHANGED <<part, vars, wellVars>>
DiskThreadStep == OfDisk /\ D!ThreadStep
DiskTime == OfDisk /\ D!Time
DiskTick == OfDisk /\ D!Tick
DiskHandlerStep == OfDisk /\ D!HandlerStep

MCNext == \/ \E t \in Thread : AppStep(t)
          \/ AppMain
          \/ WellStep
          \/ DiskThreadStep \/ DiskTime \/ DiskTick \/ DiskHandlerStep

(* The fairness of the three modules. *)
MCSpec ==
  /\ MCInit /\ [][MCNext]_allVars
  /\ WF_allVars(AppMain) /\ \A t \in Thread : WF_allVars(AppStep(t))
  /\ WF_allVars(WellStep)
  /\ SF_allVars(DiskThreadStep) /\ SF_allVars(DiskTime) /\ SF_allVars(DiskTick)
  /\ WF_allVars(DiskHandlerStep)

(* That of Rendezvous: every program ends.                                            *)
ProgramEnds == part = "rendezvous" => AllJoined

(* Those of Well: the well never holds too many or two kinds, who is left waiting is  *)
(* of one kind, and an even crowd finishes.                                           *)
WellSafe == W!WellSafe
StuckOnOneKind == part = "well" => W!StuckOnOneKind
EvenCrowdFinishes == W!EvenCrowdFinishes

(* Those of Disk: answers are right, data precede whoever waits for them, nothing      *)
(* keeps the signal out for good, and every program ends.                              *)
RightAnswer == D!RightAnswer
DataBeforeReader == D!DataBeforeReader
OpenToInterrupts == D!OpenToInterrupts
Finishes == part = "disk" => D!Finishes
=============================================================================
