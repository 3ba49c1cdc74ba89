----------------------------- MODULE Experiment -----------------------------
(***************************************************************************)
(* The Experiment activity (Experiment.kt) in front of the Select activity *)
(* that wrote its pictures.                                                *)
(*                                                                         *)
(* The "next" button of Select opens it.  It stays visible from one photo  *)
(* to the next, so the files may be half rewritten when the activity reads *)
(* them.  A count-down then brings one picture after the other to the      *)
(* front, and at its end reads one of the files once more; it is not       *)
(* stopped when the user goes back to Select.  Both activities share the   *)
(* UI thread and the process, and a file that is absent or cut short       *)
(* decodes to null, which ends the process (Experiment.kt:93).             *)
(*                                                                         *)
(* One visit of the activity is modelled: it keeps nothing for the next.   *)
(***************************************************************************)
EXTENDS Select, Sequences

ASSUME ExperimentAssumption == NumFilters >= 4

VARIABLES
  stage,     \* "none", "create", "ready", "counting", "over" or "dead"
  away,      \* has the user gone back to Select?
  pictures,  \* bitmaps of the views, in the order of viewList
  ticks,     \* calls of onTick so far
  viewIndex, \* count of the click listener, the index of the view in front
  opened     \* history: the selection it was opened for, if that was finished
             \* and alone in the files

evars   == <<stage, away, pictures, ticks, viewIndex, opened>>
appVars == <<vars, evars>>

NumViews == NumFilters - 1   \* viewList.size
LastName == 3                \* the filter of listName[2]

(* listName: the pictures of all filters but fil1.                         *)
FileOf(v) == IF v = 1 THEN 0 ELSE v

NoBitmap == <<0, "null">>

(* BitmapFactory.decodeFile: of a torn file it makes something or nothing. *)
Decoded(f) ==
  CASE files[f] = Absent -> {NoBitmap}
    [] files[f] = Torn   -> {NoBitmap, Torn}
    [] OTHER             -> {files[f]}

AppInit ==
  /\ Init
  /\ stage = "none"
  /\ away = FALSE
  /\ pictures = <<>>
  /\ ticks = 0
  /\ viewIndex = 0
  /\ opened = {}

SelectInFront == stage = "none" \/ away

-----------------------------------------------------------------------------
(* A tap on "next".                                                        *)
OpenExperiment ==
  /\ stage = "none"
  /\ nextBut
  /\ stage' = "create"
  /\ opened' = {s \in alone : prompt /\ coord[s] = "end"}
  /\ UNCHANGED <<vars, away, pictures, ticks, viewIndex>>

(* setImageViews, one turn of its loop: the workers run beside it.         *)
SetImageView ==
  LET v == Len(pictures) + 1
  IN  /\ stage = "create"
      /\ \E b \in Decoded(FileOf(v)) :
           /\ pictures' = Append(pictures, b)
           /\ stage' = IF b = NoBitmap THEN "dead"
                       ELSE IF v = NumViews THEN "ready" ELSE stage
      /\ UNCHANGED <<vars, away, ticks, viewIndex, opened>>

(* Fault: the index starts at the second view.                             *)
StartLate ==
  /\ stage = "ready" /\ ~away
  /\ stage' = "counting"
  /\ viewIndex' = 1
  /\ UNCHANGED <<vars, away, pictures, ticks, opened>>

(* A tap on the start button: the first view, and timer.start().           *)
StartCountDown ==
  /\ stage = "ready" /\ ~away
  /\ stage' = "counting"
  /\ viewIndex' = 0
  /\ UNCHANGED <<vars, away, pictures, ticks, opened>>

(* The platform ticks at most totalTime / interval times, fewer if late.   *)
OnTick ==
  /\ stage = "counting"
  /\ ticks < NumViews - 1
  /\ ticks' = ticks + 1
  /\ viewIndex' = viewIndex + 1
  /\ stage' = IF viewIndex' < NumViews THEN stage ELSE "dead"   \* viewList[count]
  /\ UNCHANGED <<vars, away, pictures, opened>>

(* The second view shows the third picture, which is read again.           *)
OnFinish ==
  /\ stage = "counting"
  /\ \E b \in Decoded(LastName) :
       /\ pictures' = [pictures EXCEPT ![2] = b]
       /\ stage' = IF b = NoBitmap THEN "dead" ELSE "over"
  /\ UNCHANGED <<vars, away, ticks, viewIndex, opened>>

(* The back key: the activity goes, its count-down does not.               *)
LeaveExperiment ==
  /\ stage \in {"ready", "counting", "over"} /\ ~away
  /\ away' = TRUE
  /\ UNCHANGED <<vars, stage, pictures, ticks, viewIndex, opened>>

-----------------------------------------------------------------------------
(* What Select does while the process lives; its runnables share the UI    *)
(* thread with onCreate.                                                   *)
PickPhoto(s) ==
  SelectInFront /\ stage # "dead" /\ SelectProcess(s) /\ UNCHANGED evars
CoordinatorThread(s) ==
  stage # "dead" /\ (Spawn(s) \/ LoopDone(s) \/ WaitDone(s)) /\ UNCHANGED evars
NextButtonPosted(s) ==
  stage \notin {"dead", "create"} /\ ShowNext(s) /\ UNCHANGED evars
WorkerThread(w) == stage # "dead" /\ Worker(w) /\ UNCHANGED evars

CountDown == OnTick \/ OnFinish

AppNext ==
  \/ \E s \in Selections :
       PickPhoto(s) \/ CoordinatorThread(s) \/ NextButtonPosted(s)
  \/ \E w \in Workers : WorkerThread(w)
  \/ OpenExperiment \/ SetImageView \/ StartCountDown \/ CountDown
  \/ LeaveExperiment

(* Threads and the UI thread run; the user need do nothing.                *)
AppFairness ==
  /\ \A s \in Selections : WF_appVars(CoordinatorThread(s))
  /\ \A s \in Selections : WF_appVars(NextButtonPosted(s))
  /\ \A w \in Workers : WF_appVars(WorkerThread(w))
  /\ WF_appVars(SetImageView)
  /\ WF_appVars(CountDown)

AppSpec == AppInit /\ [][AppNext]_appVars /\ AppFairness

-----------------------------------------------------------------------------
ExperimentTypeOK ==
  /\ TypeOK
  /\ stage \in {"none", "create", "ready", "counting", "over", "dead"}
  /\ away \in BOOLEAN
  /\ pictures \in Seq(Saved \cup {Torn, NoBitmap})
  /\ ticks \in 0 .. NumViews - 1
  /\ viewIndex \in 0 .. NumViews
  /\ opened \in SUBSET Selections

(* Opened once a photo that had the files to itself is finished, the       *)
(* experiment shows that photo's filters, each in its view, up to the last *)
(* picture of the count-down (Experiment.kt:51, 85), however the count-down*)
(* is delayed.  The process ends (no bitmap, or no view for a tick,        *)
(* Experiment.kt:66, 93) only if the user has gone back meanwhile and      *)
(* picked another photo.                                                   *)
ShowsItsSelection ==
  \A s \in opened :
    /\ stage = "dead" => away /\ s \notin alone
    /\ ~away => \A v \in DOMAIN pictures :
         pictures[v] = <<s, IF stage = "over" /\ v = 2 THEN LastName ELSE FileOf(v)>>

(* Every picked photo is eventually followed by its "next" (Select.kt:166),*)
(* unless the process ends.  Only the pause of 200 ms makes it so: without *)
(* it an increment can be lost and the wait never ends.                    *)
NextEventually ==
  \A s \in Selections :
    prompt /\ coord[s] # "idle" ~> coord[s] = "end" \/ stage = "dead"
=============================================================================
