------------------------------- MODULE Train -------------------------------
(***************************************************************************)
(* A training session (Train.kt).  For each photo timerFunction starts a   *)
(* worker thread that shows a black screen and then the filtered versions  *)
(* of the photo, posts runnables to the UI thread to record the EEG of     *)
(* each and to ask for a rating, waits for the user's rating by polling    *)
(* rateChange, and finally posts the start of the next photo.  EegQueue    *)
(* holds the recording itself.                                             *)
(*                                                                         *)
(* The runnables of runOnUiThread run in the order they are posted, one at *)
(* a time; the user's touches and onDestroy run on the same thread.  The   *)
(* worker reads the rating bar and rateChange directly.                    *)
(***************************************************************************)
EXTENDS EegQueue

CONSTANTS
  NumPhotos,       \* photos s01 .. s30 in the code
  MayLeave         \* TRUE: the activity can be destroyed in mid-session

(* The fields of a setup besides "device".                                 *)
(*   uiKeepsUp : the UI has run what was posted when a sleep is over       *)
(*   stars : the highest rating                                            *)
(*   taps : bound on the rating changes while the bar is up                *)
ASSUME TrainAssumption ==
  /\ NumPhotos \in Nat \ {0}
  /\ MayLeave \in BOOLEAN
  /\ \A u \in Setups : u.uiKeepsUp \in BOOLEAN /\ u.stars \in Nat \ {0} /\ u.taps \in Nat

VARIABLES
  ui,          \* runnables posted to the UI thread: <<kind, captured value>>
  photo,       \* nameCount: the photo of the current worker, 0 before the start
  wpc,         \* where the worker is
  image,       \* the version the worker's for loop is at
  currentInt,  \* the captured key counter, advanced on the UI thread
  bar,         \* rateBut: visible, rating, and history: the version rated, taps
  rateChange,  \* set by onRatingChanged, polled and reset by the worker
  ratings,     \* history: <<photo, version>> asked for and rated, per entry
  retouched,   \* history: the user has moved some bar a second time
  destroyed    \* onDestroy has run

history   == <<ratings, retouched>>
trainVars == <<ui, photo, wpc, image, currentInt, bar, rateChange, history, destroyed>>
vars == <<eegVars, trainVars>>

NoBar == [visible |-> FALSE, rating |-> 0, about |-> NoStim, taps |-> 0]

Init ==
  /\ EegInit
  /\ ui = <<>>
  /\ photo = 0
  /\ wpc = "off"
  /\ image = 0
  /\ currentInt = 0
  /\ bar = NoBar
  /\ rateChange = FALSE
  /\ ratings = <<>>
  /\ retouched = FALSE
  /\ destroyed = FALSE

UiFree == saving["ui"].pc = "idle"
Awake  == setup.uiKeepsUp => ui = <<>> /\ UiFree

-----------------------------------------------------------------------------
(* Fault: the captured counter outlives its photo.                         *)
TimerKeepsKey(n) ==
  /\ photo' = n
  /\ bar' = NoBar
  /\ wpc' = "black"
  /\ image' = 0
  /\ UNCHANGED currentInt

(* timerFunction(n): the bar is reset and the worker thread starts.        *)
TimerFunction(n) ==
  /\ photo' = n
  /\ bar' = NoBar
  /\ wpc' = "black"
  /\ image' = 0
  /\ currentInt' = 0

(* startBut is clicked; it disappears, so this happens once.               *)
StartSession ==
  /\ photo = 0
  /\ ~destroyed
  /\ TimerFunction(1)
  /\ UNCHANGED <<eegVars, ui, rateChange, history, destroyed>>

(* blackScreen: post the black screen, then sleep(2000).                   *)
WorkerBlack ==
  /\ wpc = "black"
  /\ ui' = Append(ui, <<"black", Black>>)
  /\ wpc' = "blackSleep"
  /\ UNCHANGED <<eegVars, photo, image, currentInt, bar, rateChange, history,
                 destroyed>>

(* saveAndEndQueue(0), called on the worker thread.                        *)
WorkerSaveBlack ==
  /\ wpc = "blackSleep"
  /\ Awake
  /\ SaveStart("worker", 0, <<photo, shown>>)
  /\ wpc' = "blackSave"
  /\ UNCHANGED <<setup, shown, sampling, serial, playQueue, storageMap, needToAnalyze, analyses,
                 crashed, ui, photo, image, currentInt, bar, rateChange, history,
                 destroyed>>

(* One turn of the for loop: post the next version, sleep(firstStage).     *)
WorkerShow ==
  /\ \/ wpc = "blackSave" /\ saving["worker"].pc = "idle"
     \/ wpc = "show"
  /\ image < NumImages
  /\ ui' = Append(ui, <<"image", image>>)
  /\ wpc' = "showSleep"
  /\ UNCHANGED <<eegVars, photo, image, currentInt, bar, rateChange, history,
                 destroyed>>

WorkerAsk ==
  /\ wpc = "showSleep"
  /\ Awake
  /\ ui' = Append(ui, <<"save", image>>)
  /\ wpc' = "poll"
  /\ UNCHANGED <<eegVars, photo, image, currentInt, bar, rateChange, history,
                 destroyed>>

(* afterRateChange, the end of the polling loop ...                        *)
WorkerPoll ==
  /\ wpc = "poll"
  /\ rateChange
  /\ wpc' = "reset"
  /\ UNCHANGED <<eegVars, ui, photo, image, currentInt, bar, rateChange, history,
                 destroyed>>

(* Fault: rateChange is left set.                                          *)
ResetNot ==
  /\ wpc = "reset"
  /\ wpc' = "read"
  /\ UNCHANGED <<eegVars, ui, photo, image, currentInt, bar, rateChange, history,
                 destroyed>>

(* ... and the reset, which swallows any touch made in between.            *)
WorkerReset ==
  /\ wpc = "reset"
  /\ rateChange' = FALSE
  /\ wpc' = "read"
  /\ UNCHANGED <<eegVars, ui, photo, image, currentInt, bar, history, destroyed>>

(* The rating is read off the bar; the runnable that hides the bar follows. *)
WorkerRead ==
  /\ wpc = "read"
  /\ ratings' = IF bar.rating > 0
                THEN Append(ratings, <<photo, image, bar.about>>) ELSE ratings
  /\ ui' = Append(ui, <<"hide", image>>)
  /\ image' = image + 1
  /\ wpc' = "show"
  /\ UNCHANGED <<eegVars, photo, currentInt, bar, rateChange, retouched, destroyed>>

(* The loop is over: hide the views, post the next photo.                  *)
WorkerEnd ==
  /\ wpc = "show"
  /\ image = NumImages
  /\ bar' = [bar EXCEPT !.visible = FALSE]
  /\ ui' = Append(ui, <<"next", photo>>)
  /\ wpc' = "off"
  /\ UNCHANGED <<eegVars, photo, image, currentInt, rateChange, history, destroyed>>

Worker ==
  \/ WorkerBlack \/ WorkerSaveBlack \/ WorkerShow \/ WorkerAsk
  \/ WorkerPoll \/ WorkerReset \/ WorkerRead \/ WorkerEnd

-----------------------------------------------------------------------------
(* The UI thread takes the first runnable; "display" and "ask" are the      *)
(* second halves of runnables, after beginQueue and saveAndEndQueue.        *)
UiRuns(kind) == UiFree /\ ui # <<>> /\ Head(ui)[1] = kind
UiIdle == UiFree /\ (ui # <<>> => Head(ui)[1] \notin {"display", "ask"})

(* beginQueue(): recording starts ...                                       *)
UiBegin ==
  /\ UiRuns("black") \/ UiRuns("image")
  /\ BeginQueue
  /\ ui' = <<<<"display", Head(ui)[2]>>>> \o Tail(ui)
  /\ UNCHANGED <<setup, shown, storageMap, needToAnalyze, analyses, crashed, photo, wpc, image,
                 currentInt, bar, rateChange, history,
                 destroyed>>

(* ... and then the picture changes.                                        *)
UiDisplay ==
  /\ UiRuns("display")
  /\ shown' = Head(ui)[2]
  /\ ui' = Tail(ui)
  /\ UNCHANGED <<setup, sampling, serial, playQueue, storageMap, needToAnalyze, saving, analyses,
                 crashed, photo, wpc, image, currentInt, bar, rateChange, history,
                 destroyed>>

(* saveAndEndQueue(currentInt)                                              *)
UiSave ==
  /\ UiRuns("save")
  /\ SaveStart("ui", currentInt, <<photo, shown>>)
  /\ ui' = <<<<"ask", currentInt>>>> \o Tail(ui)
  /\ UNCHANGED <<setup, shown, sampling, serial, playQueue, storageMap, needToAnalyze, analyses,
                 crashed, photo, wpc, image, currentInt, bar, rateChange, history,
                 destroyed>>

(* currentInt++ and the rating bar comes up.                                *)
UiAsk ==
  /\ UiRuns("ask")
  /\ currentInt' = currentInt + 1
  /\ bar' = [bar EXCEPT !.visible = TRUE, !.taps = 0]
  /\ ui' = Tail(ui)
  /\ UNCHANGED <<eegVars, photo, wpc, image, rateChange, history, destroyed>>

(* Fault: the bar keeps its rating.                                        *)
HideKeepsRating ==
  /\ UiRuns("hide")
  /\ bar' = [bar EXCEPT !.visible = FALSE]
  /\ ui' = Tail(ui)
  /\ UNCHANGED <<eegVars, photo, wpc, image, currentInt, rateChange, history, destroyed>>

(* The bar is hidden and set to 0, which onRatingChanged ignores because it *)
(* does not come from the user.                                             *)
UiHide ==
  /\ UiRuns("hide")
  /\ bar' = NoBar
  /\ ui' = Tail(ui)
  /\ UNCHANGED <<eegVars, photo, wpc, image, currentInt, rateChange, history, destroyed>>

(* Fault: the last photo is never started.                                 *)
NextStopsShort ==
  /\ UiRuns("next")
  /\ ui' = Tail(ui)
  /\ IF Head(ui)[2] + 1 < NumPhotos
     THEN TimerFunction(Head(ui)[2] + 1)
     ELSE UNCHANGED <<photo, bar, wpc, image, currentInt>>
  /\ UNCHANGED <<eegVars, rateChange, history, destroyed>>

(* The next photo, or the end of the session.                              *)
UiNext ==
  /\ UiRuns("next")
  /\ ui' = Tail(ui)
  /\ IF Head(ui)[2] < NumPhotos
     THEN TimerFunction(Head(ui)[2] + 1)
     ELSE UNCHANGED <<photo, bar, wpc, image, currentInt>>
  /\ UNCHANGED <<eegVars, rateChange, history, destroyed>>

(* onRatingChanged: the user moves the bar to r, which may be 0.            *)
Tap(r) ==
  /\ UiIdle
  /\ bar.visible /\ ~destroyed
  /\ bar.taps < setup.taps
  /\ r # bar.rating
  /\ bar' = [bar EXCEPT !.rating = r, !.about = shown, !.taps = @ + 1]
  /\ rateChange' = (rateChange \/ r > 0)
  /\ retouched' = (retouched \/ bar.taps > 0)
  /\ UNCHANGED <<eegVars, ui, photo, wpc, image, currentInt, ratings, destroyed>>

(* onDestroy: endQueue.  Neither the worker nor what it posts is stopped.   *)
OnDestroy ==
  /\ MayLeave /\ ~destroyed
  /\ UiIdle
  /\ EndQueue
  /\ destroyed' = TRUE
  /\ UNCHANGED <<setup, shown, storageMap, needToAnalyze, analyses, crashed, ui, photo, wpc,
                 image, currentInt, bar, rateChange, history>>

UiThread == UiBegin \/ UiDisplay \/ UiSave \/ UiAsk \/ UiHide \/ UiNext

SaveStep(t)  == Save(t) /\ UNCHANGED trainVars
SerialStep   == Serial /\ UNCHANGED trainVars
AnalysisStep == Analysis /\ UNCHANGED trainVars

Next ==
  /\ ~crashed
  /\ \/ StartSession
     \/ Worker \/ SaveStep("worker")
     \/ UiThread \/ SaveStep("ui")
     \/ \E r \in 0 .. setup.stars : Tap(r)
     \/ OnDestroy
     \/ SerialStep
     \/ AnalysisStep

Spec == Init /\ [][Next]_vars

(* The threads run; a user who sees the rating bar rates in the end.        *)
Fairness ==
  /\ WF_vars(~crashed /\ (Worker \/ SaveStep("worker")))
  /\ WF_vars(~crashed /\ (UiThread \/ SaveStep("ui")))
  /\ WF_vars(~crashed /\ AnalysisStep)
  /\ WF_vars(~crashed /\ \E r \in 1 .. setup.stars : Tap(r))

FairSpec == Spec /\ Fairness

-----------------------------------------------------------------------------
TypeOK ==
  /\ EegTypeOK
  /\ ui \in Seq({"black", "image", "display", "save", "ask", "hide", "next"} \X Nat)
  /\ photo \in 0 .. NumPhotos
  /\ wpc \in {"off", "black", "blackSleep", "blackSave", "show", "showSleep", "poll",
              "reset", "read"}
  /\ image \in 0 .. NumImages
  /\ currentInt \in 0 .. NumImages
  /\ bar \in [visible : BOOLEAN, rating : 0 .. setup.stars, about : Stimuli \cup {NoStim},
              taps : 0 .. setup.taps]
  /\ rateChange \in BOOLEAN
  /\ ratings \in Seq((1 .. NumPhotos) \X Images \X (Stimuli \cup {NoStim}))
  /\ retouched \in BOOLEAN
  /\ destroyed \in BOOLEAN

(* What is filed under a key is a recording of the version of that number,  *)
(* and of this photo once the version has been asked about: the counter     *)
(* advanced on the UI thread (Train.kt:423-424) keeps step with the worker's *)
(* loop even when the UI lags behind it, and the baseline that the worker    *)
(* files under 0 (391), the key of version 0, is there only until that       *)
(* version is saved; it never comes after it.                               *)
SavedUnderItsImage ==
  /\ \A k \in DOMAIN storageMap \ {0} : storageMap[k][2] = k
  /\ \A k \in Images : k < currentInt => k \in DOMAIN storageMap /\ storageMap[k] = <<photo, k>>

(* A recording holds at most one batch read before it began: the one the   *)
(* serial thread had in hand at beginQueue (Train.kt:143-148).             *)
AtMostOneStaleBatch ==
  Cardinality({i \in DOMAIN playQueue : playQueue[i] = "stale"}) <= 1

(* The process dies of nothing but an iteration over playQueue, by a save    *)
(* (Train.kt:160-162) or to log it (140), under which another thread changed *)
(* the list; so never without the headset.  The analysis threads, whatever   *)
(* they find in needToAnalyze, look up only keys that are in the map         *)
(* (163-187).                                                                *)
DiesOnlyOfSharedQueue ==
  crashed =>
    /\ setup.device
    /\ serial = "interrupted" \/ \E t \in Savers : Throws(saving[t].iter)

(* A rating is entered for the version it was given for (Train.kt:436-443): *)
(* the rating of the picture before never leaks into the next one, for a UI   *)
(* that keeps up.                                                           *)
RatingOfItsImage ==
  setup.uiKeepsUp => \A i \in DOMAIN ratings : ratings[i][2] = ratings[i][3]

(* As long as the user moves each bar once, no version is passed without   *)
(* a rating and none is entered twice (Train.kt:430-443), for a UI that     *)
(* keeps up.                                                                *)
OneRatingPerImage ==
  setup.uiKeepsUp /\ wpc = "show" /\ ~retouched =>
    /\ Len(ratings) = (photo - 1) * NumImages + image
    /\ image > 0 => ratings[Len(ratings)] = <<photo, image - 1, image - 1>>

(* A session that is started runs through all the photos, unless the user   *)
(* leaves (Train.kt:456-460).                                               *)
SessionEnds ==
  photo = 1 ~> (photo = NumPhotos /\ wpc = "off" /\ ui = <<>>) \/ destroyed \/ crashed

=============================================================================
