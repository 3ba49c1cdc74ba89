------------------------------ MODULE EegQueue ------------------------------
(***************************************************************************)
(* The EEG recording that Train.kt keeps in its companion object, and the  *)
(* threads that touch it: the serial thread of CognionicsQ30 appends the   *)
(* batches it reads while isStartSampling is set (addToQueue); the UI      *)
(* thread and the training worker clear the queue (beginQueue, endQueue)   *)
(* and move it into storageMap (saveAndEndQueue); every save starts an     *)
(* analysis thread.  No lock protects any of it.                           *)
(*                                                                         *)
(* A batch is abstracted to whether it was read under the recording going  *)
(* on ("fresh") or before the last beginQueue ("stale").  A single         *)
(* LinkedList call is one step; a longer operation is several.  Two of them *)
(* iterate over playQueue, the copy loop of a save and the toString() with *)
(* which addToQueue logs the list: a change of the list by another thread  *)
(* may have them throw, which nothing catches.                             *)
(***************************************************************************)
EXTENDS Naturals, Sequences, FiniteSets

CONSTANTS
  NumImages,   \* filtered versions of a photo, 6 in the code
  Setups,      \* [device |-> the serial thread runs and delivers batches,
               \* and the fields Train adds]
  MaxQueue,    \* bound on the batches waiting in playQueue
  MaxAnalyses  \* bound on the analysis threads alive at a time

ASSUME EegQueueAssumption ==
  /\ NumImages \in Nat \ {0}
  /\ \A u \in Setups : u.device \in BOOLEAN
  /\ MaxQueue \in Nat
  /\ MaxAnalyses \in Nat \ {0}

Images == 0 .. NumImages - 1
Black  == NumImages                   \* the black screen before each photo
NoStim == NumImages + 1               \* nothing shown yet
Stimuli == Images \cup {Black}
Savers == {"ui", "worker"}            \* the threads that call saveAndEndQueue

VARIABLES
  setup,          \* one of Setups, for good
  shown,          \* what trainView displays
  sampling,       \* CognionicsQ30.isStartSampling
  serial,         \* the serial thread: holds "none", or a batch, "fresh" or "stale";
                  \* or "prints" playQueue, "interrupted" if it was cleared meanwhile
  playQueue,      \* the batches recorded since the queue was last cleared
  storageMap,     \* key -> recording, known by what it was made of
  needToAnalyze,  \* keys saved and not yet taken by an analysis thread
  saving,         \* progress of saveAndEndQueue on each thread
  analyses,       \* the analysis threads alive: a sequence of [pc, todo]
  crashed         \* an uncaught exception has ended the process

eegVars == <<setup, shown, sampling, serial, playQueue, storageMap, needToAnalyze, saving,
             analyses, crashed>>

NothingRead == <<0, NoStim>>

(* of: history, the photo and the picture on the screen when the save began. *)
(* iter: playQueue as the iterator of the copy loop finds it: untouched,    *)
(* appended to, cleared, or first cleared and then appended to.  To clear an *)
(* empty list makes no difference to it.                                    *)
NotSaving == [pc |-> "idle", key |-> 0, of |-> NothingRead, iter |-> "untouched"]
Throws(iter) == iter # "untouched"
Cleared(r) ==
  [r EXCEPT !.iter = IF r.pc = "copy" /\ playQueue # <<>> THEN "cleared" ELSE @]
Appended(r) ==
  [r EXCEPT !.iter = IF r.pc # "copy" THEN @
                     ELSE IF @ \in {"untouched", "appended"} THEN "appended" ELSE "both"]

EegInit ==
  /\ setup \in Setups
  /\ shown = NoStim
  /\ sampling = FALSE
  /\ serial = "none"
  /\ playQueue = <<>>
  /\ storageMap = <<>>
  /\ needToAnalyze = <<>>
  /\ saving = [t \in Savers |-> NotSaving]
  /\ analyses = <<>>
  /\ crashed = FALSE

-----------------------------------------------------------------------------
(* emptyQueue, called by beginQueue and endQueue on the UI thread.          *)
EmptyQueue ==
  /\ playQueue' = <<>>
  /\ saving' = [t \in Savers |-> Cleared(saving[t])]

(* A batch in hand outlives its recording; printing is disturbed by a clear. *)
Outdated(s) == IF s \in {"fresh", "stale"} THEN "stale" ELSE s
Disturbed(s) == IF s = "prints" /\ playQueue # <<>> THEN "interrupted" ELSE s

(* Fault: beginQueue forgets emptyQueue.                                   *)
BeginDirty ==
  /\ playQueue' = [i \in DOMAIN playQueue |-> "stale"]
  /\ sampling' = TRUE
  /\ serial' = Outdated(serial)
  /\ UNCHANGED saving

(* beginQueue: what the serial thread holds belongs to an earlier recording. *)
BeginQueue == EmptyQueue /\ sampling' = TRUE /\ serial' = Disturbed(Outdated(serial))

EndQueue == EmptyQueue /\ sampling' = FALSE /\ serial' = Disturbed(serial)

(* saveAndEndQueue, first part: the iterator over playQueue is made.       *)
SaveStart(t, key, of) ==
  saving' = [saving EXCEPT ![t] = [pc |-> "copy", key |-> key, of |-> of,
                                   iter |-> "untouched"]]

(* What the map holds is known by what it was recorded of.  The samples are *)
(* no part of it: temp is stored and then cleared, so that the map keeps   *)
(* the very list that was cleared.                                         *)
Recording(t) == saving[t].of

(* Fault: the key is stored one too high.                                  *)
StoreOffByOne(t) ==
  /\ saving[t].pc = "copy"
  /\ ~Throws(saving[t].iter)
  /\ storageMap' = [x \in DOMAIN storageMap \cup {saving[t].key + 1} |->
                     IF x = saving[t].key + 1 THEN Recording(t) ELSE storageMap[x]]
  /\ saving' = [saving EXCEPT ![t].pc = "clear"]
  /\ UNCHANGED <<setup, shown, sampling, serial, playQueue, needToAnalyze, analyses, crashed>>

(* The copy loop ends and the list goes into the map; or it throws a        *)
(* ConcurrentModificationException, because the list was appended to since  *)
(* the iterator was made, or cleared between hasNext and next.  A queue      *)
(* found cleared ends the loop, and one appended to since may be too short   *)
(* to throw.                                                                 *)
SaveStore(t) ==
  /\ saving[t].pc = "copy"
  /\ \/ /\ Throws(saving[t].iter)
        /\ crashed' = TRUE
        /\ UNCHANGED <<storageMap, saving>>
     \/ /\ saving[t].iter # "appended"
        /\ storageMap' = [x \in DOMAIN storageMap \cup {saving[t].key} |->
                             IF x = saving[t].key THEN Recording(t) ELSE storageMap[x]]
        /\ saving' = [saving EXCEPT ![t].pc = "clear"]
        /\ UNCHANGED crashed
  /\ UNCHANGED <<setup, shown, sampling, serial, playQueue, needToAnalyze, analyses>>

(* playQueue.clear(), then the key is listed and an analysis thread starts. *)
SaveClear(t) ==
  /\ saving[t].pc = "clear"
  /\ Len(analyses) < MaxAnalyses
  /\ playQueue' = <<>>
  /\ serial' = Disturbed(serial)
  /\ saving' = [u \in Savers |-> IF u = t THEN NotSaving ELSE Cleared(saving[u])]
  /\ needToAnalyze' = Append(needToAnalyze, saving[t].key)
  /\ analyses' = Append(analyses, [pc |-> "copy", todo |-> <<>>])
  /\ UNCHANGED <<setup, shown, sampling, storageMap, crashed>>

-----------------------------------------------------------------------------
(* ReadSerialRunnable: a batch is read only while sampling is on; with     *)
(* sampling off the bytes are read and dropped.                            *)
SerialRead ==
  /\ setup.device
  /\ sampling
  /\ serial = "none"
  /\ Len(playQueue) < MaxQueue
  /\ serial' = "fresh"
  /\ UNCHANGED <<setup, shown, sampling, playQueue, storageMap, needToAnalyze, saving,
                 analyses, crashed>>

(* onDataReceived -> addToQueue: sampling is not looked at again.  The list  *)
(* with the batch is then printed to the log ...                            *)
SerialAdd ==
  /\ serial \in {"fresh", "stale"}
  /\ playQueue' = Append(playQueue, serial)
  /\ serial' = "prints"
  /\ saving' = [t \in Savers |-> Appended(saving[t])]
  /\ UNCHANGED <<setup, shown, sampling, storageMap, needToAnalyze, analyses, crashed>>

(* ... to its end, or up to a clear between hasNext and next of toString.    *)
SerialLog ==
  /\ \/ serial \in {"prints", "interrupted"} /\ serial' = "none" /\ UNCHANGED crashed
     \/ serial = "interrupted" /\ crashed' = TRUE /\ UNCHANGED serial
  /\ UNCHANGED <<setup, shown, sampling, playQueue, storageMap, needToAnalyze, saving, analyses>>

-----------------------------------------------------------------------------
SetAnalysis(i, pc, todo) ==
  analyses' = [analyses EXCEPT ![i] = [pc |-> pc, todo |-> todo]]

EndAnalysis(i) ==
  analyses' = SubSeq(analyses, 1, i - 1) \o SubSeq(analyses, i + 1, Len(analyses))

(* val temp = needToAnalyze.toMutableList()                                *)
AnalysisCopy(i) ==
  /\ analyses[i].pc = "copy"
  /\ SetAnalysis(i, "clear", needToAnalyze)
  /\ UNCHANGED <<setup, shown, sampling, serial, playQueue, storageMap, needToAnalyze, saving,
                 crashed>>

(* needToAnalyze.clear()                                                   *)
AnalysisClear(i) ==
  /\ analyses[i].pc = "clear"
  /\ needToAnalyze' = <<>>
  /\ SetAnalysis(i, "check", analyses[i].todo)
  /\ UNCHANGED <<setup, shown, sampling, serial, playQueue, storageMap, saving, crashed>>

(* size - 1 % 10 == 0 is size - (1 % 10) == 0.                             *)
AnalysisDue == Cardinality(DOMAIN storageMap) - (1 % 10) = 0

(* The keys are analysed, or dropped.  A key without an entry would throw; *)
(* an FFT of a length that is no power of two is caught and changes nothing. *)
AnalysisRun(i) ==
  /\ analyses[i].pc = "check"
  /\ EndAnalysis(i)
  /\ crashed' = (AnalysisDue /\ \E j \in DOMAIN analyses[i].todo :
                                   analyses[i].todo[j] \notin DOMAIN storageMap)
  /\ UNCHANGED <<setup, shown, sampling, serial, playQueue, storageMap, needToAnalyze, saving>>

Serial   == SerialRead \/ SerialAdd \/ SerialLog
Analysis == \E i \in DOMAIN analyses : AnalysisCopy(i) \/ AnalysisClear(i) \/ AnalysisRun(i)
Save(t)  == SaveStore(t) \/ SaveClear(t)

-----------------------------------------------------------------------------
Made == Nat \X (Stimuli \cup {NoStim})

EegTypeOK ==
  /\ setup \in Setups
  /\ shown \in Stimuli \cup {NoStim}
  /\ sampling \in BOOLEAN
  /\ serial \in {"none", "fresh", "stale", "prints", "interrupted"}
  /\ playQueue \in Seq({"fresh", "stale"})
  /\ DOMAIN storageMap \subseteq Images
  /\ \A k \in DOMAIN storageMap : storageMap[k] \in Made
  /\ needToAnalyze \in Seq(Images)
  /\ saving \in [Savers -> [pc : {"idle", "copy", "clear"}, key : Images, of : Made,
                           iter : {"untouched", "appended", "cleared", "both"}]]
  /\ analyses \in Seq([pc : {"copy", "clear", "check"}, todo : Seq(Images)])
  /\ crashed \in BOOLEAN
=============================================================================
