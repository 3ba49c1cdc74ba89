----------------------------- MODULE TrainProof -----------------------------
(***************************************************************************)
(* Proofs about Train for any number of photos and versions, any bounds    *)
(* and any user.                                                           *)
(*                                                                         *)
(* The recording (RecordingInv) needs two facts: a key is in the map before *)
(* it is listed, and a batch that is stale is the only one.                *)
(*                                                                         *)
(* The session (SessionInv) follows a script: the worker of a photo posts   *)
(* the same runnables in the same order every time.  Counted from the start *)
(* of the photo, the worker has made Posts posts, of which the UI has done  *)
(* all but those that wait; so the number of each that waits is known, and *)
(* with it the key and the picture that go with it.                        *)
(***************************************************************************)
EXTENDS Train, Integers, SequenceTheorems, FiniteSetTheorems, TLAPS

USE TrainAssumption, EegQueueAssumption

-----------------------------------------------------------------------------
(* The recording.                                                          *)
Threads(keys) == [pc : {"copy", "clear", "check"}, todo : Seq(keys)]

SaveRecords == [pc : {"idle", "copy", "clear"}, key : Images, of : Made,
                iter : {"untouched", "appended", "cleared", "both"}]

RecordingTypes ==
  /\ setup \in Setups
  /\ sampling \in BOOLEAN
  /\ serial \in {"none", "fresh", "stale", "prints", "interrupted"}
  /\ playQueue \in Seq({"fresh", "stale"})
  /\ saving \in [Savers -> SaveRecords]
  /\ crashed \in BOOLEAN

(* Whatever is listed or being analysed is in the map.                     *)
KeysPresent ==
  /\ DOMAIN storageMap \subseteq Images
  /\ \A k \in DOMAIN storageMap : storageMap[k] \in Made
  /\ needToAnalyze \in Seq(DOMAIN storageMap)
  /\ analyses \in Seq(Threads(DOMAIN storageMap))
  /\ \A t \in Savers : saving[t].pc = "clear" => saving[t].key \in DOMAIN storageMap

StaleAlone ==
  /\ \A i, j \in DOMAIN playQueue : playQueue[i] = "stale" /\ playQueue[j] = "stale" => i = j
  /\ serial = "stale" => \A i \in DOMAIN playQueue : playQueue[i] # "stale"

(* Without the headset the list stays empty, and no iteration is disturbed. *)
NoHeadset ==
  ~setup.device => serial = "none" /\ playQueue = <<>>
                   /\ \A t \in Savers : saving[t].iter = "untouched"

RecordingInv ==
  RecordingTypes /\ KeysPresent /\ StaleAlone /\ NoHeadset /\ DiesOnlyOfSharedQueue

(* What the session does to the recording.                                 *)
TouchRecording ==
  /\ UNCHANGED <<setup, storageMap, needToAnalyze, analyses, crashed>>
  /\ \/ UNCHANGED <<sampling, serial, playQueue, saving>>
     \/ \E t \in Savers, key \in Images, of \in Made :
          SaveStart(t, key, of) /\ UNCHANGED <<sampling, serial, playQueue>>
     \/ BeginQueue
     \/ EndQueue

LEMMA SeqGrows ==
  ASSUME NEW S, NEW T, S \subseteq T, NEW s \in Seq(S)
  PROVE  s \in Seq(T)
BY SeqMonotonic

LEMMA ThreadsGrow ==
  ASSUME NEW S, NEW T, S \subseteq T, NEW s \in Seq(Threads(S))
  PROVE  s \in Seq(Threads(T))
<1>1. Seq(S) \subseteq Seq(T)
  BY SeqMonotonic
<1>2. Threads(S) \subseteq Threads(T)
  BY <1>1 DEF Threads
<1>3. QED
  BY <1>2, SeqGrows

(* One thread is taken out of the list.                                    *)
LEMMA RemoveOne ==
  ASSUME NEW S, NEW s \in Seq(S), NEW i \in DOMAIN s
  PROVE  SubSeq(s, 1, i - 1) \o SubSeq(s, i + 1, Len(s)) \in Seq(S)
<1>1. i \in 1 .. Len(s) /\ Len(s) \in Nat
  BY LenProperties
<1>2. \A j \in 1 .. Len(s) : s[j] \in S
  BY ElementOfSeq
<1>3. SubSeq(s, 1, i - 1) \in Seq(S) /\ SubSeq(s, i + 1, Len(s)) \in Seq(S)
  BY <1>1, <1>2, SubSeqProperties
<1>4. QED
  BY <1>3, ConcatProperties

(* A clear of the list leaves a save where it is.                          *)
ClearedIs(r) ==
  /\ Cleared(r) \in SaveRecords
  /\ Cleared(r).pc = r.pc /\ Cleared(r).key = r.key /\ Cleared(r).of = r.of
  /\ playQueue = <<>> => Cleared(r).iter = r.iter

LEMMA ClearedRecord == \A r \in SaveRecords : ClearedIs(r)
BY DEF ClearedIs, Cleared, SaveRecords

LEMMA TouchInv ==
  ASSUME RecordingInv, TouchRecording, ~crashed
  PROVE  RecordingInv'
<1> USE DEF RecordingInv, TouchRecording, RecordingTypes, KeysPresent, StaleAlone, NoHeadset,
            DiesOnlyOfSharedQueue
<1>1. CASE UNCHANGED <<sampling, serial, playQueue, saving>>
  BY <1>1
<1>2. ASSUME NEW t \in Savers, NEW key \in Images, NEW of \in Made, SaveStart(t, key, of),
             UNCHANGED <<sampling, serial, playQueue>>
      PROVE  RecordingInv'
  BY <1>2 DEF SaveStart, SaveRecords
<1>3. ASSUME EmptyQueue, serial' \in {Disturbed(serial), Disturbed(Outdated(serial))},
             sampling' \in BOOLEAN
      PROVE  RecordingInv'
  <2>1. playQueue' = <<>> /\ DOMAIN playQueue' = {}
    BY <1>3 DEF EmptyQueue
  <2>2. saving' = [t \in Savers |-> Cleared(saving[t])]
    BY <1>3 DEF EmptyQueue
  <2>3. \A t \in Savers : ClearedIs(saving[t])
    BY ClearedRecord
  <2>4. RecordingTypes'
    BY <1>3, <2>1, <2>2, <2>3 DEF Disturbed, Outdated, ClearedIs
  <2>5. KeysPresent'
    BY <2>2, <2>3 DEF ClearedIs
  <2>6. NoHeadset'
    BY <1>3, <2>1, <2>2, <2>3 DEF Disturbed, Outdated, ClearedIs
  <2>7. StaleAlone'
    BY <2>1
  <2>8. QED
    BY <2>4, <2>5, <2>6, <2>7
<1>4. QED
  BY <1>1, <1>2, <1>3 DEF BeginQueue, EndQueue

LEMMA SaveStoreInv ==
  ASSUME RecordingInv, NEW t \in Savers, SaveStore(t), ~crashed
  PROVE  RecordingInv'
<1> USE DEF RecordingInv, RecordingTypes, KeysPresent, StaleAlone, NoHeadset,
            DiesOnlyOfSharedQueue, SaveRecords
<1>1. CASE crashed' = TRUE /\ Throws(saving[t].iter) /\ UNCHANGED <<storageMap, saving>>
  <2>1. setup.device
    BY <1>1 DEF Throws
  <2>2. QED
    BY <1>1, <2>1 DEF SaveStore
<1>2. CASE /\ storageMap' = [x \in DOMAIN storageMap \cup {saving[t].key} |->
                               IF x = saving[t].key THEN Recording(t) ELSE storageMap[x]]
           /\ saving' = [saving EXCEPT ![t].pc = "clear"]
           /\ UNCHANGED crashed
  <2>1. DOMAIN storageMap' = DOMAIN storageMap \cup {saving[t].key} /\ saving[t].key \in Images
    BY <1>2
  <2>2. UNCHANGED <<setup, sampling, serial, playQueue, needToAnalyze, analyses>>
    BY DEF SaveStore
  <2>3. needToAnalyze' \in Seq(DOMAIN storageMap') /\ analyses' \in Seq(Threads(DOMAIN storageMap'))
    BY <2>1, <2>2, SeqGrows, ThreadsGrow
  <2>4. RecordingTypes'
    BY <1>2, <2>2
  <2>5. \A u \in Savers : saving'[u].pc = "clear" => saving'[u].key \in DOMAIN storageMap'
    BY <1>2, <2>1
  <2>6. \A k \in DOMAIN storageMap' : storageMap'[k] \in Made
    <3>1. Recording(t) \in Made
      BY DEF Recording, SaveRecords
    <3>2. QED
      BY <1>2, <3>1
  <2>7. KeysPresent'
    BY <2>1, <2>3, <2>5, <2>6
  <2>8. NoHeadset' /\ StaleAlone'
    BY <1>2, <2>2
  <2>9. QED
    BY <1>2, <2>4, <2>7, <2>8
<1>3. QED
  BY <1>1, <1>2 DEF SaveStore

LEMMA SaveClearInv ==
  ASSUME RecordingInv, NEW t \in Savers, SaveClear(t), ~crashed
  PROVE  RecordingInv'
<1> USE DEF RecordingInv, RecordingTypes, KeysPresent, StaleAlone, NoHeadset,
            DiesOnlyOfSharedQueue
<1>1. /\ UNCHANGED <<setup, sampling, storageMap, crashed>>
      /\ serial' = Disturbed(serial)
      /\ playQueue' = <<>> /\ DOMAIN playQueue' = {}
      /\ needToAnalyze' = Append(needToAnalyze, saving[t].key)
      /\ analyses' = Append(analyses, [pc |-> "copy", todo |-> <<>>])
      /\ saving' = [u \in Savers |-> IF u = t THEN NotSaving ELSE Cleared(saving[u])]
      /\ saving[t].key \in DOMAIN storageMap
  BY DEF SaveClear
<1>2. needToAnalyze' \in Seq(DOMAIN storageMap')
  BY <1>1, AppendProperties
<1>3. [pc |-> "copy", todo |-> <<>>] \in Threads(DOMAIN storageMap)
  BY EmptySeq DEF Threads
<1>4. analyses' \in Seq(Threads(DOMAIN storageMap'))
  BY <1>1, <1>3, AppendProperties
<1>5. \A u \in Savers : ClearedIs(saving[u])
  BY ClearedRecord
<1>6. NotSaving \in SaveRecords
  <2>1. 0 \in Images /\ NothingRead \in Made
    BY DEF Images, NothingRead, Made
  <2>2. QED
    BY <2>1 DEF NotSaving, SaveRecords
<1>7. RecordingTypes'
  BY <1>1, <1>5, <1>6 DEF Disturbed, ClearedIs
<1>8. \A u \in Savers : saving'[u].pc = "clear" => saving'[u].key \in DOMAIN storageMap'
  BY <1>1, <1>5 DEF NotSaving, ClearedIs
<1>9. NoHeadset'
  BY <1>1, <1>5 DEF Disturbed, NotSaving, ClearedIs
<1>10. StaleAlone'
  BY <1>1
<1>11. KeysPresent'
  BY <1>1, <1>2, <1>4, <1>8
<1>12. QED
  BY <1>1, <1>7, <1>9, <1>10, <1>11

LEMMA SerialInv ==
  ASSUME RecordingInv, Serial, ~crashed
  PROVE  RecordingInv'
<1> USE DEF RecordingInv, RecordingTypes, KeysPresent, StaleAlone, NoHeadset,
            DiesOnlyOfSharedQueue
<1>1. CASE SerialRead
  BY <1>1 DEF SerialRead
<1>2. CASE SerialAdd
  <2>1. /\ UNCHANGED <<setup, sampling, storageMap, needToAnalyze, analyses, crashed>>
        /\ serial' = "prints" /\ serial \in {"fresh", "stale"}
        /\ playQueue' = Append(playQueue, serial)
        /\ saving' = [t \in Savers |-> Appended(saving[t])]
    BY <1>2 DEF SerialAdd
  <2>2. /\ playQueue' \in Seq({"fresh", "stale"})
        /\ DOMAIN playQueue = 1 .. Len(playQueue) /\ Len(playQueue) \in Nat
        /\ DOMAIN playQueue' = 1 .. Len(playQueue) + 1
        /\ \A i \in DOMAIN playQueue : playQueue'[i] = playQueue[i]
        /\ playQueue'[Len(playQueue) + 1] = serial
    BY <2>1
  <2>3. \A i, j \in DOMAIN playQueue' :
          playQueue'[i] = "stale" /\ playQueue'[j] = "stale" => i = j
    BY <2>1, <2>2
  <2>4. \A t \in Savers : /\ Appended(saving[t]).pc = saving[t].pc
                          /\ Appended(saving[t]).key = saving[t].key
                          /\ Appended(saving[t]).iter \in
                               {"untouched", "appended", "cleared", "both"}
                          /\ Appended(saving[t]) \in SaveRecords
    BY DEF Appended, SaveRecords
  <2>5. RecordingTypes'
    BY <2>1, <2>2, <2>4
  <2>6. KeysPresent'
    BY <2>1, <2>4
  <2>7. setup.device
    BY <2>1
  <2>8. QED
    BY <2>1, <2>3, <2>5, <2>6, <2>7
<1>3. CASE SerialLog
  <2>1. CASE serial \in {"prints", "interrupted"} /\ serial' = "none" /\ UNCHANGED crashed
    BY <1>3, <2>1 DEF SerialLog
  <2>2. CASE serial = "interrupted" /\ crashed' = TRUE /\ UNCHANGED serial
    BY <1>3, <2>2 DEF SerialLog
  <2>3. QED
    BY <1>3, <2>1, <2>2 DEF SerialLog
<1>4. QED
  BY <1>1, <1>2, <1>3 DEF Serial

LEMMA AnalysisInv ==
  ASSUME RecordingInv, Analysis, ~crashed
  PROVE  RecordingInv'
<1> USE DEF RecordingInv, RecordingTypes, KeysPresent, StaleAlone, NoHeadset,
            DiesOnlyOfSharedQueue
<1>1. SUFFICES ASSUME NEW i \in DOMAIN analyses,
                      AnalysisCopy(i) \/ AnalysisClear(i) \/ AnalysisRun(i)
               PROVE  RecordingInv'
  BY DEF Analysis
<1>2. analyses[i] \in Threads(DOMAIN storageMap)
  BY ElementOfSeq, LenProperties
<1>3. \A pc \in {"copy", "clear", "check"}, todo \in Seq(DOMAIN storageMap) :
        SetAnalysis(i, pc, todo) => analyses' \in Seq(Threads(DOMAIN storageMap))
  <2> SUFFICES ASSUME NEW pc \in {"copy", "clear", "check"}, NEW todo \in Seq(DOMAIN storageMap),
                      SetAnalysis(i, pc, todo)
               PROVE  analyses' \in Seq(Threads(DOMAIN storageMap))
    OBVIOUS
  <2>1. [pc |-> pc, todo |-> todo] \in Threads(DOMAIN storageMap)
    BY DEF Threads
  <2>2. QED
    BY <2>1, ExceptSeq, LenProperties DEF SetAnalysis
<1>4. CASE AnalysisCopy(i)
  BY <1>3, <1>4 DEF AnalysisCopy
<1>5. CASE AnalysisClear(i)
  <2>1. analyses[i].todo \in Seq(DOMAIN storageMap)
    BY <1>2 DEF Threads
  <2>2. needToAnalyze' \in Seq(DOMAIN storageMap)
    BY <1>5, EmptySeq DEF AnalysisClear
  <2>3. QED
    BY <1>3, <1>5, <2>1, <2>2 DEF AnalysisClear
<1>6. CASE AnalysisRun(i)
  <2>1. \A j \in DOMAIN analyses[i].todo : analyses[i].todo[j] \in DOMAIN storageMap
    BY <1>2, ElementOfSeq, LenProperties DEF Threads
  <2>2. crashed' = FALSE
    BY <1>6, <2>1 DEF AnalysisRun
  <2>3. analyses' \in Seq(Threads(DOMAIN storageMap))
    BY <1>6, RemoveOne DEF AnalysisRun, EndAnalysis
  <2>4. QED
    BY <1>6, <2>2, <2>3 DEF AnalysisRun
<1>7. QED
  BY <1>1, <1>4, <1>5, <1>6

-----------------------------------------------------------------------------
(* The session.                                                            *)
Kinds == {"black", "image", "display", "save", "ask", "hide", "next"}
Items == Kinds \X Nat

(* The values that go with each runnable.                                  *)
Proper(x, p) ==
  /\ x \in Items
  /\ x[1] = "black" => x[2] = Black
  /\ x[1] = "display" => x[2] \in Stimuli
  /\ x[1] \in {"image", "save", "ask", "hide"} => x[2] \in Images
  /\ x[1] = "next" => x[2] = p

(* Its place in the script of a photo; a second half has that of the first. *)
Place(x) ==
  IF x[1] = "black" \/ (x[1] = "display" /\ x[2] = Black) THEN 1
  ELSE IF x[1] = "next" THEN 3 * NumImages + 2
  ELSE IF x[1] \in {"image", "display"} THEN 3 * x[2] + 2
  ELSE IF x[1] \in {"save", "ask"} THEN 3 * x[2] + 3
  ELSE 3 * x[2] + 4

(* The posts the worker has made for this photo ...                        *)
PostsOfTurn(pc) ==
  IF pc = "black" THEN 0
  ELSE IF pc \in {"blackSleep", "blackSave", "show"} THEN 1
  ELSE IF pc \in {"showSleep", "off"} THEN 2
  ELSE 3

Posts == IF photo = 0 THEN 0 ELSE 3 * image + PostsOfTurn(wpc)

(* ... and those the UI has done.                                          *)
Done == Posts - Len(ui)

Waiting(u, posts, p) ==
  \A i \in 1 .. Len(u) :
    /\ Proper(u[i], p)
    /\ Place(u[i]) = posts - Len(u) + i
    /\ i > 1 => u[i][1] \notin {"display", "ask"}

SessionTypes ==
  /\ shown \in Stimuli \cup {NoStim}
  /\ ui \in Seq(Items)
  /\ photo \in 0 .. NumPhotos
  /\ wpc \in {"off", "black", "blackSleep", "blackSave", "show", "showSleep", "poll",
              "reset", "read"}
  /\ image \in 0 .. NumImages
  /\ currentInt \in 0 .. NumImages
  /\ bar \in [visible : BOOLEAN, rating : 0 .. setup.stars, about : Stimuli \cup {NoStim},
              taps : 0 .. setup.taps]
  /\ rateChange \in BOOLEAN
  /\ ratings \in Seq((1 .. NumPhotos) \X Images \X (Stimuli \cup {NoStim}))
  /\ retouched \in BOOLEAN
  /\ destroyed \in BOOLEAN

(* Where the loop of the worker can be.                                    *)
LoopInStep ==
  /\ photo = 0 => wpc = "off" /\ ui = <<>>
  /\ wpc \in {"black", "blackSleep", "blackSave"} => image = 0
  /\ wpc \in {"showSleep", "poll", "reset", "read"} => image < NumImages
  /\ wpc = "off" /\ photo > 0 => image = NumImages

(* The key counts the saves done; a picture stays until the next is posted. *)
CounterInStep == 3 * currentInt <= Done /\ Done < 3 * currentInt + 3
ScreenInStep  == \A k \in Images : Done \in {3 * k + 2, 3 * k + 3} => shown = k

(* A save of the UI thread is made under the picture on the screen.        *)
KeyOfScreen == saving["ui"].pc # "idle" => saving["ui"].key = shown

SessionInv ==
  SessionTypes /\ LoopInStep /\ Waiting(ui, Posts, photo) /\ CounterInStep /\ ScreenInStep
  /\ KeyOfScreen

-----------------------------------------------------------------------------
(* What the three changes of the queue of the UI do to it.                 *)
LEMMA PostOne ==
  ASSUME NEW u \in Seq(Items), NEW posts \in Int, NEW p, Waiting(u, posts, p),
         NEW x \in Items, Proper(x, p), Place(x) = posts + 1, x[1] \notin {"display", "ask"}
  PROVE  /\ Append(u, x) \in Seq(Items)
         /\ Len(Append(u, x)) = Len(u) + 1
         /\ Waiting(Append(u, x), posts + 1, p)
<1>1. /\ Append(u, x) \in Seq(Items)
      /\ Len(Append(u, x)) = Len(u) + 1
      /\ Len(u) \in Nat
      /\ \A i \in 1 .. Len(u) : Append(u, x)[i] = u[i]
      /\ Append(u, x)[Len(u) + 1] = x
  BY AppendProperties
<1>2. ASSUME NEW i \in 1 .. Len(u) + 1
      PROVE  /\ Proper(Append(u, x)[i], p)
             /\ Place(Append(u, x)[i]) = posts + 1 - (Len(u) + 1) + i
             /\ i > 1 => Append(u, x)[i][1] \notin {"display", "ask"}
  <2>1. CASE i \in 1 .. Len(u)
    BY <1>1, <2>1 DEF Waiting
  <2>2. CASE i = Len(u) + 1
    BY <1>1, <2>2
  <2>3. QED
    BY <1>1, <2>1, <2>2
<1>3. QED
  BY <1>1, <1>2 DEF Waiting

LEMMA TakeOne ==
  ASSUME NEW u \in Seq(Items), u # <<>>, NEW posts \in Int, NEW p, Waiting(u, posts, p)
  PROVE  /\ Tail(u) \in Seq(Items)
         /\ Len(Tail(u)) = Len(u) - 1
         /\ Waiting(Tail(u), posts, p)
<1>1. /\ Tail(u) \in Seq(Items)
      /\ Len(Tail(u)) = Len(u) - 1
      /\ Len(u) \in Nat
      /\ \A i \in 1 .. Len(Tail(u)) : Tail(u)[i] = u[i + 1]
  BY HeadTailProperties
<1>2. ASSUME NEW i \in 1 .. Len(Tail(u))
      PROVE  /\ Proper(Tail(u)[i], p)
             /\ Place(Tail(u)[i]) = posts - Len(Tail(u)) + i
             /\ Tail(u)[i][1] \notin {"display", "ask"}
  <2>1. i + 1 \in 1 .. Len(u) /\ i + 1 > 1
    BY <1>1
  <2>2. QED
    BY <1>1, <2>1 DEF Waiting
<1>3. QED
  BY <1>1, <1>2 DEF Waiting

LEMMA HalfOne ==
  ASSUME NEW u \in Seq(Items), u # <<>>, NEW posts \in Int, NEW p, Waiting(u, posts, p),
         NEW x \in Items, Proper(x, p), Place(x) = Place(Head(u))
  PROVE  /\ <<x>> \o Tail(u) \in Seq(Items)
         /\ Len(<<x>> \o Tail(u)) = Len(u)
         /\ Waiting(<<x>> \o Tail(u), posts, p)
<1> DEFINE v == <<x>> \o Tail(u)
<1>1. /\ Tail(u) \in Seq(Items)
      /\ Len(Tail(u)) = Len(u) - 1
      /\ Len(u) \in Nat /\ Len(u) > 0
      /\ \A i \in 1 .. Len(Tail(u)) : Tail(u)[i] = u[i + 1]
  BY HeadTailProperties
<1>2. <<x>> \in Seq(Items) /\ Len(<<x>>) = 1
  OBVIOUS
<1>3. /\ v \in Seq(Items) /\ Len(v) = Len(u)
      /\ v[1] = x
      /\ \A i \in 2 .. Len(u) : v[i] = u[i]
  BY <1>1, <1>2
<1>4. Head(u) = u[1]
  OBVIOUS
<1>5. ASSUME NEW i \in 1 .. Len(v)
      PROVE  /\ Proper(v[i], p)
             /\ Place(v[i]) = posts - Len(v) + i
             /\ i > 1 => v[i][1] \notin {"display", "ask"}
  <2>1. CASE i = 1
    BY <1>1, <1>3, <1>4, <2>1 DEF Waiting
  <2>2. CASE i \in 2 .. Len(u)
    BY <1>1, <1>3, <2>2 DEF Waiting
  <2>3. QED
    BY <1>1, <1>3, <2>1, <2>2
<1>6. QED
  BY <1>3, <1>5 DEF Waiting

LEMMA FirstOne ==
  ASSUME NEW u \in Seq(Items), u # <<>>, NEW posts \in Int, NEW p, Waiting(u, posts, p)
  PROVE  /\ Head(u) \in Items /\ Proper(Head(u), p)
         /\ Len(u) \in Nat /\ Len(u) > 0
         /\ Place(Head(u)) = posts - Len(u) + 1
<1>1. Len(u) \in Nat /\ Len(u) > 0 /\ Head(u) = u[1]
  BY HeadTailProperties
<1>2. QED
  BY <1>1 DEF Waiting, Proper

LEMMA NoneWaits == ASSUME NEW posts, NEW p PROVE Waiting(<<>>, posts, p)
BY DEF Waiting

(* All that is left after the last runnable of a photo is nothing.         *)
LEMMA NextIsLast ==
  ASSUME SessionInv, ui # <<>>, Head(ui)[1] = "next"
  PROVE  photo > 0 /\ wpc = "off" /\ Tail(ui) = <<>> /\ Head(ui)[2] = photo
<1> USE DEF SessionInv, SessionTypes
<1>1. photo > 0
  BY DEF LoopInStep
<1>2. Posts \in Int /\ Posts <= 3 * NumImages + 2
  BY <1>1 DEF Posts, PostsOfTurn, LoopInStep
<1>3. /\ Proper(Head(ui), photo) /\ Len(ui) \in Nat /\ Len(ui) > 0
      /\ Place(Head(ui)) = Posts - Len(ui) + 1
  BY <1>2, FirstOne
<1>4. Place(Head(ui)) = 3 * NumImages + 2 /\ Head(ui)[2] = photo
  BY <1>3 DEF Place, Proper
<1>5. Len(ui) = 1 /\ Posts = 3 * NumImages + 2
  <2>1. \A posts \in Int, len \in Nat, last \in Int :
          posts <= last /\ len > 0 /\ posts - len + 1 = last => len = 1 /\ posts = last
    OBVIOUS
  <2>2. 3 * NumImages + 2 \in Int
    OBVIOUS
  <2>3. QED
    BY <1>2, <1>3, <1>4, <2>1, <2>2
<1>6. wpc = "off"
  BY <1>1, <1>5 DEF Posts, PostsOfTurn, LoopInStep
<1>7. Tail(ui) = <<>>
  <2>1. Tail(ui) \in Seq(Items) /\ Len(Tail(ui)) = 0
    BY <1>5, HeadTailProperties
  <2>2. QED
    BY <2>1, EmptySeq
<1>8. QED
  BY <1>1, <1>4, <1>6, <1>7

-----------------------------------------------------------------------------
(* The worker posts the next runnable of the script.                       *)
LEMMA PostInv ==
  ASSUME SessionInv, photo > 0, NEW x \in Items, ui' = Append(ui, x),
         Proper(x, photo), Place(x) = Posts + 1, x[1] \notin {"display", "ask"},
         Posts' = Posts + 1, SessionTypes', LoopInStep',
         UNCHANGED <<shown, photo, currentInt, saving>>
  PROVE  SessionInv'
<1>1. Posts \in Int
  BY DEF SessionInv, SessionTypes, Posts, PostsOfTurn
<1>2. Len(ui') = Len(ui) + 1 /\ Waiting(ui', Posts + 1, photo)
  BY <1>1, PostOne DEF SessionInv, SessionTypes
<1>3. Done' = Done
  BY <1>1, <1>2, LenProperties DEF Done, SessionInv, SessionTypes
<1>4. QED
  BY <1>2, <1>3 DEF SessionInv, CounterInStep, ScreenInStep, KeyOfScreen

LEMMA WorkerInv ==
  ASSUME SessionInv, RecordingTypes, Worker
  PROVE  SessionInv'
<1> USE DEF SessionInv
<1>0. photo > 0 \/ wpc = "off"
  BY DEF LoopInStep, SessionTypes
<1>1. CASE WorkerBlack
  <2> DEFINE x == <<"black", Black>>
  <2>1. x \in Items /\ Proper(x, photo) /\ Place(x) = Posts + 1 /\ Posts' = Posts + 1
    BY <1>0, <1>1 DEF WorkerBlack, Items, Kinds, Proper, Place, Posts, PostsOfTurn, Black,
       SessionTypes, LoopInStep
  <2>2. ui' \in Seq(Items)
    BY <1>1, <2>1, AppendProperties DEF WorkerBlack, SessionTypes
  <2>3. SessionTypes' /\ LoopInStep'
    BY <1>0, <1>1, <2>2 DEF WorkerBlack, SessionTypes, LoopInStep, eegVars, history
  <2>4. QED
    BY <1>0, <1>1, <2>1, <2>3, PostInv DEF WorkerBlack, eegVars
<1>2. CASE WorkerSaveBlack
  <2>1. Posts' = Posts /\ Done' = Done
    BY <1>2 DEF WorkerSaveBlack, Posts, PostsOfTurn, Done
  <2>2. SessionTypes' /\ LoopInStep'
    BY <1>2 DEF WorkerSaveBlack, SessionTypes, LoopInStep, history
  <2>3. KeyOfScreen'
    BY <1>2 DEF WorkerSaveBlack, KeyOfScreen, SaveStart, Savers, RecordingTypes
  <2>4. QED
    BY <1>2, <2>1, <2>2, <2>3 DEF WorkerSaveBlack, CounterInStep, ScreenInStep
<1>3. CASE WorkerShow
  <2> DEFINE x == <<"image", image>>
  <2>1. image \in Images
    BY <1>3 DEF WorkerShow, SessionTypes, Images
  <2>2. x \in Items /\ Proper(x, photo) /\ Place(x) = Posts + 1 /\ Posts' = Posts + 1
    BY <1>0, <1>3, <2>1 DEF WorkerShow, Items, Kinds, Proper, Place, Posts, PostsOfTurn,
                            Images, Black,
       SessionTypes, LoopInStep
  <2>3. ui' \in Seq(Items)
    BY <1>3, <2>2, AppendProperties DEF WorkerShow, SessionTypes
  <2>4. SessionTypes' /\ LoopInStep'
    BY <1>0, <1>3, <2>1, <2>3 DEF WorkerShow, SessionTypes, LoopInStep, eegVars, history
  <2>5. QED
    BY <1>0, <1>3, <2>2, <2>4, PostInv DEF WorkerShow, eegVars
<1>4. CASE WorkerAsk
  <2> DEFINE x == <<"save", image>>
  <2>1. image \in Images
    BY <1>4 DEF WorkerAsk, SessionTypes, LoopInStep, Images
  <2>2. x \in Items /\ Proper(x, photo) /\ Place(x) = Posts + 1 /\ Posts' = Posts + 1
    BY <1>0, <1>4, <2>1 DEF WorkerAsk, Items, Kinds, Proper, Place, Posts, PostsOfTurn,
                            Images, Black,
       SessionTypes, LoopInStep
  <2>3. ui' \in Seq(Items)
    BY <1>4, <2>2, AppendProperties DEF WorkerAsk, SessionTypes
  <2>4. SessionTypes' /\ LoopInStep'
    BY <1>0, <1>4, <2>1, <2>3 DEF WorkerAsk, SessionTypes, LoopInStep, eegVars, history
  <2>5. QED
    BY <1>0, <1>4, <2>2, <2>4, PostInv DEF WorkerAsk, eegVars
<1>5. CASE WorkerPoll \/ WorkerReset
  <2>1. Posts' = Posts /\ Done' = Done
    BY <1>5 DEF WorkerPoll, WorkerReset, Posts, PostsOfTurn, Done
  <2>2. SessionTypes' /\ LoopInStep'
    BY <1>5 DEF WorkerPoll, WorkerReset, SessionTypes, LoopInStep, eegVars, history
  <2>3. QED
    BY <1>5, <2>1, <2>2 DEF WorkerPoll, WorkerReset, CounterInStep, ScreenInStep, eegVars,
       KeyOfScreen
<1>6. CASE WorkerRead
  <2> DEFINE x == <<"hide", image>>
  <2>1. image \in Images /\ photo \in 1 .. NumPhotos
    BY <1>0, <1>6 DEF WorkerRead, SessionTypes, LoopInStep, Images
  <2>2. x \in Items /\ Proper(x, photo) /\ Place(x) = Posts + 1 /\ Posts' = Posts + 1
    BY <1>0, <1>6, <2>1 DEF WorkerRead, Items, Kinds, Proper, Place, Posts, PostsOfTurn,
                            Images, Black,
       SessionTypes, LoopInStep
  <2>3. ui' \in Seq(Items)
    BY <1>6, <2>2, AppendProperties DEF WorkerRead, SessionTypes
  <2>e. ratings' \in Seq((1 .. NumPhotos) \X Images \X (Stimuli \cup {NoStim}))
    <3>1. <<photo, image, bar.about>> \in (1 .. NumPhotos) \X Images \X (Stimuli \cup {NoStim})
      BY <2>1 DEF SessionTypes
    <3>2. QED
      BY <1>6, <3>1, AppendProperties DEF WorkerRead, SessionTypes
  <2>4. SessionTypes' /\ LoopInStep'
    BY <1>0, <1>6, <2>1, <2>3, <2>e DEF WorkerRead, SessionTypes, LoopInStep, eegVars, history
  <2>5. QED
    BY <1>0, <1>6, <2>2, <2>4, PostInv DEF WorkerRead, eegVars
<1>7. CASE WorkerEnd
  <2> DEFINE x == <<"next", photo>>
  <2>1. image = NumImages
    BY <1>7 DEF WorkerEnd, SessionTypes, Images
  <2>2. x \in Items /\ Proper(x, photo) /\ Place(x) = Posts + 1 /\ Posts' = Posts + 1
    BY <1>0, <1>7, <2>1 DEF WorkerEnd, Items, Kinds, Proper, Place, Posts, PostsOfTurn,
                            Images, Black,
       SessionTypes, LoopInStep
  <2>3. ui' \in Seq(Items)
    BY <1>7, <2>2, AppendProperties DEF WorkerEnd, SessionTypes
  <2>4. SessionTypes' /\ LoopInStep'
    BY <1>0, <1>7, <2>1, <2>3 DEF WorkerEnd, SessionTypes, LoopInStep, eegVars, history
  <2>5. QED
    BY <1>0, <1>7, <2>2, <2>4, PostInv DEF WorkerEnd, eegVars
<1>8. QED
  BY <1>1, <1>2, <1>3, <1>4, <1>5, <1>6, <1>7 DEF Worker

-----------------------------------------------------------------------------
(* The UI does the next runnable, or half of it.                           *)
LEMMA FirstWaiting ==
  ASSUME SessionInv, ui # <<>>
  PROVE  /\ Proper(Head(ui), photo) /\ Head(ui) \in Items
         /\ Place(Head(ui)) = Done + 1 /\ Done \in Int
         /\ photo > 0 /\ Posts \in Int /\ Len(ui) \in Nat /\ Len(ui) > 0
<1>1. photo > 0 /\ photo \in Nat /\ ui \in Seq(Items)
  BY DEF SessionInv, SessionTypes, LoopInStep
<1>2. Posts \in Int
  BY DEF SessionInv, SessionTypes, Posts, PostsOfTurn
<1>3. /\ Head(ui) \in Items /\ Proper(Head(ui), photo)
      /\ Len(ui) \in Nat /\ Len(ui) > 0
      /\ Place(Head(ui)) = Posts - Len(ui) + 1
  BY <1>1, <1>2, FirstOne DEF SessionInv
<1>4. QED
  BY <1>1, <1>2, <1>3 DEF Done

LEMMA TakeInv ==
  ASSUME SessionInv, ui # <<>>, ui' = Tail(ui), UNCHANGED <<photo, wpc, image>>
  PROVE  /\ Done' = Done + 1
         /\ Waiting(ui, Posts, photo)' /\ ui' \in Seq(Items)
         /\ LoopInStep'
<1>1. Posts' = Posts
  BY DEF Posts
<1>2. ui \in Seq(Items) /\ Waiting(ui, Posts, photo)
  BY DEF SessionInv, SessionTypes
<1>3. /\ ui' \in Seq(Items)
      /\ Len(ui') = Len(ui) - 1
      /\ Waiting(ui', Posts, photo)
  BY <1>2, FirstWaiting, TakeOne
<1>4. Done' = Done + 1
  BY <1>1, <1>3, FirstWaiting DEF Done
<1>5. LoopInStep'
  BY FirstWaiting DEF SessionInv, LoopInStep
<1>6. QED
  BY <1>1, <1>3, <1>4, <1>5

LEMMA HalfInv ==
  ASSUME SessionInv, ui # <<>>, NEW x \in Items, ui' = <<x>> \o Tail(ui),
         Proper(x, photo), Place(x) = Place(Head(ui)), UNCHANGED <<photo, wpc, image>>
  PROVE  /\ Done' = Done
         /\ Waiting(ui, Posts, photo)' /\ ui' \in Seq(Items)
         /\ LoopInStep'
<1>1. Posts' = Posts
  BY DEF Posts
<1>2. ui \in Seq(Items) /\ Waiting(ui, Posts, photo)
  BY DEF SessionInv, SessionTypes
<1>3. /\ ui' \in Seq(Items)
      /\ Len(ui') = Len(ui)
      /\ Waiting(ui', Posts, photo)
  BY <1>2, FirstWaiting, HalfOne
<1>4. Done' = Done
  BY <1>1, <1>3 DEF Done
<1>5. LoopInStep'
  BY FirstWaiting DEF SessionInv, LoopInStep
<1>6. QED
  BY <1>1, <1>3, <1>4, <1>5

(* There is one third of a number.                                         *)
LEMMA OneThird ==
  ASSUME NEW n \in Int, NEW c \in Int, NEW k \in Int,
         3 * c <= n, n < 3 * c + 3, 3 * k <= n, n < 3 * k + 3
  PROVE  c = k
OBVIOUS

LEMMA CounterIs ==
  ASSUME SessionInv, ui # <<>>, NEW k \in Int, 3 * k <= Done, Done < 3 * k + 3
  PROVE  currentInt = k
<1>1. currentInt \in Int /\ 3 * currentInt <= Done /\ Done < 3 * currentInt + 3 /\ Done \in Int
  BY FirstWaiting DEF SessionInv, SessionTypes, CounterInStep
<1>2. QED
  BY <1>1, OneThird

(* Nothing but UiSave begins a save of the UI, and a save keeps its key.   *)
SameSave ==
  saving'["ui"].pc # "idle" => saving["ui"].pc # "idle" /\ saving'["ui"].key = saving["ui"].key

LEMMA EmptyingKeepsSave ==
  ASSUME RecordingTypes, EmptyQueue
  PROVE  SameSave
BY ClearedRecord DEF RecordingTypes, EmptyQueue, SameSave, ClearedIs, Savers

LEMMA UiBeginInv ==
  ASSUME SessionInv, RecordingTypes, UiBegin
  PROVE  SessionInv' /\ Done' = Done
<1> DEFINE x == <<"display", Head(ui)[2]>>
<1>1. ui # <<>> /\ Head(ui)[1] \in {"black", "image"} /\ ui' = <<x>> \o Tail(ui)
  BY DEF UiBegin, UiRuns
<1>2. x \in Items /\ Proper(x, photo) /\ Place(x) = Place(Head(ui))
  BY <1>1, FirstWaiting DEF Items, Kinds, Proper, Place, Stimuli, Images, Black
<1>3. UNCHANGED <<setup, shown, photo, wpc, image, currentInt, bar, rateChange, ratings,
                  retouched, destroyed>>
  BY DEF UiBegin, history
<1>4. Done' = Done /\ Waiting(ui, Posts, photo)' /\ ui' \in Seq(Items) /\ LoopInStep'
  BY <1>1, <1>2, <1>3, HalfInv
<1>5. SessionTypes'
  BY <1>3, <1>4 DEF SessionInv, SessionTypes
<1>6. SameSave
  BY EmptyingKeepsSave DEF UiBegin, BeginQueue
<1>7. QED
  BY <1>3, <1>4, <1>5, <1>6 DEF SessionInv, CounterInStep, ScreenInStep, SameSave,
                                KeyOfScreen

LEMMA UiDisplayInv ==
  ASSUME SessionInv, UiDisplay
  PROVE  SessionInv' /\ (Done = 3 * currentInt => currentInt = 0)
<1>1. /\ ui # <<>> /\ Head(ui)[1] = "display" /\ ui' = Tail(ui) /\ shown' = Head(ui)[2]
      /\ saving["ui"].pc = "idle"
      /\ UNCHANGED <<setup, saving, photo, wpc, image, currentInt, bar, rateChange, ratings,
                     retouched, destroyed>>
  BY DEF UiDisplay, UiRuns, UiFree, history
<1>2. Done' = Done + 1 /\ Waiting(ui, Posts, photo)' /\ ui' \in Seq(Items) /\ LoopInStep'
  BY <1>1, TakeInv
<1>3. shown' \in Stimuli
  BY <1>1, FirstWaiting DEF Proper
<1>4. SessionTypes'
  BY <1>1, <1>2, <1>3 DEF SessionInv, SessionTypes
<1>5. \/ shown' = Black /\ Done' = 1
      \/ shown' \in Images /\ Done' = 3 * shown' + 2
  BY <1>1, <1>2, <1>3, FirstWaiting DEF Place, Stimuli
<1>6. currentInt \in Nat /\ 3 * currentInt <= Done /\ Done < 3 * currentInt + 3 /\ Done \in Int
  BY <1>1, FirstWaiting DEF SessionInv, SessionTypes, CounterInStep
<1>7. CounterInStep' /\ ScreenInStep'
  BY <1>1, <1>2, <1>5, <1>6 DEF CounterInStep, ScreenInStep, Images
<1>8. Done = 3 * currentInt => currentInt = 0
  <2>1. \A n \in Int, c \in Nat, k \in Images :
          (n + 1 = 1 \/ n + 1 = 3 * k + 2) /\ n = 3 * c => c = 0
    BY DEF Images
  <2>2. 0 \in Images
    BY DEF Images
  <2>3. QED
    BY <1>2, <1>5, <1>6, <2>1, <2>2
<1>9. QED
  BY <1>1, <1>2, <1>4, <1>7, <1>8 DEF SessionInv, KeyOfScreen

LEMMA UiSaveInv ==
  ASSUME SessionInv, RecordingTypes, UiSave
  PROVE  SessionInv' /\ currentInt \in Images /\ Done' = Done
<1> DEFINE x == <<"ask", currentInt>>
<1>1. /\ ui # <<>> /\ Head(ui)[1] = "save" /\ ui' = <<x>> \o Tail(ui)
      /\ UNCHANGED <<setup, shown, photo, wpc, image, currentInt, bar, rateChange, ratings,
                     retouched, destroyed>>
  BY DEF UiSave, UiRuns, history
<1>2. Head(ui)[2] \in Images /\ Done + 1 = 3 * Head(ui)[2] + 3 /\ Done \in Int
  BY <1>1, FirstWaiting DEF Proper, Place
<1>3. currentInt = Head(ui)[2]
  <2>1. \A k \in Images : Done + 1 = 3 * k + 3 => 3 * k <= Done /\ Done < 3 * k + 3 /\ k \in Int
    BY <1>2 DEF Images
  <2>2. QED
    BY <1>1, <1>2, <2>1, CounterIs
<1>4. x \in Items /\ Proper(x, photo) /\ Place(x) = Place(Head(ui))
  BY <1>1, <1>2, <1>3, FirstWaiting DEF Items, Kinds, Proper, Place, Images
<1>5. Done' = Done /\ Waiting(ui, Posts, photo)' /\ ui' \in Seq(Items) /\ LoopInStep'
  BY <1>1, <1>4, HalfInv
<1>6. SessionTypes'
  BY <1>1, <1>5 DEF SessionInv, SessionTypes
<1>7. Done = 3 * currentInt + 2 /\ currentInt \in Images
  <2>1. \A k \in Images, n \in Int : n + 1 = 3 * k + 3 => n = 3 * k + 2
    BY DEF Images
  <2>2. QED
    BY <1>2, <1>3, <2>1
<1>8. shown = currentInt
  BY <1>7 DEF SessionInv, ScreenInStep
<1>9. saving'["ui"].key = currentInt
  BY DEF UiSave, SaveStart, RecordingTypes, Savers
<1>10. QED
  BY <1>1, <1>5, <1>6, <1>7, <1>8, <1>9 DEF SessionInv, CounterInStep, ScreenInStep,
     KeyOfScreen

LEMMA UiAskInv ==
  ASSUME SessionInv, RecordingTypes, UiAsk
  PROVE  SessionInv' /\ Done = 3 * currentInt + 2 /\ Done' = 3 * currentInt' /\ currentInt' > 0
<1>1. /\ ui # <<>> /\ Head(ui)[1] = "ask" /\ ui' = Tail(ui) /\ currentInt' = currentInt + 1
      /\ bar' = [bar EXCEPT !.visible = TRUE, !.taps = 0]
      /\ UNCHANGED <<setup, shown, saving, photo, wpc, image, rateChange, ratings,
                     retouched, destroyed>>
  BY DEF UiAsk, UiRuns, eegVars, history
<1>2. Done' = Done + 1 /\ Waiting(ui, Posts, photo)' /\ ui' \in Seq(Items) /\ LoopInStep'
  BY <1>1, TakeInv
<1>3. Head(ui)[2] \in Images /\ Done + 1 = 3 * Head(ui)[2] + 3 /\ Done \in Int
  BY <1>1, FirstWaiting DEF Proper, Place
<1>4. currentInt = Head(ui)[2] /\ Done = 3 * currentInt + 2 /\ currentInt \in Images
  <2>1. \A k \in Images : Done + 1 = 3 * k + 3 => 3 * k <= Done /\ Done < 3 * k + 3 /\ k \in Int
    BY <1>3 DEF Images
  <2>2. currentInt = Head(ui)[2]
    BY <1>1, <1>3, <2>1, CounterIs
  <2>3. \A k \in Images, n \in Int : n + 1 = 3 * k + 3 => n = 3 * k + 2
    BY DEF Images
  <2>4. QED
    BY <1>3, <2>2, <2>3
<1>5. SessionTypes'
  <2>1. currentInt' \in 0 .. NumImages
    BY <1>1, <1>4 DEF Images
  <2>2. bar' \in [visible : BOOLEAN, rating : 0 .. setup.stars, about : Stimuli \cup {NoStim},
                  taps : 0 .. setup.taps]
    <3>1. bar.taps \in 0 .. setup.taps /\ setup.taps \in Nat
      BY DEF SessionInv, SessionTypes, RecordingTypes
    <3>2. 0 \in 0 .. setup.taps
      BY <3>1
    <3>3. bar \in [visible : BOOLEAN, rating : 0 .. setup.stars, about : Stimuli \cup {NoStim},
                   taps : 0 .. setup.taps]
      BY DEF SessionInv, SessionTypes
    <3>4. QED
      BY <1>1, <3>2, <3>3
  <2>3. QED
    BY <1>1, <1>2, <2>1, <2>2 DEF SessionInv, SessionTypes
<1>6. Done' = 3 * currentInt + 3 /\ currentInt \in Int
  BY <1>2, <1>4 DEF Images
<1>7. CounterInStep'
  BY <1>1, <1>6 DEF CounterInStep
<1>8. ScreenInStep'
  <2>1. shown' = currentInt
    BY <1>1, <1>4 DEF SessionInv, ScreenInStep
  <2>2. \A k \in Images : 3 * currentInt + 3 \in {3 * k + 2, 3 * k + 3} => currentInt = k
    BY <1>6 DEF Images
  <2>3. QED
    BY <1>6, <2>1, <2>2 DEF ScreenInStep
<1>9. Done' = 3 * currentInt' /\ currentInt' > 0
  <2>1. \A c \in Images : 3 * c + 3 = 3 * (c + 1) /\ c + 1 > 0
    BY DEF Images
  <2>2. QED
    BY <1>1, <1>4, <1>6, <2>1
<1>10. QED
  BY <1>1, <1>2, <1>4, <1>5, <1>7, <1>8, <1>9 DEF SessionInv, KeyOfScreen

LEMMA UiHideInv ==
  ASSUME SessionInv, RecordingTypes, UiHide
  PROVE  SessionInv'
<1>1. /\ ui # <<>> /\ Head(ui)[1] = "hide" /\ ui' = Tail(ui) /\ bar' = NoBar
      /\ UNCHANGED <<setup, shown, saving, photo, wpc, image, currentInt, rateChange, ratings,
                     retouched, destroyed>>
  BY DEF UiHide, UiRuns, eegVars, history
<1>2. Done' = Done + 1 /\ Waiting(ui, Posts, photo)' /\ ui' \in Seq(Items) /\ LoopInStep'
  BY <1>1, TakeInv
<1>3. Head(ui)[2] \in Images /\ Done + 1 = 3 * Head(ui)[2] + 4 /\ Done \in Int
  BY <1>1, FirstWaiting DEF Proper, Place
<1>4. PICK k \in Int : Done = 3 * k /\ k \in Nat
  <2>1. \A v \in Images, n \in Int : n + 1 = 3 * v + 4 => n = 3 * (v + 1) /\ v + 1 \in Nat
    BY DEF Images
  <2>2. QED
    BY <1>3, <2>1
<1>5. currentInt = k
  BY <1>1, <1>4, CounterIs
<1>6. CounterInStep' /\ ScreenInStep'
  <2>1. Done' = 3 * currentInt + 1 /\ currentInt \in Int
    BY <1>2, <1>4, <1>5
  <2>2. \A v \in Images : 3 * currentInt + 1 \notin {3 * v + 2, 3 * v + 3}
    BY <2>1 DEF Images
  <2>3. QED
    BY <1>1, <2>1, <2>2 DEF CounterInStep, ScreenInStep
<1>7. SessionTypes'
  BY <1>1, <1>2 DEF SessionInv, SessionTypes, RecordingTypes, NoBar
<1>8. QED
  BY <1>1, <1>2, <1>6, <1>7 DEF SessionInv, KeyOfScreen

(* A new photo begins with the script.                                     *)
LEMMA TimerInv ==
  ASSUME SessionInv, RecordingTypes, NEW n \in 1 .. NumPhotos, TimerFunction(n), ui' = <<>>,
         UNCHANGED <<setup, shown, saving, rateChange, ratings, retouched, destroyed>>
  PROVE  SessionInv'
<1>1. photo' = n /\ wpc' = "black" /\ image' = 0 /\ currentInt' = 0 /\ bar' = NoBar
  BY DEF TimerFunction
<1>2. Posts' = 0 /\ Done' = 0
  <2>1. Len(ui') = 0
    BY EmptySeq
  <2>2. Posts' = 0
    BY <1>1 DEF Posts, PostsOfTurn
  <2>3. Done' = Posts' - Len(ui')
    BY DEF Done
  <2>4. QED
    BY <2>1, <2>2, <2>3
<1>3. SessionTypes'
  BY <1>1 DEF SessionInv, SessionTypes, RecordingTypes, NoBar
<1>4. LoopInStep'
  BY <1>1 DEF LoopInStep
<1>5. CounterInStep' /\ ScreenInStep'
  <2>1. \A k \in Images : 0 \notin {3 * k + 2, 3 * k + 3}
    BY DEF Images
  <2>2. QED
    BY <1>1, <1>2, <2>1 DEF CounterInStep, ScreenInStep
<1>6. QED
  BY <1>3, <1>4, <1>5, NoneWaits DEF SessionInv, KeyOfScreen

LEMMA UiNextInv ==
  ASSUME SessionInv, RecordingTypes, UiNext
  PROVE  SessionInv' /\ (bar' = NoBar \/ (bar' = bar /\ Done = 3 * currentInt + 1))
<1>1. /\ ui # <<>> /\ Head(ui)[1] = "next" /\ ui' = Tail(ui)
      /\ UNCHANGED <<setup, shown, saving, rateChange, ratings, retouched, destroyed>>
  BY DEF UiNext, UiRuns, eegVars, history
<1>2. photo > 0 /\ wpc = "off" /\ ui' = <<>> /\ Head(ui)[2] = photo /\ photo \in 1 .. NumPhotos
  BY <1>1, NextIsLast DEF SessionInv, SessionTypes
<1>3. CASE photo < NumPhotos
  <2>1. TimerFunction(photo + 1) /\ photo + 1 \in 1 .. NumPhotos
    BY <1>2, <1>3 DEF UiNext
  <2>2. QED
    BY <1>1, <1>2, <2>1, TimerInv DEF TimerFunction
<1>4. CASE ~(photo < NumPhotos)
  <2>1. UNCHANGED <<photo, bar, wpc, image, currentInt>>
    BY <1>2, <1>4 DEF UiNext
  <2>2. Done' = Done + 1 /\ Waiting(ui, Posts, photo)' /\ ui' \in Seq(Items) /\ LoopInStep'
    BY <1>1, <2>1, TakeInv
  <2>3. Done = 3 * NumImages + 1
    <3>1. Done + 1 = 3 * NumImages + 2 /\ Done \in Int
      BY <1>1, FirstWaiting DEF Place
    <3>2. QED
      BY <3>1
  <2>4. currentInt = NumImages
    BY <1>1, <2>3, CounterIs
  <2>5. CounterInStep' /\ ScreenInStep'
    <3>1. Done' = 3 * NumImages + 2
      BY <2>2, <2>3
    <3>2. \A k \in Images : 3 * NumImages + 2 \notin {3 * k + 2, 3 * k + 3}
      BY DEF Images
    <3>3. QED
      BY <2>1, <2>4, <3>1, <3>2 DEF CounterInStep, ScreenInStep
  <2>6. SessionTypes'
    BY <1>1, <2>1, <2>2 DEF SessionInv, SessionTypes
  <2>7. QED
    BY <1>1, <2>1, <2>2, <2>3, <2>4, <2>5, <2>6 DEF SessionInv, KeyOfScreen
<1>5. QED
  BY <1>3, <1>4

-----------------------------------------------------------------------------
(* Steps that post and do nothing.                                         *)
LEMMA RestInv ==
  ASSUME SessionInv, SameSave, SessionTypes',
         UNCHANGED <<setup, shown, ui, photo, wpc, image, currentInt>>
  PROVE  SessionInv'
<1>1. Posts' = Posts /\ Done' = Done
  BY DEF Posts, Done
<1>2. QED
  BY <1>1 DEF SessionInv, LoopInStep, CounterInStep, ScreenInStep, KeyOfScreen, SameSave

LEMMA StartInv ==
  ASSUME SessionInv, RecordingTypes, StartSession
  PROVE  SessionInv'
<1>1. ui' = <<>>
  BY DEF StartSession, SessionInv, LoopInStep
<1>2. QED
  BY <1>1, TimerInv DEF StartSession, eegVars, history

LEMMA TapInv ==
  ASSUME SessionInv, RecordingTypes, NEW r \in 0 .. setup.stars, Tap(r)
  PROVE  SessionInv'
<1>1. UNCHANGED <<setup, shown, ui, photo, wpc, image, currentInt, saving, ratings, destroyed>>
  BY DEF Tap, eegVars
<1>2. bar.taps + 1 \in 0 .. setup.taps
  BY DEF Tap, SessionInv, SessionTypes, RecordingTypes
<1>3. SessionTypes'
  BY <1>1, <1>2 DEF Tap, SessionInv, SessionTypes
<1>4. QED
  BY <1>1, <1>3, RestInv DEF SameSave

LEMMA DestroyInv ==
  ASSUME SessionInv, RecordingTypes, OnDestroy
  PROVE  SessionInv'
<1>1. SameSave
  BY EmptyingKeepsSave DEF OnDestroy, EndQueue
<1>2. SessionTypes'
  BY DEF OnDestroy, SessionInv, SessionTypes, history
<1>3. QED
  BY <1>1, <1>2, RestInv DEF OnDestroy

LEMMA ThreadsInv ==
  ASSUME SessionInv, RecordingTypes,
         SaveStep("ui") \/ SaveStep("worker") \/ SerialStep \/ AnalysisStep \/ UNCHANGED vars
  PROVE  SessionInv'
<1>1. UNCHANGED <<setup, shown, trainVars>>
  BY DEF SaveStep, Save, SaveStore, SaveClear, SerialStep, Serial, SerialRead, SerialAdd, SerialLog,
     AnalysisStep, Analysis, AnalysisCopy, AnalysisClear, AnalysisRun, vars, eegVars
<1>2. SessionTypes'
  BY <1>1 DEF SessionInv, SessionTypes, trainVars, history
<1>3. SameSave
  <2>1. ASSUME NEW t \in Savers, Save(t)
        PROVE  SameSave
    BY <2>1, ClearedRecord DEF Save, SaveStore, SaveClear, SameSave, RecordingTypes, Savers,
       NotSaving, ClearedIs, SaveRecords
  <2>2. CASE SerialStep
    BY <2>2 DEF SerialStep, Serial, SerialRead, SerialAdd, SerialLog, SameSave, RecordingTypes,
                Savers, Appended, SaveRecords
  <2>3. CASE AnalysisStep \/ UNCHANGED vars
    BY <2>3 DEF AnalysisStep, Analysis, AnalysisCopy, AnalysisClear, AnalysisRun, SameSave,
       vars, eegVars
  <2>4. QED
    BY <2>1, <2>2, <2>3 DEF SaveStep, Savers
<1>4. QED
  BY <1>1, <1>2, <1>3, RestInv DEF trainVars

-----------------------------------------------------------------------------
(* The ratings, for a UI that keeps up.  While the worker waits for a       *)
(* rating the UI is at most one runnable behind, and the bar is up, or has  *)
(* a rating, only between the runnable that asks and the one that hides.    *)
AtMostOneBehind ==
  setup.uiKeepsUp /\ wpc \in {"poll", "reset", "read"} => Len(ui) <= 1

BarInStep ==
  /\ bar.visible \/ bar.rating > 0 => Done = 3 * currentInt /\ currentInt > 0
  /\ bar.rating > 0 => bar.about = currentInt - 1

BarInv == AtMostOneBehind /\ BarInStep /\ RatingOfItsImage

LEMMA PostsInt == SessionInv => Posts \in Int /\ Len(ui) \in Nat /\ Done = Posts - Len(ui)
BY LenProperties DEF SessionInv, SessionTypes, Posts, PostsOfTurn, Done

(* What the worker posts, the UI has not done.                             *)
LEMMA WorkerKeepsDone ==
  ASSUME SessionInv, Worker
  PROVE  /\ Done' = Done /\ photo > 0
         /\ UNCHANGED <<setup, shown, photo, currentInt, retouched, destroyed>>
<1> USE DEF SessionInv
<1>1. photo > 0 /\ photo \in Nat /\ image \in Nat
  <2>1. photo = 0 => wpc = "off"
    BY DEF LoopInStep
  <2>2. wpc # "off"
    BY DEF Worker, WorkerBlack, WorkerSaveBlack, WorkerShow, WorkerAsk, WorkerPoll, WorkerReset,
       WorkerRead, WorkerEnd
  <2>3. QED
    BY <2>1, <2>2 DEF SessionTypes
<1>2. ASSUME NEW x \in Items, ui' = Append(ui, x), Posts' = Posts + 1
      PROVE  Done' = Done
  <2>1. Len(ui') = Len(ui) + 1
    BY <1>2, AppendProperties DEF SessionTypes
  <2>2. QED
    BY <1>2, <2>1, PostsInt DEF Done
<1>3. CASE WorkerSaveBlack \/ WorkerPoll \/ WorkerReset
  <2>1. Posts' = Posts /\ ui' = ui
    BY <1>3 DEF WorkerSaveBlack, WorkerPoll, WorkerReset, Posts, PostsOfTurn
  <2>2. Done' = Done
    BY <2>1 DEF Done
  <2>3. QED
    BY <1>1, <1>3, <2>2 DEF WorkerSaveBlack, WorkerPoll, WorkerReset, eegVars, history
<1>4. CASE WorkerBlack
  <2>1. Posts' = Posts + 1 /\ <<"black", Black>> \in Items
    BY <1>1, <1>4 DEF WorkerBlack, Posts, PostsOfTurn, LoopInStep, Items, Kinds, Black
  <2>2. QED
    BY <1>1, <1>2, <1>4, <2>1 DEF WorkerBlack, eegVars, history
<1>5. CASE WorkerShow
  <2>1. Posts' = Posts + 1 /\ <<"image", image>> \in Items
    BY <1>1, <1>5 DEF WorkerShow, Posts, PostsOfTurn, LoopInStep, Items, Kinds
  <2>2. QED
    BY <1>1, <1>2, <1>5, <2>1 DEF WorkerShow, eegVars, history
<1>6. CASE WorkerAsk
  <2>1. Posts' = Posts + 1 /\ <<"save", image>> \in Items
    BY <1>1, <1>6 DEF WorkerAsk, Posts, PostsOfTurn, LoopInStep, Items, Kinds
  <2>2. QED
    BY <1>1, <1>2, <1>6, <2>1 DEF WorkerAsk, eegVars, history
<1>7. CASE WorkerRead
  <2>1. Posts' = Posts + 1 /\ <<"hide", image>> \in Items
    BY <1>1, <1>7 DEF WorkerRead, Posts, PostsOfTurn, LoopInStep, Items, Kinds
  <2>2. QED
    BY <1>1, <1>2, <1>7, <2>1 DEF WorkerRead, eegVars, history
<1>8. CASE WorkerEnd
  <2>1. Posts' = Posts + 1 /\ <<"next", photo>> \in Items
    BY <1>1, <1>8 DEF WorkerEnd, Posts, PostsOfTurn, LoopInStep, Items, Kinds
  <2>2. QED
    BY <1>1, <1>2, <1>8, <2>1 DEF WorkerEnd, eegVars, history
<1>9. QED
  BY <1>3, <1>4, <1>5, <1>6, <1>7, <1>8 DEF Worker

(* When the worker reads a rating, it is one for the picture it is at.     *)
LEMMA ReadsItsRating ==
  ASSUME SessionInv, BarInv, setup.uiKeepsUp, photo > 0, wpc \in {"poll", "reset", "read"},
         bar.rating > 0
  PROVE  Done = 3 * image + 3 /\ currentInt = image + 1 /\ bar.about = image
<1>1. image \in Int /\ currentInt \in Int /\ Len(ui) <= 1
  BY DEF SessionInv, SessionTypes, BarInv, AtMostOneBehind
<1>2. Posts = 3 * image + 3
  BY DEF Posts, PostsOfTurn
<1>3. Done = 3 * currentInt /\ bar.about = currentInt - 1
  BY DEF BarInv, BarInStep
<1>4. 3 * currentInt <= 3 * image + 3 /\ 3 * image + 2 <= 3 * currentInt
  BY <1>1, <1>2, <1>3, PostsInt
<1>5. currentInt = image + 1
  BY <1>1, <1>4
<1>6. QED
  BY <1>1, <1>3, <1>5

LEMMA WorkerBar ==
  ASSUME SessionInv, RecordingTypes, BarInv, Worker
  PROVE  BarInv'
<1>1. /\ Done' = Done /\ photo > 0
      /\ UNCHANGED <<setup, shown, photo, currentInt, retouched, destroyed>>
  BY WorkerKeepsDone
<1>2. BarInStep'
  <2>1. /\ bar'.visible => bar.visible
        /\ bar'.rating = bar.rating /\ bar'.about = bar.about
    <3>1. CASE WorkerEnd
      BY <3>1 DEF WorkerEnd, SessionInv, SessionTypes
    <3>2. CASE ~WorkerEnd
      BY <3>2 DEF Worker, WorkerBlack, WorkerSaveBlack, WorkerShow, WorkerAsk, WorkerPoll,
         WorkerReset, WorkerRead
    <3>3. QED
      BY <3>1, <3>2
  <2>2. QED
    BY <1>1, <2>1 DEF BarInv, BarInStep
<1>3. AtMostOneBehind'
  <2>1. CASE WorkerAsk
    <3>1. setup.uiKeepsUp => ui' = <<<<"save", image>>>>
      BY <2>1 DEF WorkerAsk, Awake
    <3>2. Len(<<<<"save", image>>>>) = 1
      OBVIOUS
    <3>3. QED
      BY <1>1, <3>1, <3>2 DEF AtMostOneBehind
  <2>2. CASE WorkerPoll \/ WorkerReset
    BY <1>1, <2>2 DEF WorkerPoll, WorkerReset, BarInv, AtMostOneBehind
  <2>3. CASE WorkerBlack \/ WorkerSaveBlack \/ WorkerShow \/ WorkerRead \/ WorkerEnd
    BY <2>3 DEF WorkerBlack, WorkerSaveBlack, WorkerShow, WorkerRead, WorkerEnd, AtMostOneBehind
  <2>4. QED
    BY <2>1, <2>2, <2>3 DEF Worker
<1>4. RatingOfItsImage'
  <2>1. CASE WorkerRead /\ bar.rating > 0 /\ setup.uiKeepsUp
    <3>1. ratings' = Append(ratings, <<photo, image, bar.about>>) /\ bar.about = image
      BY <1>1, <2>1, ReadsItsRating DEF WorkerRead
    <3>2. /\ ratings \in Seq((1 .. NumPhotos) \X Images \X (Stimuli \cup {NoStim}))
          /\ \A i \in DOMAIN ratings : ratings[i][2] = ratings[i][3]
      BY <2>1 DEF SessionInv, SessionTypes, BarInv, RatingOfItsImage
    <3>3. \A i \in DOMAIN ratings' : ratings'[i][2] = ratings'[i][3]
      BY <3>1, <3>2
    <3>4. QED
      BY <3>3 DEF RatingOfItsImage
  <2>2. CASE ~(WorkerRead /\ bar.rating > 0 /\ setup.uiKeepsUp)
    <3>1. ratings' = ratings \/ ~setup.uiKeepsUp
      BY <2>2 DEF Worker, WorkerBlack, WorkerSaveBlack, WorkerShow, WorkerAsk, WorkerPoll,
         WorkerReset, WorkerRead, WorkerEnd, history
    <3>2. QED
      BY <1>1, <3>1 DEF BarInv, RatingOfItsImage
  <2>3. QED
    BY <2>1, <2>2
<1>5. QED
  BY <1>2, <1>3, <1>4 DEF BarInv

LEMMA IdleBar ==
  ASSUME SessionInv, BarInv, ~(Done = 3 * currentInt /\ currentInt > 0)
  PROVE  ~bar.visible /\ bar.rating = 0
BY DEF SessionInv, SessionTypes, BarInv, BarInStep

LEMMA UiBar ==
  ASSUME SessionInv, RecordingTypes, BarInv, UiThread
  PROVE  BarInv'
<1>1. /\ RatingOfItsImage'
      /\ ui # <<>>
  BY DEF UiThread, UiBegin, UiDisplay, UiSave, UiAsk, UiHide, UiNext, eegVars, history,
     UiRuns, BarInv, RatingOfItsImage
<1>2. AtMostOneBehind'
  <2>1. CASE UiNext
    <3>1. wpc = "off"
      BY <2>1, NextIsLast DEF UiNext, UiRuns
    <3>2. QED
      BY <2>1, <3>1 DEF UiNext, TimerFunction, AtMostOneBehind
  <2>2. CASE ~UiNext
    <3>1. UNCHANGED <<setup, wpc>> /\ Len(ui') <= Len(ui)
      <4>1. Len(Tail(ui)) = Len(ui) - 1 /\ Len(ui) \in Nat /\ Tail(ui) \in Seq(Items)
        BY <1>1, HeadTailProperties DEF SessionInv, SessionTypes
      <4>2. \E x : ui' = <<x>> \o Tail(ui) \/ ui' = Tail(ui)
        BY <2>2 DEF UiThread, UiBegin, UiDisplay, UiSave, UiAsk, UiHide
      <4>3. \A x : Len(<<x>> \o Tail(ui)) = Len(ui)
        BY <4>1
      <4>4. UNCHANGED <<setup, wpc>>
        BY <2>2 DEF UiThread, UiBegin, UiDisplay, UiSave, UiAsk, UiHide, eegVars
      <4>5. QED
        BY <4>1, <4>2, <4>3, <4>4
    <3>2. Len(ui') \in Nat /\ Len(ui) \in Nat
      BY <2>2, UiBeginInv, UiDisplayInv, UiSaveInv, UiAskInv, UiHideInv, LenProperties
         DEF UiThread, SessionInv, SessionTypes
    <3>3. QED
      BY <3>1, <3>2 DEF BarInv, AtMostOneBehind
  <2>3. QED
    BY <2>1, <2>2
<1>3. BarInStep'
  <2>1. CASE UiBegin \/ UiSave
    <3>1. Done' = Done /\ UNCHANGED <<bar, currentInt>>
      BY <2>1, UiBeginInv, UiSaveInv DEF UiBegin, UiSave
    <3>2. QED
      BY <3>1 DEF BarInv, BarInStep
  <2>2. CASE UiDisplay
    <3>1. ~bar.visible /\ bar.rating = 0
      BY <2>2, UiDisplayInv, IdleBar
    <3>2. QED
      BY <2>2, <3>1 DEF UiDisplay, BarInStep
  <2>3. CASE UiAsk
    <3>1. currentInt \in Int /\ bar.rating \in Int
      BY DEF SessionInv, SessionTypes, RecordingTypes
    <3>2. Done = 3 * currentInt + 2 /\ Done' = 3 * currentInt' /\ currentInt' > 0
      BY <2>3, UiAskInv
    <3>3. bar.rating = 0
      BY <3>1, <3>2, IdleBar
    <3>4. bar'.rating = 0
      BY <2>3, <3>3 DEF UiAsk, SessionInv, SessionTypes
    <3>5. QED
      BY <3>2, <3>4 DEF BarInStep
  <2>4. CASE UiHide
    BY <2>4 DEF UiHide, NoBar, BarInStep
  <2>5. CASE UiNext
    <3>1. currentInt \in Int
      BY DEF SessionInv, SessionTypes
    <3>2. CASE bar' = bar /\ Done = 3 * currentInt + 1
      BY <3>1, <3>2, IdleBar DEF BarInStep
    <3>3. CASE bar' = NoBar
      BY <3>3 DEF BarInStep, NoBar
    <3>4. QED
      BY <2>5, <3>2, <3>3, UiNextInv
  <2>6. QED
    BY <2>1, <2>2, <2>3, <2>4, <2>5 DEF UiThread
<1>4. QED
  BY <1>1, <1>2, <1>3 DEF BarInv

(* A touch is about the picture the key is one ahead of.                   *)
LEMMA TapBar ==
  ASSUME SessionInv, RecordingTypes, BarInv, NEW r \in 0 .. setup.stars, Tap(r)
  PROVE  BarInv'
<1>1. /\ UNCHANGED <<setup, shown, ui, photo, wpc, image, currentInt, ratings>>
      /\ bar.visible
      /\ bar' = [bar EXCEPT !.rating = r, !.about = shown, !.taps = @ + 1]
  BY DEF Tap, eegVars
<1>2. Posts' = Posts /\ Done' = Done
  BY <1>1 DEF Posts, Done
<1>3. Done = 3 * currentInt /\ currentInt > 0 /\ currentInt \in Int /\ currentInt <= NumImages
  BY <1>1 DEF BarInv, BarInStep, SessionInv, SessionTypes
<1>4. currentInt - 1 \in Images /\ Done = 3 * (currentInt - 1) + 3
  BY <1>3 DEF Images
<1>5. shown = currentInt - 1
  BY <1>4 DEF SessionInv, ScreenInStep
<1>6. bar'.about = shown
  BY <1>1 DEF SessionInv, SessionTypes
<1>7. QED
  BY <1>1, <1>2, <1>3, <1>5, <1>6 DEF BarInv, BarInStep, AtMostOneBehind, RatingOfItsImage

LEMMA OtherBar ==
  ASSUME BarInv, UNCHANGED <<setup, ui, photo, wpc, image, currentInt, bar, ratings>>
  PROVE  BarInv'
<1>1. Posts' = Posts /\ Done' = Done
  BY DEF Posts, Done
<1>2. QED
  BY <1>1 DEF BarInv, BarInStep, AtMostOneBehind, RatingOfItsImage

LEMMA StartBar ==
  ASSUME BarInv, StartSession
  PROVE  BarInv'
BY DEF StartSession, TimerFunction, NoBar, BarInv, BarInStep, AtMostOneBehind, RatingOfItsImage,
   eegVars, history

-----------------------------------------------------------------------------
(* One rating for each version, for a user who moves each bar once.  While  *)
(* the worker shows a version the UI has at least done the save of the one  *)
(* before, so no bar comes up but the one the worker waits for.            *)
Prompt == setup.uiKeepsUp /\ ~retouched

Entered ==
  IF photo = 0 THEN ratings = <<>>
  ELSE /\ Len(ratings) = (photo - 1) * NumImages + image
       /\ wpc = "show" => image > 0 /\ ratings[Len(ratings)] = <<photo, image - 1, image - 1>>

(* What is set where the worker is.                                        *)
Polled ==
  /\ wpc = "poll" => (rateChange => bar.rating > 0)
  /\ wpc = "reset" => bar.rating > 0
  /\ wpc = "read" => bar.rating > 0 /\ ~rateChange
  /\ wpc \notin {"poll", "reset", "read"} =>
       /\ ~rateChange
       /\ bar.visible => bar.rating > 0
       /\ photo > 0 => 3 * image <= Done

(* A bar that is up has been moved if it has a rating.                     *)
MovedOnce == bar.rating > 0 /\ bar.visible => bar.taps > 0

PromptInv == (Prompt => Entered /\ Polled /\ MovedOnce) /\ OneRatingPerImage

LEMMA PromptIsEnough ==
  ASSUME SessionInv', Prompt' => Entered' /\ Polled' /\ MovedOnce'
  PROVE  PromptInv'
<1>1. SUFFICES ASSUME setup'.uiKeepsUp, wpc' = "show", ~retouched'
               PROVE  /\ Len(ratings') = (photo' - 1) * NumImages + image'
                      /\ image' > 0 => ratings'[Len(ratings')] = <<photo', image' - 1, image' - 1>>
  BY DEF PromptInv, OneRatingPerImage
<1>2. photo' # 0 /\ Entered'
  BY <1>1 DEF Prompt, SessionInv, LoopInStep
<1>3. QED
  BY <1>1, <1>2 DEF Entered

LEMMA WorkerPrompt ==
  ASSUME SessionInv, SessionInv', RecordingTypes, BarInv, PromptInv, Worker
  PROVE  PromptInv'
<1> SUFFICES ASSUME Prompt'
             PROVE  Entered' /\ Polled' /\ MovedOnce'
  BY PromptIsEnough
<1>1. /\ Done' = Done /\ photo > 0 /\ photo \in Nat
      /\ UNCHANGED <<setup, shown, photo, currentInt, retouched, destroyed>>
  BY WorkerKeepsDone DEF SessionInv, SessionTypes
<1>2. Entered /\ Polled /\ MovedOnce /\ setup.uiKeepsUp
  BY <1>1 DEF Prompt, PromptInv
<1>3. CASE WorkerRead
  <2>1. /\ bar.rating > 0 /\ bar.about = image /\ Done = 3 * image + 3 /\ ~rateChange
        /\ image \in Nat
    BY <1>1, <1>2, <1>3, ReadsItsRating DEF WorkerRead, Polled, SessionInv, SessionTypes
  <2>2. /\ ratings' = Append(ratings, <<photo, image, image>>) /\ image' = image + 1
        /\ wpc' = "show" /\ UNCHANGED <<bar, rateChange>>
    BY <1>3, <2>1 DEF WorkerRead
  <2>3. /\ Len(ratings') = Len(ratings) + 1
        /\ ratings'[Len(ratings')] = <<photo, image, image>>
        /\ Len(ratings) \in Nat
    BY <2>2, AppendProperties, LenProperties DEF SessionInv, SessionTypes
  <2>4. Entered'
    <3>1. Len(ratings) = (photo - 1) * NumImages + image
      BY <1>1, <1>2 DEF Entered
    <3>2. (photo - 1) * NumImages \in Int
      BY <1>1
    <3>3. Len(ratings') = (photo - 1) * NumImages + image'
      BY <2>1, <2>2, <2>3, <3>1, <3>2
    <3>4. image' > 0 /\ image' - 1 = image
      BY <2>1, <2>2
    <3>5. QED
      BY <1>1, <2>2, <2>3, <3>3, <3>4 DEF Entered
  <2>5. 3 * image' <= Done'
    BY <1>1, <2>1, <2>2
  <2>6. QED
    BY <1>1, <1>2, <2>1, <2>2, <2>4, <2>5 DEF Polled, MovedOnce
<1>4. CASE WorkerPoll
  BY <1>1, <1>2, <1>4 DEF WorkerPoll, Entered, Polled, MovedOnce, history
<1>5. CASE WorkerReset
  BY <1>1, <1>2, <1>5 DEF WorkerReset, Entered, Polled, MovedOnce, history
<1>6. CASE WorkerAsk
  BY <1>1, <1>2, <1>6 DEF WorkerAsk, Entered, Polled, MovedOnce, history
<1>7. CASE WorkerEnd
  BY <1>1, <1>2, <1>7 DEF WorkerEnd, Entered, Polled, MovedOnce, history, SessionInv, SessionTypes
<1>8. CASE WorkerBlack \/ WorkerSaveBlack \/ WorkerShow
  BY <1>1, <1>2, <1>8 DEF WorkerBlack, WorkerSaveBlack, WorkerShow, Entered, Polled,
                          MovedOnce, history
<1>9. QED
  BY <1>3, <1>4, <1>5, <1>6, <1>7, <1>8 DEF Worker

(* While the worker waits with a runnable still to be done, there is no     *)
(* rating, and only the bar it waits for comes up.                          *)
LEMMA UiWhilePolled ==
  ASSUME SessionInv, BarInv, Prompt, Polled, ui # <<>>, wpc \in {"poll", "reset", "read"}
  PROVE  wpc = "poll" /\ bar.rating = 0 /\ ~rateChange
<1>1. photo > 0 /\ setup.uiKeepsUp /\ Len(ui) > 0 /\ Len(ui) \in Nat /\ photo # 0
  BY FirstWaiting DEF Prompt
<1>2. ~(bar.rating > 0)
  <2>1. SUFFICES ASSUME bar.rating > 0 PROVE FALSE
    OBVIOUS
  <2>2. Done = 3 * image + 3
    BY <1>1, <2>1, ReadsItsRating
  <2>3. Posts = 3 * image + 3 /\ Posts \in Int /\ Done = Posts - Len(ui)
    BY <1>1, PostsInt DEF Posts, PostsOfTurn
  <2>4. QED
    BY <1>1, <2>2, <2>3
<1>3. wpc = "poll" /\ ~rateChange
  BY <1>2 DEF Polled
<1>4. bar.rating = 0
  <2>1. bar.rating \in Int /\ bar.rating >= 0
    BY DEF SessionInv, SessionTypes
  <2>2. QED
    BY <1>2, <2>1
<1>5. QED
  BY <1>3, <1>4

LEMMA AskedWhilePolled ==
  ASSUME SessionInv, RecordingTypes, BarInv, Prompt, Polled, UiAsk
  PROVE  wpc = "poll"
<1>1. ui # <<>> /\ Done = 3 * currentInt + 2
  BY UiAskInv DEF UiAsk, UiRuns
<1>2. /\ photo > 0 /\ photo # 0 /\ currentInt \in Int /\ image \in Int
      /\ Posts \in Int /\ Len(ui) \in Nat /\ Len(ui) > 0 /\ Done = Posts - Len(ui)
  BY <1>1, FirstWaiting, PostsInt DEF SessionInv, SessionTypes
<1>3. SUFFICES ASSUME wpc \notin {"poll", "reset", "read"} PROVE FALSE
  BY <1>1, UiWhilePolled
<1>4. Posts <= 3 * image + 2
  <2>1. PostsOfTurn(wpc) \in {0, 1, 2}
    BY <1>3 DEF PostsOfTurn, SessionInv, SessionTypes
  <2>2. Posts = 3 * image + PostsOfTurn(wpc)
    BY <1>2 DEF Posts
  <2>3. QED
    BY <1>2, <2>1, <2>2
<1>5. 3 * image <= Done
  BY <1>2, <1>3 DEF Polled
<1>6. QED
  BY <1>1, <1>2, <1>4, <1>5

LEMMA UiPrompt ==
  ASSUME SessionInv, SessionInv', RecordingTypes, BarInv, PromptInv, UiThread
  PROVE  PromptInv'
<1> SUFFICES ASSUME Prompt'
             PROVE  Entered' /\ Polled' /\ MovedOnce'
  BY PromptIsEnough
<1>1. UNCHANGED <<setup, retouched, rateChange, ratings>> /\ ui # <<>>
  BY DEF UiThread, UiBegin, UiDisplay, UiSave, UiAsk, UiHide, UiNext, eegVars, history, UiRuns
<1>2. Prompt /\ Entered /\ Polled /\ MovedOnce
  BY <1>1 DEF Prompt, PromptInv
<1>3. Done \in Int /\ photo > 0 /\ image \in Int /\ photo \in Nat
  BY <1>1, FirstWaiting DEF SessionInv, SessionTypes
<1>4. CASE UiBegin \/ UiSave
  <2>1. Done' = Done
    BY <1>4, UiBeginInv, UiSaveInv
  <2>2. QED
    BY <1>1, <1>2, <1>4, <2>1 DEF UiBegin, UiSave, Entered, Polled, MovedOnce
<1>5. CASE UiDisplay
  <2>1. Done' = Done + 1
    BY <1>1, <1>5, TakeInv DEF UiDisplay
  <2>2. photo > 0 /\ wpc \notin {"poll", "reset", "read"} => 3 * image <= Done'
    BY <1>2, <1>3, <2>1 DEF Polled
  <2>3. QED
    BY <1>1, <1>2, <1>5, <2>2 DEF UiDisplay, Entered, Polled, MovedOnce
<1>6. CASE UiAsk
  <2>1. wpc = "poll" /\ bar.rating = 0 /\ ~rateChange
    BY <1>1, <1>2, <1>6, AskedWhilePolled, UiWhilePolled
  <2>2. bar'.rating = 0
    BY <1>6, <2>1 DEF UiAsk, SessionInv, SessionTypes
  <2>3. UNCHANGED <<wpc, image, photo>>
    BY <1>6 DEF UiAsk
  <2>4. QED
    BY <1>1, <1>2, <2>1, <2>2, <2>3 DEF Entered, Polled, MovedOnce
<1>7. CASE UiHide
  <2>1. Done' = Done + 1
    BY <1>1, <1>7, TakeInv DEF UiHide
  <2>2. wpc \notin {"poll", "reset", "read"} => 3 * image <= Done' /\ ~rateChange
    BY <1>2, <1>3, <2>1 DEF Polled
  <2>3. wpc \in {"poll", "reset", "read"} => wpc = "poll" /\ ~rateChange
    BY <1>1, <1>2, UiWhilePolled
  <2>4. QED
    BY <1>1, <1>2, <1>7, <2>2, <2>3 DEF UiHide, Entered, Polled, MovedOnce, NoBar
<1>8. CASE UiNext
  <2>1. photo > 0 /\ wpc = "off" /\ Head(ui)[2] = photo /\ image = NumImages
    BY <1>1, <1>8, NextIsLast DEF UiNext, UiRuns, SessionInv, LoopInStep
  <2>2. ~rateChange /\ Len(ratings) = (photo - 1) * NumImages + NumImages
    BY <1>2, <1>3, <2>1 DEF Polled, Entered
  <2>3. CASE TimerFunction(photo + 1)
    <3>1. photo' = photo + 1 /\ wpc' = "black" /\ image' = 0 /\ bar' = NoBar /\ currentInt' = 0
      BY <2>3 DEF TimerFunction
    <3>2. (photo - 1) * NumImages + NumImages = (photo + 1 - 1) * NumImages + 0
      BY <1>3
    <3>3. Entered'
      BY <1>1, <1>3, <2>2, <3>1, <3>2 DEF Entered
    <3>4. 3 * image' <= Done'
      BY <3>1 DEF SessionInv, CounterInStep
    <3>5. QED
      BY <1>1, <2>2, <3>1, <3>3, <3>4 DEF Polled, MovedOnce, NoBar
  <2>4. CASE UNCHANGED <<photo, bar, wpc, image, currentInt>>
    <3>1. Done' = Done + 1
      BY <1>1, <1>8, <2>4, TakeInv DEF UiNext
    <3>2. 3 * image <= Done'
      BY <1>2, <1>3, <2>1, <3>1 DEF Polled
    <3>3. QED
      BY <1>1, <1>2, <2>1, <2>4, <3>2 DEF Entered, Polled, MovedOnce
  <2>5. QED
    BY <1>8, <2>1, <2>3, <2>4 DEF UiNext
<1>9. QED
  BY <1>4, <1>5, <1>6, <1>7, <1>8 DEF UiThread

LEMMA TapPrompt ==
  ASSUME SessionInv, SessionInv', RecordingTypes, PromptInv, NEW r \in 0 .. setup.stars, Tap(r)
  PROVE  PromptInv'
<1> SUFFICES ASSUME Prompt'
             PROVE  Entered' /\ Polled' /\ MovedOnce'
  BY PromptIsEnough
<1>1. /\ UNCHANGED <<setup, ui, photo, wpc, image, ratings>>
      /\ bar.visible /\ r # bar.rating
      /\ bar' = [bar EXCEPT !.rating = r, !.about = shown, !.taps = @ + 1]
      /\ rateChange' = (rateChange \/ r > 0)
      /\ retouched' = (retouched \/ bar.taps > 0)
  BY DEF Tap, eegVars
<1>2. Prompt /\ ~(bar.taps > 0) /\ Entered /\ Polled /\ MovedOnce
  BY <1>1 DEF Prompt, PromptInv
<1>3. bar.rating = 0 /\ r > 0 /\ setup.stars \in Nat
  BY <1>1, <1>2 DEF MovedOnce, SessionInv, SessionTypes, RecordingTypes
<1>4. wpc = "poll"
  BY <1>1, <1>2, <1>3 DEF Polled
<1>5. bar'.rating = r /\ bar'.taps > 0
  BY <1>1 DEF SessionInv, SessionTypes, RecordingTypes
<1>6. QED
  BY <1>1, <1>2, <1>3, <1>4, <1>5 DEF Entered, Polled, MovedOnce

LEMMA StartPrompt ==
  ASSUME SessionInv, SessionInv', PromptInv, StartSession
  PROVE  PromptInv'
<1> SUFFICES ASSUME Prompt'
             PROVE  Entered' /\ Polled' /\ MovedOnce'
  BY PromptIsEnough
<1>1. /\ photo = 0 /\ photo' = 1 /\ wpc' = "black" /\ image' = 0 /\ bar' = NoBar /\ currentInt' = 0
      /\ UNCHANGED <<setup, retouched, ratings, rateChange>>
  BY DEF StartSession, TimerFunction, eegVars, history
<1>2. wpc = "off" /\ Entered /\ Polled
  BY <1>1 DEF Prompt, PromptInv, SessionInv, LoopInStep
<1>3. ratings' = <<>> /\ ~rateChange'
  BY <1>1, <1>2 DEF Entered, Polled
<1>4. 3 * image' <= Done'
  BY <1>1 DEF SessionInv, CounterInStep
<1>5. (1 - 1) * NumImages + 0 = 0 /\ Len(ratings') = 0
  BY <1>3, EmptySeq
<1>6. QED
  BY <1>1, <1>3, <1>4, <1>5 DEF Entered, Polled, MovedOnce, NoBar

LEMMA OtherPrompt ==
  ASSUME PromptInv,
         UNCHANGED <<setup, ui, photo, wpc, image, bar, rateChange, ratings, retouched>>
  PROVE  PromptInv'
<1>1. Posts' = Posts /\ Done' = Done
  BY DEF Posts, Done
<1>2. QED
  BY <1>1 DEF PromptInv, Prompt, Entered, Polled, MovedOnce, OneRatingPerImage

-----------------------------------------------------------------------------
(* What is filed.  A recording of the version asked about is in the map    *)
(* under its number before the counter goes on; the worker files its       *)
(* baseline before the first of them.                                      *)
Asking == ui # <<>> /\ Head(ui)[1] = "ask"

Filed(k) == k \in DOMAIN storageMap /\ storageMap[k] = <<photo, k>>

UiFiles ==
  /\ saving["ui"].pc # "idle" => /\ Asking
                                 /\ saving["ui"].key = currentInt
                                 /\ saving["ui"].of = <<photo, currentInt>>
  /\ Asking /\ saving["ui"].pc # "copy" => Filed(currentInt)

WorkerFiles == saving["worker"].pc # "idle" => saving["worker"].key = 0 /\ wpc = "blackSave"

FiledInv == SavedUnderItsImage /\ UiFiles /\ WorkerFiles

(* The baseline comes before the first version.                            *)
LEMMA BaselineFirst ==
  ASSUME SessionInv, wpc = "blackSave"
  PROVE  currentInt = 0 /\ ~Asking
<1>1. image = 0 /\ photo > 0 /\ currentInt \in Nat
  BY DEF SessionInv, SessionTypes, LoopInStep
<1>2. Posts = 1
  BY <1>1 DEF Posts, PostsOfTurn
<1>3. Len(ui) \in Nat /\ Done = 1 - Len(ui)
  BY <1>2, LenProperties DEF Done, SessionInv, SessionTypes
<1>4. currentInt = 0
  BY <1>1, <1>3 DEF SessionInv, CounterInStep
<1>5. ASSUME Asking
      PROVE  FALSE
  <2>1. ui # <<>> /\ Head(ui)[1] = "ask"
    BY <1>5 DEF Asking
  <2>2. Place(Head(ui)) = Done + 1 /\ Head(ui)[2] \in Images /\ Len(ui) > 0
    BY <2>1, FirstWaiting DEF Proper
  <2>3. Place(Head(ui)) = 3 * Head(ui)[2] + 3
    BY <2>1 DEF Place
  <2>4. QED
    BY <1>3, <2>2, <2>3 DEF Images
<1>6. QED
  BY <1>4, <1>5

(* Nothing is asked when one runnable is over, or its first half.          *)
LEMMA TakenNotAsking ==
  ASSUME SessionInv, ui # <<>>, ui' = Tail(ui)
  PROVE  ~Asking'
<1>1. ui \in Seq(Items) /\ Posts \in Int /\ Waiting(ui, Posts, photo)
  BY FirstWaiting DEF SessionInv, SessionTypes
<1>2. /\ Tail(ui) \in Seq(Items) /\ Len(Tail(ui)) = Len(ui) - 1 /\ Len(ui) \in Nat
      /\ \A i \in 1 .. Len(Tail(ui)) : Tail(ui)[i] = ui[i + 1]
  BY <1>1, HeadTailProperties
<1>3. ASSUME Tail(ui) # <<>>
      PROVE  Head(Tail(ui))[1] # "ask"
  <2>1. Len(Tail(ui)) > 0 /\ Head(Tail(ui)) = Tail(ui)[1]
    BY <1>2, <1>3, EmptySeq, HeadTailProperties
  <2>2. Head(Tail(ui)) = ui[2] /\ 2 \in 1 .. Len(ui)
    BY <1>2, <2>1
  <2>3. QED
    BY <1>1, <2>2 DEF Waiting
<1>4. QED
  BY <1>3 DEF Asking

(* A post leaves the first one, if there is one.                           *)
LEMMA PostedAsking ==
  ASSUME SessionInv, NEW x \in Items, x[1] # "ask", ui' = Append(ui, x)
  PROVE  Asking' <=> Asking
<1>1. ui \in Seq(Items)
  BY DEF SessionInv, SessionTypes
<1>2. CASE ui = <<>>
  BY <1>2 DEF Asking
<1>3. CASE ui # <<>>
  <2>1. /\ Len(ui) \in Nat /\ Len(ui) > 0 /\ Head(ui) = ui[1]
        /\ ui' \in Seq(Items) /\ Len(ui') = Len(ui) + 1 /\ ui'[1] = ui[1]
    BY <1>1, <1>3, AppendProperties, HeadTailProperties, EmptySeq
  <2>2. ui' # <<>> /\ Head(ui') = Head(ui)
    BY <2>1
  <2>3. QED
    BY <1>3, <2>2 DEF Asking
<1>4. QED
  BY <1>2, <1>3

(* Saves go on where they were.                                            *)
SameSaves ==
  \A t \in Savers : /\ saving'[t].pc = saving[t].pc
                    /\ saving'[t].key = saving[t].key
                    /\ saving'[t].of = saving[t].of

LEMMA EmptyingKeepsSaves ==
  ASSUME RecordingTypes, EmptyQueue
  PROVE  SameSaves
BY ClearedRecord DEF RecordingTypes, EmptyQueue, SameSaves, ClearedIs

LEMMA RestFiled ==
  ASSUME FiledInv, SameSaves, (Asking' <=> Asking), UNCHANGED <<storageMap, currentInt, photo>>,
         wpc = "blackSave" /\ saving["worker"].pc # "idle" => wpc' = wpc
  PROVE  FiledInv'
BY DEF FiledInv, SavedUnderItsImage, UiFiles, WorkerFiles, SameSaves, Filed, Savers

LEMMA WorkerFiled ==
  ASSUME SessionInv, RecordingTypes, FiledInv, Worker
  PROVE  FiledInv'
<1>1. CASE WorkerSaveBlack
  <2>1. /\ UNCHANGED <<storageMap, ui, photo, currentInt>> /\ wpc' = "blackSave"
        /\ saving'["worker"].key = 0 /\ saving'["ui"] = saving["ui"]
    BY <1>1 DEF WorkerSaveBlack, SaveStart, RecordingTypes, Savers
  <2>2. QED
    BY <2>1 DEF FiledInv, SavedUnderItsImage, UiFiles, WorkerFiles, Filed, Asking
<1>2. CASE WorkerPoll \/ WorkerReset
  BY <1>2, RestFiled DEF WorkerPoll, WorkerReset, eegVars, SameSaves, Asking
<1>3. CASE WorkerBlack \/ WorkerShow \/ WorkerAsk \/ WorkerRead \/ WorkerEnd
  <2>1. UNCHANGED <<storageMap, saving, photo, currentInt>>
    BY <1>3 DEF WorkerBlack, WorkerShow, WorkerAsk, WorkerRead, WorkerEnd, eegVars
  <2>2. photo \in Nat /\ image \in Nat /\ Black \in Nat
    BY DEF SessionInv, SessionTypes, Black
  <2>3. PICK x \in Items : x[1] # "ask" /\ ui' = Append(ui, x)
    BY <1>3, <2>2 DEF WorkerBlack, WorkerShow, WorkerAsk, WorkerRead, WorkerEnd, Items, Kinds
  <2>4. Asking' <=> Asking
    BY <2>3, PostedAsking
  <2>5. wpc # "blackSave" \/ saving["worker"].pc = "idle"
    BY <1>3 DEF WorkerBlack, WorkerShow, WorkerAsk, WorkerRead, WorkerEnd
  <2>6. QED
    BY <2>1, <2>4, <2>5, RestFiled DEF SameSaves
<1>4. QED
  BY <1>1, <1>2, <1>3 DEF Worker

LEMMA TimerFiled ==
  ASSUME FiledInv, ~Asking', wpc # "blackSave", saving["ui"].pc = "idle",
         currentInt' = 0, UNCHANGED <<saving, storageMap>>
  PROVE  FiledInv'
<1>1. \A k \in Images : ~(k < 0)
  BY DEF Images
<1>2. QED
  BY <1>1 DEF FiledInv, SavedUnderItsImage, UiFiles, WorkerFiles

LEMMA UiFiled ==
  ASSUME SessionInv, RecordingTypes, FiledInv, UiThread
  PROVE  FiledInv'
<1>0. UiFree /\ saving["ui"].pc = "idle" /\ ui # <<>>
  BY DEF UiThread, UiBegin, UiDisplay, UiSave, UiAsk, UiHide, UiNext, UiRuns, UiFree
<1>1. CASE UiBegin
  <2>1. ~Asking /\ UNCHANGED <<storageMap, currentInt, photo, wpc>> /\ SameSaves
    BY <1>1, EmptyingKeepsSaves DEF UiBegin, UiRuns, Asking, BeginQueue
  <2>2. ~Asking'
    <3> DEFINE x == <<"display", Head(ui)[2]>>
    <3>1. ui' = <<x>> \o Tail(ui) /\ Tail(ui) \in Seq(Items)
      BY <1>0, <1>1, HeadTailProperties DEF UiBegin, SessionInv, SessionTypes
    <3>2. Head(ui') = x
      BY <3>1
    <3>3. QED
      BY <3>2 DEF Asking
  <2>3. QED
    BY <2>1, <2>2, RestFiled
<1>2. CASE UiDisplay \/ UiHide
  <2>1. ~Asking /\ UNCHANGED <<storageMap, saving, currentInt, photo, wpc>> /\ ui' = Tail(ui)
    BY <1>2 DEF UiDisplay, UiHide, UiRuns, Asking, eegVars
  <2>2. ~Asking'
    BY <1>0, <2>1, TakenNotAsking
  <2>3. QED
    BY <2>1, <2>2, RestFiled DEF SameSaves
<1>3. CASE UiSave
  <2>1. /\ UNCHANGED <<storageMap, photo, currentInt, wpc, shown>>
        /\ saving'["ui"] = [pc |-> "copy", key |-> currentInt, of |-> <<photo, shown>>,
                            iter |-> "untouched"]
        /\ saving'["worker"] = saving["worker"]
    BY <1>3 DEF UiSave, SaveStart, RecordingTypes, Savers
  <2>2. shown = currentInt
    <3>1. KeyOfScreen'
      BY <1>3, UiSaveInv DEF SessionInv
    <3>2. QED
      BY <2>1, <3>1 DEF KeyOfScreen
  <2>3. Asking'
    <3> DEFINE x == <<"ask", currentInt>>
    <3>1. ui' = <<x>> \o Tail(ui) /\ Tail(ui) \in Seq(Items)
      BY <1>0, <1>3, HeadTailProperties DEF UiSave, SessionInv, SessionTypes
    <3>2. Head(ui') = x /\ ui' # <<>>
      BY <3>1
    <3>3. QED
      BY <3>2 DEF Asking
  <2>4. QED
    BY <2>1, <2>2, <2>3 DEF FiledInv, SavedUnderItsImage, UiFiles, WorkerFiles
<1>4. CASE UiAsk
  <2>1. Asking /\ UNCHANGED <<storageMap, saving, photo, wpc>> /\ ui' = Tail(ui)
        /\ currentInt' = currentInt + 1 /\ currentInt \in Nat
    BY <1>4 DEF UiAsk, UiRuns, Asking, eegVars, SessionInv, SessionTypes
  <2>2. ~Asking'
    BY <1>0, <2>1, TakenNotAsking
  <2>3. Filed(currentInt)
    BY <1>0, <2>1 DEF FiledInv, UiFiles
  <2>4. \A k \in Images : k < currentInt + 1 => k < currentInt \/ k = currentInt
    BY <2>1 DEF Images
  <2>5. SavedUnderItsImage'
    BY <2>1, <2>3, <2>4 DEF FiledInv, SavedUnderItsImage, Filed
  <2>6. QED
    BY <1>0, <2>1, <2>2, <2>5 DEF FiledInv, UiFiles, WorkerFiles
<1>5. CASE UiNext
  <2>1. /\ ~Asking /\ UNCHANGED <<storageMap, saving>> /\ ui' = Tail(ui) /\ Head(ui)[1] = "next"
        /\ currentInt' = 0 \/ UNCHANGED <<currentInt, photo, wpc>>
    BY <1>5 DEF UiNext, UiRuns, Asking, eegVars, TimerFunction
  <2>2. ~Asking' /\ wpc = "off"
    BY <1>0, <2>1, TakenNotAsking, NextIsLast
  <2>3. QED
    BY <1>0, <2>1, <2>2, TimerFiled, RestFiled DEF SameSaves
<1>6. QED
  BY <1>1, <1>2, <1>3, <1>4, <1>5 DEF UiThread

LEMMA StartFiled ==
  ASSUME SessionInv, FiledInv, StartSession
  PROVE  FiledInv'
<1>1. ui = <<>> /\ wpc = "off" /\ ui' = ui /\ currentInt' = 0 /\ UNCHANGED <<saving, storageMap>>
  BY DEF StartSession, SessionInv, LoopInStep, TimerFunction, eegVars
<1>2. ~Asking /\ ~Asking'
  BY <1>1 DEF Asking
<1>3. saving["ui"].pc = "idle"
  BY <1>2 DEF FiledInv, UiFiles
<1>4. QED
  BY <1>1, <1>2, <1>3, TimerFiled

(* The save of a thread: the store and the clear.                          *)
LEMMA SaveFiled ==
  ASSUME SessionInv, RecordingTypes, FiledInv, NEW t \in Savers, SaveStep(t)
  PROVE  FiledInv'
<1>1. UNCHANGED <<ui, photo, wpc, currentInt>> /\ (Asking' <=> Asking)
  BY DEF SaveStep, trainVars, Asking
<1>2. CASE SaveClear(t)
  <2>1. \A u \in Savers : u # t => /\ saving'[u].pc = saving[u].pc
                                   /\ saving'[u].key = saving[u].key
                                   /\ saving'[u].of = saving[u].of
    BY <1>2, ClearedRecord DEF SaveClear, RecordingTypes, ClearedIs
  <2>2. saving[t].pc = "clear" /\ saving'[t].pc = "idle" /\ storageMap' = storageMap
    BY <1>2 DEF SaveClear, NotSaving
  <2>3. QED
    BY <1>1, <2>1, <2>2 DEF FiledInv, SavedUnderItsImage, UiFiles, WorkerFiles, Filed, Savers
<1>3. CASE SaveStore(t) /\ UNCHANGED <<storageMap, saving>>
  BY <1>1, <1>3, RestFiled DEF SameSaves
<1>4. CASE /\ saving[t].pc = "copy"
           /\ storageMap' = [x \in DOMAIN storageMap \cup {saving[t].key} |->
                               IF x = saving[t].key THEN Recording(t) ELSE storageMap[x]]
           /\ saving' = [saving EXCEPT ![t].pc = "clear"]
  <2>1. /\ saving'["ui"].key = saving["ui"].key /\ saving'["ui"].of = saving["ui"].of
        /\ saving'["worker"].key = saving["worker"].key
        /\ t = "ui" => saving'["ui"].pc = "clear" /\ saving'["worker"].pc = saving["worker"].pc
        /\ t = "worker" => saving'["ui"].pc = saving["ui"].pc
    BY <1>4 DEF RecordingTypes, SaveRecords, Savers
  <2>2. /\ saving[t].key \in DOMAIN storageMap' /\ storageMap'[saving[t].key] = saving[t].of
        /\ \A x \in DOMAIN storageMap :
             x \in DOMAIN storageMap' /\ (x # saving[t].key => storageMap'[x] = storageMap[x])
        /\ \A x \in DOMAIN storageMap' : x \in DOMAIN storageMap \/ x = saving[t].key
    BY <1>4 DEF Recording
  <2>3. CASE t = "ui"
    <3>1. Asking /\ saving[t].key = currentInt /\ saving[t].of = <<photo, currentInt>>
      BY <1>4, <2>3 DEF FiledInv, UiFiles
    <3>2. currentInt \in Int
      BY DEF SessionInv, SessionTypes
    <3>3. SavedUnderItsImage'
      BY <1>1, <2>2, <3>1, <3>2 DEF FiledInv, SavedUnderItsImage, Images
    <3>4. Filed(currentInt)'
      BY <1>1, <2>2, <3>1 DEF Filed
    <3>5. UiFiles'
      BY <1>1, <2>1, <2>3, <3>1, <3>4 DEF UiFiles, Filed
    <3>6. WorkerFiles'
      BY <1>1, <2>1, <2>3 DEF FiledInv, WorkerFiles
    <3>7. QED
      BY <3>3, <3>5, <3>6 DEF FiledInv
  <2>4. CASE t = "worker"
    <3>1. saving[t].key = 0 /\ wpc = "blackSave"
      BY <1>4, <2>4 DEF FiledInv, WorkerFiles
    <3>2. currentInt = 0 /\ ~Asking
      BY <3>1, BaselineFirst
    <3>3. SavedUnderItsImage'
      <4>1. \A k \in Images : ~(k < 0)
        BY DEF Images
      <4>2. QED
        BY <1>1, <2>2, <3>1, <3>2, <4>1 DEF FiledInv, SavedUnderItsImage
    <3>4. UiFiles'
      BY <1>1, <2>1, <2>4, <3>2 DEF FiledInv, UiFiles
    <3>5. WorkerFiles'
      BY <1>1, <2>1, <2>4, <3>1 DEF WorkerFiles
    <3>6. QED
      BY <3>3, <3>4, <3>5 DEF FiledInv
  <2>5. QED
    BY <2>3, <2>4 DEF Savers
<1>5. QED
  BY <1>2, <1>3, <1>4 DEF SaveStep, Save, SaveStore

LEMMA OtherFiled ==
  ASSUME RecordingTypes, FiledInv,
         SerialStep \/ AnalysisStep \/ OnDestroy \/ (\E r \in 0 .. setup.stars : Tap(r))
           \/ UNCHANGED vars
  PROVE  FiledInv'
<1>1. UNCHANGED <<storageMap, ui, photo, wpc, currentInt>>
  BY DEF SerialStep, Serial, SerialRead, SerialAdd, SerialLog, AnalysisStep, Analysis,
     AnalysisCopy, AnalysisClear, AnalysisRun, OnDestroy, Tap, vars, eegVars, trainVars
<1>2. SameSaves
  <2>1. CASE OnDestroy
    BY <2>1, EmptyingKeepsSaves DEF OnDestroy, EndQueue
  <2>2. CASE SerialStep
    BY <2>2 DEF SerialStep, Serial, SerialRead, SerialAdd, SerialLog, SameSaves, RecordingTypes,
       Appended, SaveRecords
  <2>3. CASE AnalysisStep \/ (\E r \in 0 .. setup.stars : Tap(r)) \/ UNCHANGED vars
    BY <2>3 DEF AnalysisStep, Analysis, AnalysisCopy, AnalysisClear, AnalysisRun, Tap, SameSaves,
       vars, eegVars
  <2>4. QED
    BY <2>1, <2>2, <2>3
<1>3. QED
  BY <1>1, <1>2, RestFiled DEF Asking

-----------------------------------------------------------------------------
(* All of it together.                                                     *)
IInv == RecordingInv /\ SessionInv /\ BarInv /\ PromptInv /\ FiledInv

LEMMA TrainInit == Init => IInv
<1> SUFFICES ASSUME Init
             PROVE  IInv
  OBVIOUS
<1> USE DEF Init, EegInit
<1>1. RecordingInv
  <2>1. 0 \in Images
    BY DEF Images
  <2>2. DOMAIN storageMap = {} /\ DOMAIN playQueue = {}
    OBVIOUS
  <2>3. RecordingTypes
    BY <2>1, EmptySeq DEF RecordingTypes, NotSaving, NothingRead, Made, SaveRecords, Savers
  <2>4. KeysPresent
    BY <2>2, EmptySeq DEF KeysPresent, NotSaving
  <2>5. QED
    BY <2>2, <2>3, <2>4 DEF RecordingInv, StaleAlone, NoHeadset, NotSaving, DiesOnlyOfSharedQueue
<1>2. Posts = 0 /\ Len(ui) = 0 /\ Done = 0
  <2>1. Posts = 0 /\ Len(ui) = 0
    BY EmptySeq DEF Posts
  <2>2. Done = Posts - Len(ui)
    BY DEF Done
  <2>3. QED
    BY <2>1, <2>2
<1>3. SessionInv
  <2>1. SessionTypes
    <3>1. NoBar \in [visible : BOOLEAN, rating : 0 .. setup.stars, about : Stimuli \cup {NoStim},
                     taps : 0 .. setup.taps]
      <4>1. 0 \in 0 .. setup.stars /\ 0 \in 0 .. setup.taps
        BY <1>1 DEF RecordingInv, RecordingTypes
      <4>2. QED
        BY <4>1 DEF NoBar
    <3>2. /\ <<>> \in Seq(Items)
          /\ <<>> \in Seq((1 .. NumPhotos) \X Images \X (Stimuli \cup {NoStim}))
      BY EmptySeq
    <3>3. /\ ui \in Seq(Items)
          /\ ratings \in Seq((1 .. NumPhotos) \X Images \X (Stimuli \cup {NoStim}))
      BY <3>2
    <3>4. /\ shown \in Stimuli \cup {NoStim} /\ photo \in 0 .. NumPhotos /\ image \in 0 .. NumImages
          /\ currentInt \in 0 .. NumImages
      OBVIOUS
    <3>5. /\ wpc \in {"off", "black", "blackSleep", "blackSave", "show", "showSleep", "poll",
                     "reset", "read"}
          /\ rateChange \in BOOLEAN /\ retouched \in BOOLEAN /\ destroyed \in BOOLEAN
      OBVIOUS
    <3>6. QED
      BY <3>1, <3>3, <3>4, <3>5, Zenon DEF SessionTypes
  <2>2. CounterInStep /\ ScreenInStep
    <3>1. \A k \in Images : 0 \notin {3 * k + 2, 3 * k + 3}
      BY DEF Images
    <3>2. QED
      BY <1>2, <3>1 DEF CounterInStep, ScreenInStep
  <2>3. KeyOfScreen
    BY DEF KeyOfScreen, NotSaving, Savers
  <2>4. QED
    BY <2>1, <2>2, <2>3, NoneWaits DEF SessionInv, LoopInStep
<1>4. BarInv
  BY DEF BarInv, BarInStep, AtMostOneBehind, RatingOfItsImage, NoBar
<1>5. PromptInv
  BY DEF PromptInv, Entered, Polled, MovedOnce, OneRatingPerImage, NoBar
<1>6. FiledInv
  <2>1. DOMAIN storageMap = {} /\ \A k \in Images : ~(k < 0)
    BY DEF Images
  <2>2. QED
    BY <2>1 DEF FiledInv, SavedUnderItsImage, UiFiles, WorkerFiles, Asking, NotSaving, Savers
<1>7. QED
  BY <1>1, <1>3, <1>4, <1>5, <1>6 DEF IInv

(* What the session does to the recording, it does with keys of pictures.  *)
LEMMA SessionTouches ==
  ASSUME IInv, StartSession \/ Worker \/ UiThread \/ OnDestroy
               \/ \E r \in 0 .. setup.stars : Tap(r)
  PROVE  TouchRecording
<1> USE DEF TouchRecording
<1>1. CASE StartSession \/ \E r \in 0 .. setup.stars : Tap(r)
  BY <1>1 DEF StartSession, Tap, eegVars
<1>2. CASE Worker
  <2>1. CASE WorkerSaveBlack
    <3>1. 0 \in Images
      BY DEF Images
    <3>2. <<photo, shown>> \in Made
      BY DEF IInv, SessionInv, SessionTypes, Made
    <3>3. QED
      BY <2>1, <3>1, <3>2 DEF WorkerSaveBlack, Savers
  <2>2. CASE ~WorkerSaveBlack
    BY <1>2, <2>2 DEF Worker, WorkerBlack, WorkerShow, WorkerAsk, WorkerPoll, WorkerReset,
       WorkerRead, WorkerEnd, eegVars
  <2>3. QED
    BY <2>1, <2>2
<1>3. CASE UiThread
  <2>1. CASE UiSave
    <3>1. currentInt \in Images
      BY <2>1, UiSaveInv DEF IInv, RecordingInv
    <3>2. <<photo, shown>> \in Made
      BY DEF IInv, SessionInv, SessionTypes, Made
    <3>3. QED
      BY <2>1, <3>1, <3>2 DEF UiSave, Savers
  <2>2. CASE UiBegin
    BY <2>2 DEF UiBegin
  <2>3. CASE UiDisplay \/ UiAsk \/ UiHide \/ UiNext
    BY <2>3 DEF UiDisplay, UiAsk, UiHide, UiNext, eegVars
  <2>4. QED
    BY <1>3, <2>1, <2>2, <2>3 DEF UiThread
<1>4. CASE OnDestroy
  BY <1>4 DEF OnDestroy
<1>5. QED
  BY <1>1, <1>2, <1>3, <1>4

LEMMA TrainStep == IInv /\ [Next]_vars => IInv'
<1> SUFFICES ASSUME IInv, [Next]_vars
             PROVE  IInv'
  OBVIOUS
<1> USE DEF IInv
<1>1. RecordingTypes
  BY DEF RecordingInv
<1>2. CASE UNCHANGED vars
  <2>1. RecordingInv'
    BY <1>2 DEF vars, eegVars, RecordingInv, RecordingTypes, KeysPresent, StaleAlone, NoHeadset,
       DiesOnlyOfSharedQueue
  <2>2. SessionInv'
    BY <1>1, <1>2, ThreadsInv
  <2>3. BarInv' /\ PromptInv'
    BY <1>2, OtherBar, OtherPrompt DEF vars, eegVars, trainVars, history
  <2>4. FiledInv'
    BY <1>1, <1>2, OtherFiled
  <2>5. QED
    BY <2>1, <2>2, <2>3, <2>4
<1>3. CASE ~crashed /\ (StartSession \/ Worker \/ UiThread \/ OnDestroy
                        \/ \E r \in 0 .. setup.stars : Tap(r))
  <2>1. RecordingInv'
    BY <1>3, SessionTouches, TouchInv
  <2>2. SessionInv'
    BY <1>1, <1>3, StartInv, WorkerInv, TapInv, DestroyInv, UiBeginInv, UiDisplayInv, UiSaveInv,
       UiAskInv, UiHideInv, UiNextInv DEF UiThread
  <2>f. FiledInv'
    BY <1>1, <1>3, StartFiled, WorkerFiled, UiFiled, OtherFiled
  <2>3. CASE StartSession
    BY <2>1, <2>2, <2>f, <2>3, StartBar, StartPrompt
  <2>4. CASE Worker
    BY <1>1, <2>1, <2>2, <2>f, <2>4, WorkerBar, WorkerPrompt
  <2>5. CASE UiThread
    BY <1>1, <2>1, <2>2, <2>f, <2>5, UiBar, UiPrompt
  <2>6. CASE OnDestroy
    BY <2>1, <2>2, <2>f, <2>6, OtherBar, OtherPrompt DEF OnDestroy, history
  <2>7. CASE \E r \in 0 .. setup.stars : Tap(r)
    BY <1>1, <2>1, <2>2, <2>f, <2>7, TapBar, TapPrompt
  <2>8. QED
    BY <1>3, <2>f, <2>3, <2>4, <2>5, <2>6, <2>7
<1>4. CASE ~crashed /\ (SaveStep("worker") \/ SaveStep("ui") \/ SerialStep \/ AnalysisStep)
  <2>1. UNCHANGED trainVars /\ setup' = setup
    BY <1>4 DEF SaveStep, Save, SaveStore, SaveClear, SerialStep, Serial, SerialRead, SerialAdd,
       SerialLog, AnalysisStep, Analysis, AnalysisCopy, AnalysisClear, AnalysisRun
  <2>2. RecordingInv'
    BY <1>4, SaveStoreInv, SaveClearInv, SerialInv, AnalysisInv
       DEF SaveStep, Save, SerialStep, AnalysisStep, Savers
  <2>3. SessionInv'
    BY <1>1, <1>4, ThreadsInv
  <2>4. BarInv' /\ PromptInv'
    BY <2>1, OtherBar, OtherPrompt DEF trainVars, history
  <2>5. FiledInv'
    BY <1>1, <1>4, SaveFiled, OtherFiled DEF Savers
  <2>6. QED
    BY <2>2, <2>3, <2>4, <2>5
<1>5. QED
  BY <1>2, <1>3, <1>4 DEF Next

THEOREM Invariance == Spec => []IInv
BY TrainInit, TrainStep, PTL DEF Spec

(* Type correctness of a session.                                          *)
THEOREM Typing == Spec => []TypeOK
<1>1. IInv => TypeOK
  <2> SUFFICES ASSUME IInv PROVE TypeOK
    OBVIOUS
  <2>1. /\ RecordingTypes /\ KeysPresent /\ SessionTypes
    BY DEF IInv, RecordingInv, SessionInv
  <2>2. needToAnalyze \in Seq(Images) /\ analyses \in Seq(Threads(Images))
    BY <2>1, SeqGrows, ThreadsGrow DEF KeysPresent
  <2>3. EegTypeOK
    BY <2>1, <2>2 DEF EegTypeOK, RecordingTypes, KeysPresent, SessionTypes, Threads, SaveRecords
  <2>4. QED
    BY <2>1, <2>3 DEF TypeOK, SessionTypes, Items, Kinds
<1>2. QED
  BY <1>1, Invariance, PTL

(* The process dies of nothing but an iteration over playQueue under which  *)
(* another thread changed it, in a save or in the log (Train.kt:160-162,    *)
(* 140); the analysis threads do not kill it (163-187).                     *)
THEOREM OnlySharedQueueKills == Spec => []DiesOnlyOfSharedQueue
<1>1. IInv => DiesOnlyOfSharedQueue
  BY DEF IInv, RecordingInv
<1>2. QED
  BY <1>1, Invariance, PTL

(* A recording holds at most one batch that was read before its beginQueue: *)
(* the one the serial thread had in hand then (Train.kt:143-148).           *)
THEOREM OneStaleBatch == Spec => []AtMostOneStaleBatch
<1>1. IInv => AtMostOneStaleBatch
  <2> SUFFICES ASSUME IInv PROVE AtMostOneStaleBatch
    OBVIOUS
  <2> DEFINE S == {i \in DOMAIN playQueue : playQueue[i] = "stale"}
  <2>1. \A i, j \in S : i = j
    BY DEF IInv, RecordingInv, StaleAlone
  <2>2. S = {} \/ \E i : S = {i}
    BY <2>1
  <2>3. Cardinality(S) <= 1
    BY <2>2, FS_EmptySet, FS_Singleton
  <2>4. QED
    BY <2>3 DEF AtMostOneStaleBatch
<1>2. QED
  BY <1>1, Invariance, PTL

(* The map holds under each key a recording of the version of that number, *)
(* of this photo once it has been asked about, and never the baseline in its *)
(* stead (Train.kt:391, 423-424).                                           *)
THEOREM FiledUnderItsImage == Spec => []SavedUnderItsImage
<1>1. IInv => SavedUnderItsImage
  BY DEF IInv, FiledInv
<1>2. QED
  BY <1>1, Invariance, PTL

(* A rating is entered for the version it was given for, if the UI keeps up *)
(* (Train.kt:436-443).                                                     *)
THEOREM RatedAsItsImage == Spec => []RatingOfItsImage
<1>1. IInv => RatingOfItsImage
  BY DEF IInv, BarInv
<1>2. QED
  BY <1>1, Invariance, PTL

(* As long as each bar is moved once, every version gets one rating, if the *)
(* UI keeps up (Train.kt:430-443).                                         *)
THEOREM OneRatingEach == Spec => []OneRatingPerImage
<1>1. IInv => OneRatingPerImage
  BY DEF IInv, PromptInv
<1>2. QED
  BY <1>1, Invariance, PTL
=============================================================================
