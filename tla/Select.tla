------------------------------- MODULE Select -------------------------------
(***************************************************************************)
(* The filter fan-out of the Select activity (Select.kt).                  *)
(*                                                                         *)
(* Each picked photo starts selectProcess(): a coordinator thread starts   *)
(* one worker per filter, 200 ms apart, and then polls a shared counter.   *)
(* A worker takes its FILE NAME from the counter (listName[count]), writes *)
(* its filtered bitmap to that file, and increments the counter.  The      *)
(* counter is a captured Kotlin `var`: neither volatile nor locked, so     *)
(* count++ is a read and a write.  When the counter reaches the number of  *)
(* filters the coordinator makes the "next" button visible.  The files are *)
(* shared by all selections; the counter and the workers are not.          *)
(*                                                                         *)
(* What a filter does to the pixels is left out: a file's content is the   *)
(* pair <<selection, filter>> that wrote it.                               *)
(***************************************************************************)
EXTENDS Naturals, FiniteSets

CONSTANTS
  NumFilters,     \* list.size, 6 in the code
  NumSelections,  \* bound on the photos picked in one visit of the activity
  LateSelections  \* the same if workers may be late

ASSUME SelectAssumption ==
  /\ NumFilters \in Nat \ {0}
  /\ NumSelections \in Nat \ {0}
  /\ LateSelections \in Nat

Filters    == 0 .. NumFilters - 1
Selections == 1 .. NumSelections

Absent == <<0, "absent">>   \* the file does not exist
Torn   == <<0, "torn">>     \* being written, or written by two threads at once
Saved  == Selections \X Filters

VARIABLES
  prompt,   \* a worker always ends within the 200 ms between two starts; of an
            \* execution, hence constant
  coord,    \* coordinator of a selection: "idle", "loop", "wait", "post", "end"
  spawned,  \* number of workers the coordinator has started
  count,    \* the shared counter of a selection
  wpc,      \* where each worker is
  wname,    \* the index a worker read out of count for its file name
  wtmp,     \* the value a worker read for its count++
  files,    \* content of each of the files cont.png, fil1.png ..
  nextBut,  \* is the "next" button visible?
  alone     \* history: the latest selection, if it began after all others ended

vars == <<prompt, coord, spawned, count, wpc, wname, wtmp, files, nextBut, alone>>

Workers == Selections \X Filters

Init ==
  /\ prompt \in BOOLEAN
  /\ coord   = [s \in Selections |-> "idle"]
  /\ spawned = [s \in Selections |-> 0]
  /\ count   = [s \in Selections |-> 0]
  /\ wpc     = [w \in Workers |-> "new"]
  /\ wname   = [w \in Workers |-> 0]
  /\ wtmp    = [w \in Workers |-> 0]
  /\ files   = [f \in Filters |-> Absent]
  /\ nextBut = FALSE
  /\ alone   = {}

Ended(s) == {f \in Filters : wpc[<<s, f>>] = "end"}

-----------------------------------------------------------------------------
(* onActivityResult with a photo: selectProcess starts the coordinator.    *)
SelectProcess(s) ==
  /\ coord[s] = "idle"
  /\ prompt \/ s <= LateSelections
  /\ \A r \in 1 .. s - 1 : coord[r] # "idle"
  /\ coord' = [coord EXCEPT ![s] = "loop"]
  /\ alone' = IF \A r \in 1 .. s - 1 : coord[r] = "end" THEN {s} ELSE {}
  /\ UNCHANGED <<spawned, count, wpc, wname, wtmp, files, nextBut, prompt>>

(* Fault: the pause is too short, the latest worker may still run.         *)
PauseTooShort(s) == prompt => Cardinality(Ended(s)) + 1 >= spawned[s]

(* sleep(200) after each start: enough for the worker, when prompt.        *)
Slept(s) == prompt => Cardinality(Ended(s)) = spawned[s]

(* One turn of the for loop: start the next worker.                        *)
Spawn(s) ==
  /\ coord[s] = "loop"
  /\ spawned[s] < NumFilters
  /\ Slept(s)
  /\ wpc' = [wpc EXCEPT ![<<s, spawned[s]>>] = "name"]
  /\ spawned' = [spawned EXCEPT ![s] = @ + 1]
  /\ UNCHANGED <<coord, count, wname, wtmp, files, nextBut, alone, prompt>>

(* The for loop is over; the coordinator enters while (count < list.size). *)
LoopDone(s) ==
  /\ coord[s] = "loop"
  /\ spawned[s] = NumFilters
  /\ coord' = [coord EXCEPT ![s] = "wait"]
  /\ UNCHANGED <<spawned, count, wpc, wname, wtmp, files, nextBut, alone, prompt>>

(* Fault: the button is posted as soon as the last worker is started.      *)
WaitNot(s) ==
  /\ coord[s] = "wait"
  /\ coord' = [coord EXCEPT ![s] = "post"]
  /\ UNCHANGED <<spawned, count, wpc, wname, wtmp, files, nextBut, alone, prompt>>

(* Fault: the poll waits for one count too many.                           *)
WaitTooLong(s) ==
  /\ coord[s] = "wait"
  /\ count[s] > NumFilters
  /\ coord' = [coord EXCEPT ![s] = "post"]
  /\ UNCHANGED <<spawned, count, wpc, wname, wtmp, files, nextBut, alone, prompt>>

(* The counter has reached list.size: the coordinator posts to the UI.     *)
WaitDone(s) ==
  /\ coord[s] = "wait"
  /\ count[s] >= NumFilters
  /\ coord' = [coord EXCEPT ![s] = "post"]
  /\ UNCHANGED <<spawned, count, wpc, wname, wtmp, files, nextBut, alone, prompt>>

(* The posted runnable shows the button.                                   *)
ShowNext(s) ==
  /\ coord[s] = "post"
  /\ coord' = [coord EXCEPT ![s] = "end"]
  /\ nextBut' = TRUE
  /\ UNCHANGED <<spawned, count, wpc, wname, wtmp, files, alone, prompt>>

-----------------------------------------------------------------------------
Writing(f) == {w \in Workers : wpc[w] \in {"save", "spoil"} /\ wname[w] = f}

(* val name = listName[count]: an index beyond the list would throw.       *)
TakeName(w) ==
  /\ wpc[w] = "name"
  /\ wname' = [wname EXCEPT ![w] = count[w[1]]]
  /\ wpc' = [wpc EXCEPT ![w] = IF count[w[1]] < NumFilters THEN "open" ELSE "throw"]
  /\ UNCHANGED <<coord, spawned, count, wtmp, files, nextBut, alone, prompt>>

(* File.outputStream() truncates the file.  If another thread has the same *)
(* file open, the bytes of both are interleaved and neither write counts.  *)
OpenFile(w) ==
  LET others == Writing(wname[w])
  IN  /\ wpc[w] = "open"
      /\ files' = [files EXCEPT ![wname[w]] = Torn]
      /\ wpc' = [v \in Workers |-> IF v \in others THEN "spoil"
                                   ELSE IF v # w THEN wpc[v]
                                   ELSE IF others = {} THEN "save" ELSE "spoil"]
      /\ UNCHANGED <<coord, spawned, count, wname, wtmp, nextBut, alone, prompt>>

(* bitmap.compress, flush and close.                                       *)
CloseFile(w) ==
  /\ wpc[w] \in {"save", "spoil"}
  /\ files' = [files EXCEPT ![wname[w]] = IF wpc[w] = "save" THEN w ELSE @]
  /\ wpc' = [wpc EXCEPT ![w] = "bump"]
  /\ UNCHANGED <<coord, spawned, count, wname, wtmp, nextBut, alone, prompt>>

(* count++, first half: the read.                                          *)
ReadCount(w) ==
  /\ wpc[w] = "bump"
  /\ wtmp' = [wtmp EXCEPT ![w] = count[w[1]]]
  /\ wpc' = [wpc EXCEPT ![w] = "add"]
  /\ UNCHANGED <<coord, spawned, count, wname, files, nextBut, alone, prompt>>

(* Fault: the worker counts itself twice.                                  *)
CountTwice(w) ==
  /\ wpc[w] = "add"
  /\ count' = [count EXCEPT ![w[1]] = wtmp[w] + 2]
  /\ wpc' = [wpc EXCEPT ![w] = "end"]
  /\ UNCHANGED <<coord, spawned, wname, wtmp, files, nextBut, alone, prompt>>

(* count++, second half: the write, and the end of the thread.             *)
WriteCount(w) ==
  /\ wpc[w] = "add"
  /\ count' = [count EXCEPT ![w[1]] = wtmp[w] + 1]
  /\ wpc' = [wpc EXCEPT ![w] = "end"]
  /\ wname' = [wname EXCEPT ![w] = 0]   \* the thread's locals die with it
  /\ wtmp' = [wtmp EXCEPT ![w] = 0]
  /\ UNCHANGED <<coord, spawned, files, nextBut, alone, prompt>>

Coordinator(s) == Spawn(s) \/ LoopDone(s) \/ WaitDone(s) \/ ShowNext(s)

Worker(w) ==
  TakeName(w) \/ OpenFile(w) \/ CloseFile(w) \/ ReadCount(w) \/ WriteCount(w)

Next ==
  \/ \E s \in Selections : SelectProcess(s) \/ Coordinator(s)
  \/ \E w \in Workers : Worker(w)

Spec == Init /\ [][Next]_vars

-----------------------------------------------------------------------------
TypeOK ==
  /\ prompt \in BOOLEAN
  /\ coord \in [Selections -> {"idle", "loop", "wait", "post", "end"}]
  /\ spawned \in [Selections -> 0 .. NumFilters]
  /\ count \in [Selections -> Nat]
  /\ wpc \in [Workers -> {"new", "name", "open", "save", "spoil", "bump", "add",
                          "end", "throw"}]
  /\ wname \in [Workers -> Nat]
  /\ wtmp \in [Workers -> Nat]
  /\ files \in [Filters -> Saved \cup {Absent, Torn}]
  /\ nextBut \in BOOLEAN
  /\ alone \in SUBSET Selections

(* listName[count] never throws: however the unlocked increments of the    *)
(* other workers interleave (Select.kt:142, 151), a worker that takes its  *)
(* name sees a counter that is still a valid index.                        *)
NameInRange == \A w \in Workers : wpc[w] # "throw"

(* The coordinator posts the "next" button (Select.kt:162-167) only when   *)
(* every worker of its selection has closed its file: lost increments can  *)
(* hold the counter back, never push it ahead of the work.                 *)
NextMeansAllEnded ==
  \A s \in Selections : coord[s] \in {"post", "end"} => Ended(s) = Filters

(* When the button comes up after a selection that ran with no other one   *)
(* beside it, each file holds the output of its own filter (Select.kt:131, *)
(* 142-144).  Only the pause of 200 ms makes it so: without it a late      *)
(* worker takes the name of another filter.                                *)
EachFilterInItsFile ==
  prompt => \A s \in alone : coord[s] = "end" => \A f \in Filters : files[f] = <<s, f>>
=============================================================================
