---------------------------- MODULE GgufDownload ----------------------------
(***************************************************************************)
(* The download of the on-device model: GgufDownloader streams the GGUF    *)
(* into <name>.part, resumes what an earlier attempt left there, verifies  *)
(* it and renames it into place; RagViewModel starts and cancels the       *)
(* download and restarts the engine on the new file.  The view model may   *)
(* be cleared while its download runs on beside that of the next one, and  *)
(* the app may be killed between any two steps; the files survive both.    *)
(*                                                                         *)
(* A file is the sequence of its blocks, each named by the version of the  *)
(* model it comes from, or a hole where nothing was written.               *)
(***************************************************************************)
EXTENDS Naturals, Sequences

CONSTANTS
    Versions,   \* what the server may serve under the URL
    Gguf,       \* those that are models; the others lack the magic header
    Hole,       \* the zeros of a block that was skipped
    Size,       \* blocks of a complete model
    MaxVms,     \* view models created, over all lives of the app
    MaxFaults   \* failed requests, lost connections, failed renames, cancels

ASSUME VersionsAssumption == Gguf \subseteq Versions /\ Hole \notin Versions
ASSUME SizeAssumption == Size \in Nat \ {0}
ASSUME MaxVmsAssumption == MaxVms \in Nat \ {0}
ASSUME FaultsAssumption == MaxFaults \in Nat

VARIABLES
    exists,         \* the files there are
    part, target,   \* what is in them
    served,         \* the version on the server
    vm,             \* the view model on the screen; earlier ones are cleared
    pc,             \* where each view model's download is
    ui,             \* each downloader's state
    cancelRequested,
    pos,            \* the offset asked for, then the one written next
    response,       \* the version that is being received
    open,           \* the name that the file opened as .part has now
    neuralActive,
    engine,         \* what EngineHost.BuildRagModel resolved to
    faults,
    replaced,       \* the server has changed its file (history)
    overlapped      \* a download began while another one ran (history)

fileVars == <<exists, part, target>>
taskVars == <<pc, ui, cancelRequested, pos, response, open>>
appVars == <<vm, neuralActive, engine>>
vars == <<fileVars, served, taskVars, appVars, faults, replaced, overlapped>>

Vms == 1..MaxVms
File == Seq(Versions \cup {Hole})
Whole(v) == [i \in 1..Size |-> v]
IsWhole(file) == \E v \in Gguf : file = Whole(v)

TypeOK ==
    /\ exists \subseteq {"part", "target"}
    /\ part \in File /\ target \in File
    /\ served \in Versions
    /\ vm \in Vms
    /\ pc \in [Vms -> {"idle", "requesting", "reading", "verifying", "replacing", "renaming", "renamed"}]
    /\ ui \in [Vms -> {"NotStarted", "Downloading", "Verifying", "Completed", "Cancelled", "Failed"}]
    /\ cancelRequested \in [Vms -> BOOLEAN]
    /\ pos \in [Vms -> Nat]
    /\ response \in [Vms -> Versions]
    /\ open \in [Vms -> {"part", "target", "deleted"}]
    /\ neuralActive \in [Vms -> BOOLEAN]
    /\ engine \in {"extractive", "llama"}
    /\ faults \in 0..MaxFaults
    /\ replaced \in BOOLEAN /\ overlapped \in BOOLEAN

\* BuildRagModel: llama.cpp when the file is there and loads.
Resolved == IF IsWhole(target) THEN "llama" ELSE "extractive"

Init ==
    /\ exists = {} /\ part = <<>> /\ target = <<>>
    /\ served \in Versions
    /\ vm = 1
    /\ pc = [d \in Vms |-> "idle"]
    /\ ui = [d \in Vms |-> "NotStarted"]
    /\ cancelRequested = [d \in Vms |-> FALSE]
    /\ pos = [d \in Vms |-> 0]
    /\ response = [d \in Vms |-> served]
    /\ open = [d \in Vms |-> "deleted"]
    /\ neuralActive = [d \in Vms |-> FALSE]
    /\ engine = "extractive"
    /\ faults = 0
    /\ replaced = FALSE /\ overlapped = FALSE

Fault == faults < MaxFaults /\ faults' = faults + 1

----------------------------------------------------------------------------
\* GgufDownloader

Goes(d, where) == pc' = [pc EXCEPT ![d] = where]

\* How download() ends, with the state it leaves behind.
Ends(d, state) ==
    /\ Goes(d, "idle")
    /\ ui' = [ui EXCEPT ![d] = state]
    /\ pos' = [pos EXCEPT ![d] = 0]
    /\ UNCHANGED <<cancelRequested, response>>

\* An IOException of the transfer: cancelled, when it was asked for, else failed.
TransferFails(d) == Ends(d, IF cancelRequested[d] THEN "Cancelled" ELSE "Failed")

\* The screen offers the button in these states only, and hides the card once
\* the neural model is active.
Offered(d) ==
    /\ d = vm
    /\ ~neuralActive[d]
    /\ pc[d] = "idle"
    /\ ui[d] \in {"NotStarted", "Failed", "Cancelled"}

Others(d) == {e \in Vms \ {d} : pc[e] # "idle"}

\* Mutant: an earlier cancel is not cleared.
KeepsCancel(d) ==
    /\ Offered(d)
    /\ Goes(d, "requesting")
    /\ ui' = [ui EXCEPT ![d] = "Downloading"]
    /\ pos' = [pos EXCEPT ![d] = Len(part)]
    /\ overlapped' = (overlapped \/ Others(d) # {})
    /\ UNCHANGED <<fileVars, served, cancelRequested, response, open, appVars, faults, replaced>>

\* download() up to the call: forget an earlier cancel, ask for what is missing.
Download(d) ==
    /\ Offered(d)
    /\ Goes(d, "requesting")
    /\ ui' = [ui EXCEPT ![d] = "Downloading"]
    /\ cancelRequested' = [cancelRequested EXCEPT ![d] = FALSE]
    /\ pos' = [pos EXCEPT ![d] = Len(part)]
    /\ overlapped' = (overlapped \/ Others(d) # {})
    /\ UNCHANGED <<fileVars, served, response, open, appVars, faults, replaced>>

\* RandomAccessFile(partFile, "rw").
Opens(d) ==
    /\ Goes(d, "reading")
    /\ exists' = exists \cup {"part"}
    /\ open' = [open EXCEPT ![d] = "part"]
    /\ response' = [response EXCEPT ![d] = served]
    /\ UNCHANGED <<target, served, ui, cancelRequested, appVars, faults, replaced, overlapped>>

\* 206: the rest of what the server has now, written from the offset asked for.
PartialContent(d) ==
    /\ pc[d] = "requesting"
    /\ pos[d] \in 1..Size - 1
    /\ Opens(d)
    /\ UNCHANGED <<part, pos>>

\* 200: no range was asked for, or the server ignores it; setLength(0).
FullContent(d) ==
    /\ pc[d] = "requesting"
    /\ Opens(d)
    /\ part' = <<>>
    /\ pos' = [pos EXCEPT ![d] = 0]

\* 416: a range that begins at the end of the file cannot be served.
RangeNotSatisfiable(d) ==
    /\ pc[d] = "requesting"
    /\ pos[d] >= Size
    /\ TransferFails(d)
    /\ UNCHANGED <<fileVars, served, open, appVars, faults, replaced, overlapped>>

\* Another HTTP status, no connection, or Call.cancel.
RequestFails(d) ==
    /\ pc[d] = "requesting"
    /\ (cancelRequested[d] /\ UNCHANGED faults) \/ Fault
    /\ TransferFails(d)
    /\ UNCHANGED <<fileVars, served, open, appVars, replaced, overlapped>>

\* The file with a block written at an offset, which may be behind its end.
Written(file, offset, block) ==
    [i \in 1..(IF offset < Len(file) THEN Len(file) ELSE offset + 1) |->
        IF i = offset + 1 THEN block ELSE IF i <= Len(file) THEN file[i] ELSE Hole]

\* One turn of the read loop: the cancel is seen, a block is written, or the
\* body is at its end.  Who opened a file writes to it under whatever name.
Read(d) ==
    /\ pc[d] = "reading"
    /\ \/ /\ cancelRequested[d]
          /\ Ends(d, "Cancelled")
          /\ UNCHANGED <<part, target>>
       \/ /\ ~cancelRequested[d] /\ pos[d] < Size
          /\ part' = IF open[d] = "part" THEN Written(part, pos[d], response[d]) ELSE part
          /\ target' = IF open[d] = "target" THEN Written(target, pos[d], response[d]) ELSE target
          /\ pos' = [pos EXCEPT ![d] = @ + 1]
          /\ UNCHANGED <<pc, ui, cancelRequested, response>>
       \/ /\ ~cancelRequested[d] /\ pos[d] >= Size
          /\ Goes(d, "verifying")
          /\ ui' = [ui EXCEPT ![d] = "Verifying"]
          /\ UNCHANGED <<part, target, cancelRequested, pos, response>>
    /\ UNCHANGED <<exists, served, open, appVars, faults, replaced, overlapped>>

\* Mutant: a lost connection is taken for the end of the body.
ReadFailsUnnoticed(d) ==
    /\ pc[d] = "reading" /\ pos[d] < Size
    /\ Fault
    /\ Goes(d, "verifying")
    /\ UNCHANGED <<fileVars, served, ui, cancelRequested, pos, response, open, appVars, replaced, overlapped>>

\* The connection is lost in the middle of the body, or Call.cancel cuts it.
ReadFails(d) ==
    /\ pc[d] = "reading" /\ pos[d] < Size
    /\ (cancelRequested[d] /\ UNCHANGED faults) \/ Fault
    /\ TransferFails(d)
    /\ UNCHANGED <<fileVars, served, open, appVars, replaced, overlapped>>

HasGgufMagic == part # <<>> /\ part[1] \in Gguf

\* A file that loses or changes its name does so for all who have it open.
Renames(from, to) == open' = [e \in Vms |-> IF open[e] = from THEN to ELSE open[e]]

\* Mutant: a bad header deletes the model instead of the .part file.
VerifyDeletesTarget(d) ==
    /\ pc[d] = "verifying"
    /\ \/ /\ HasGgufMagic
          /\ Goes(d, "replacing")
          /\ UNCHANGED <<exists, target, open, ui, cancelRequested, pos, response>>
       \/ /\ ~HasGgufMagic
          /\ exists' = exists \ {"target"}
          /\ target' = <<>>
          /\ Renames("target", "deleted")
          /\ Ends(d, "Failed")
    /\ UNCHANGED <<part, served, appVars, faults, replaced, overlapped>>

\* The magic header decides; no SHA-256 is configured in the app.
Verify(d) ==
    /\ pc[d] = "verifying"
    /\ \/ /\ HasGgufMagic
          /\ Goes(d, "replacing")
          /\ UNCHANGED <<exists, part, open, ui, cancelRequested, pos, response>>
       \/ /\ ~HasGgufMagic
          /\ exists' = exists \ {"part"}
          /\ part' = <<>>
          /\ Renames("part", "deleted")
          /\ Ends(d, "Failed")
    /\ UNCHANGED <<target, served, appVars, faults, replaced, overlapped>>

\* Replacing the model is two steps: delete the old file, rename the new one.
DeleteOld(d) ==
    /\ pc[d] = "replacing"
    /\ exists' = exists \ {"target"}
    /\ target' = <<>>
    /\ Renames("target", "deleted")
    /\ Goes(d, "renaming")
    /\ UNCHANGED <<part, served, ui, cancelRequested, pos, response, appVars, faults, replaced, overlapped>>

\* The rename replaces a target that came back, and fails without a .part file.
Rename(d) ==
    /\ pc[d] = "renaming"
    /\ \/ /\ "part" \in exists
          /\ exists' = {"target"}
          /\ target' = part /\ part' = <<>>
          /\ open' = [e \in Vms |-> IF open[e] = "part" THEN "target" ELSE "deleted"]
          /\ Goes(d, "renamed")
          /\ ui' = [ui EXCEPT ![d] = "Completed"]
          /\ pos' = [pos EXCEPT ![d] = 0]
          /\ UNCHANGED <<cancelRequested, response>>
       \/ /\ "part" \notin exists
          /\ Ends(d, "Failed")
          /\ UNCHANGED <<fileVars, open>>
    /\ UNCHANGED <<served, appVars, faults, replaced, overlapped>>

RenameFails(d) ==
    /\ pc[d] = "renaming"
    /\ Fault
    /\ Ends(d, "Failed")
    /\ UNCHANGED <<fileVars, served, open, appVars, replaced, overlapped>>

\* cancel(): the button is there while the state is Downloading.
Cancel(d) ==
    /\ d = vm
    /\ ui[d] = "Downloading"
    /\ ~cancelRequested[d]
    /\ Fault
    /\ cancelRequested' = [cancelRequested EXCEPT ![d] = TRUE]
    /\ UNCHANGED <<fileVars, served, pc, ui, pos, response, open, appVars, replaced, overlapped>>

----------------------------------------------------------------------------
\* RagViewModel and the life of the app

\* After download() returned Completed: shut the engine down and initialise it
\* again.  The scope of a cleared view model is cancelled, so its coroutine
\* ends where download() returns.
ReinitializeEngine(d) ==
    /\ pc[d] = "renamed"
    /\ Goes(d, "idle")
    /\ IF d = vm
       THEN /\ engine' = Resolved
            /\ neuralActive' = [neuralActive EXCEPT ![d] = TRUE]
       ELSE UNCHANGED <<engine, neuralActive>>
    /\ UNCHANGED <<fileVars, served, vm, ui, cancelRequested, pos, response, open, faults, replaced, overlapped>>

\* A new view model and its downloader look at the disk.
Fresh(d) ==
    /\ vm' = d
    /\ neuralActive' = [neuralActive EXCEPT ![d] = "target" \in exists]
    /\ ui' = [ui EXCEPT ![d] = IF "target" \in exists THEN "Completed" ELSE "NotStarted"]

\* The screen is left and opened again; the old download runs on.
Recreate ==
    /\ vm < MaxVms
    /\ Fresh(vm + 1)
    /\ UNCHANGED <<fileVars, served, pc, cancelRequested, pos, response, open, engine, faults, replaced, overlapped>>

\* The app is killed and started again: only the files are left.
Kill ==
    /\ vm < MaxVms
    /\ Fresh(vm + 1)
    /\ pc' = [d \in Vms |-> "idle"]
    /\ pos' = [d \in Vms |-> 0]
    /\ open' = [d \in Vms |-> "deleted"]
    /\ engine' = Resolved
    /\ UNCHANGED <<fileVars, served, cancelRequested, response, faults, replaced, overlapped>>

\* Another file is put under the same URL.
ServerReplaces ==
    /\ ~replaced
    /\ replaced' = TRUE
    /\ \E v \in Versions \ {served} : served' = v
    /\ UNCHANGED <<fileVars, taskVars, appVars, faults, overlapped>>

----------------------------------------------------------------------------

Progress(d) ==
    \/ PartialContent(d) \/ FullContent(d) \/ RangeNotSatisfiable(d)
    \/ Read(d) \/ Verify(d) \/ DeleteOld(d) \/ Rename(d) \/ ReinitializeEngine(d)

Next ==
    \/ \E d \in Vms : \/ Download(d) \/ Progress(d) \/ Cancel(d)
                      \/ RequestFails(d) \/ ReadFails(d) \/ RenameFails(d)
    \/ Recreate \/ Kill \/ ServerReplaces

\* The download thread goes on by itself; the user tries again, and again.
Fairness == \A d \in Vms : WF_vars(Progress(d)) /\ WF_vars(Download(d))

Spec == Init /\ [][Next]_vars /\ Fairness

----------------------------------------------------------------------------

\* What is under the model's name is complete whatever was interrupted: the
\* .part file is renamed only after the whole body is written and has the
\* magic header, and a response that ignores the range starts it over.  Only a
\* file replaced on the server between two attempts can mix two versions, and
\* only two downloads at once can install a file with a hole or a rest missing.
TargetIsWhole ==
    "target" \in exists /\ ~overlapped =>
        /\ Len(target) = Size /\ target[1] \in Gguf
        /\ replaced \/ IsWhole(target)

\* The installed model is removed only for a verified copy that is ready to
\* take its name, and never because of a cancel, unless two downloads overlap:
\* the second one deletes what the first one installed and has no .part to rename.
RemovedOnlyForCopy ==
    [][~overlapped /\ "target" \in exists /\ "target" \notin exists' =>
          Len(part) = Size /\ HasGgufMagic /\ part' = part /\ "part" \in exists']_vars

\* A retry asks for the bytes behind the end of a complete .part file, and is
\* refused with 416.
Stuck == Len(part) >= Size /\ \A d \in Vms : pc[d] = "idle"

\* A user who tries again gets the model, unless the server has none, or a
\* cancel, a failed rename or a kill came after the last byte was written:
\* every other interruption leaves a .part file that the next attempt completes.
DownloadCompletes ==
    []<>("target" \in exists \/ Stuck \/ served \notin Gguf \/ overlapped)
=============================================================================
