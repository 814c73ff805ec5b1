------------------------- MODULE GgufDownloadProofs -------------------------
(***************************************************************************)
(* For a model of any size, any number of view models, faults and versions *)
(* on the server: as long as no two downloads overlap, what is installed   *)
(* is complete, and it is removed only for a verified copy.                *)
(***************************************************************************)
EXTENDS GgufDownload, TLAPS

\* A block written anywhere leaves a file of blocks.
LEMMA WrittenType ==
    ASSUME NEW file \in File, NEW offset \in Nat, NEW block \in Versions
    PROVE  Written(file, offset, block) \in File
<1> DEFINE n == IF offset < Len(file) THEN Len(file) ELSE offset + 1
<1>1. n \in Nat /\ Len(file) \in Nat /\ \A i \in 1..Len(file) : file[i] \in Versions \cup {Hole}
  BY DEF File
<1>2. Written(file, offset, block) \in [1..n -> Versions \cup {Hole}]
  BY <1>1 DEF Written
<1> QED BY <1>1, <1>2 DEF File

\* A block written at the end is appended.
LEMMA WrittenAtEnd ==
    ASSUME NEW file \in File, NEW block \in Versions
    PROVE  LET new == Written(file, Len(file), block)
           IN  /\ new \in File /\ Len(new) = Len(file) + 1
               /\ \A i \in 1..Len(file) : new[i] = file[i]
               /\ new[Len(file) + 1] = block
<1>1. Len(file) \in Nat
  BY DEF File
<1>2. Written(file, Len(file), block) \in File
  BY <1>1, WrittenType
<1>3. Written(file, Len(file), block) =
        [i \in 1..(Len(file) + 1) |-> IF i = Len(file) + 1 THEN block ELSE IF i <= Len(file) THEN file[i] ELSE Hole]
  BY <1>1 DEF Written
<1> QED BY <1>1, <1>2, <1>3 DEF File

\* Files hold blocks and holes only, offsets are offsets, whoever writes where.
THEOREM TypeCorrect == Spec => []TypeOK
<1>1. Init => TypeOK
  <2> SUFFICES ASSUME Init PROVE TypeOK
    OBVIOUS
  <2>1. MaxVms \in Nat /\ 1 \in Vms
    BY MaxVmsAssumption DEF Vms
  <2>2. <<>> \in File
    BY DEF File
  <2>3. served \in Versions /\ response \in [Vms -> Versions] /\ faults \in 0..MaxFaults
    BY FaultsAssumption DEF Init
  <2>4. /\ cancelRequested \in [Vms -> BOOLEAN] /\ neuralActive \in [Vms -> BOOLEAN]
        /\ replaced \in BOOLEAN /\ overlapped \in BOOLEAN
    BY DEF Init
  <2> QED BY <2>1, <2>2, <2>3, <2>4 DEF Init, TypeOK
<1>2. TypeOK /\ [Next]_vars => TypeOK'
  <2> SUFFICES ASSUME TypeOK, [Next]_vars PROVE TypeOK'
    OBVIOUS
  <2> USE DEF TypeOK, fileVars, taskVars, appVars, Goes
  <2>0. <<>> \in File /\ Len(part) \in Nat
    BY DEF File
  <2>1. ASSUME NEW d \in Vms, Download(d) PROVE TypeOK'
    <3>1. overlapped' \in BOOLEAN
      BY <2>1 DEF Download
    <3> QED BY <2>0, <2>1, <3>1 DEF Download
  <2>2. ASSUME NEW d \in Vms, PartialContent(d) PROVE TypeOK'
    BY <2>2 DEF PartialContent, Opens
  <2>3. ASSUME NEW d \in Vms, FullContent(d) PROVE TypeOK'
    BY <2>0, <2>3 DEF FullContent, Opens
  <2>4. ASSUME NEW d \in Vms, NEW state \in {"Cancelled", "Failed"}, Ends(d, state)
        PROVE  /\ pc' \in [Vms -> {"idle", "requesting", "reading", "verifying", "replacing", "renaming", "renamed"}]
               /\ ui' \in [Vms -> {"NotStarted", "Downloading", "Verifying", "Completed", "Cancelled", "Failed"}]
               /\ pos' \in [Vms -> Nat] /\ UNCHANGED <<cancelRequested, response>>
    BY <2>4 DEF Ends
  <2>5. ASSUME Fault PROVE faults' \in 0..MaxFaults
    BY <2>5, FaultsAssumption DEF Fault
  <2>6. ASSUME NEW d \in Vms, RangeNotSatisfiable(d) \/ RequestFails(d) \/ ReadFails(d) PROVE TypeOK'
    BY <2>4, <2>5, <2>6 DEF RangeNotSatisfiable, RequestFails, ReadFails, TransferFails
  <2>7. ASSUME NEW d \in Vms, RenameFails(d) PROVE TypeOK'
    BY <2>4, <2>5, <2>7 DEF RenameFails
  <2>8. ASSUME NEW d \in Vms, Read(d) PROVE TypeOK'
    <3>1. Written(part, pos[d], response[d]) \in File /\ Written(target, pos[d], response[d]) \in File
      BY WrittenType
    <3>2. part' \in File /\ target' \in File
      BY <2>8, <3>1 DEF Read
    <3>3. pos' \in [Vms -> Nat]
      BY <2>8 DEF Read, Ends
    <3>4. /\ pc' \in [Vms -> {"idle", "requesting", "reading", "verifying", "replacing", "renaming", "renamed"}]
          /\ ui' \in [Vms -> {"NotStarted", "Downloading", "Verifying", "Completed", "Cancelled", "Failed"}]
          /\ UNCHANGED <<cancelRequested, response>>
      BY <2>8 DEF Read, Ends
    <3> QED BY <2>8, <3>2, <3>3, <3>4 DEF Read
  <2>9. ASSUME NEW d \in Vms, Verify(d) PROVE TypeOK'
    <3>1. UNCHANGED <<target, served, appVars, faults, replaced, overlapped>>
      BY <2>9 DEF Verify
    <3>2. CASE HasGgufMagic
      BY <2>9, <3>1, <3>2 DEF Verify
    <3>3. CASE ~HasGgufMagic
      <4>1. exists' \subseteq {"part", "target"} /\ part' \in File /\ Ends(d, "Failed")
        BY <2>0, <2>9, <3>3 DEF Verify
      <4>2. open' \in [Vms -> {"part", "target", "deleted"}]
        BY <2>9, <3>3 DEF Verify, Renames
      <4> QED BY <2>4, <3>1, <4>1, <4>2
    <3> QED BY <3>2, <3>3
  <2>10. ASSUME NEW d \in Vms, DeleteOld(d) PROVE TypeOK'
    BY <2>0, <2>10 DEF DeleteOld, Renames
  <2>11. ASSUME NEW d \in Vms, Rename(d) PROVE TypeOK'
    <3>1. CASE "part" \in exists
      <4>1. exists' \subseteq {"part", "target"} /\ part' \in File /\ target' \in File
        BY <2>0, <2>11, <3>1 DEF Rename
      <4>2. open' \in [Vms -> {"part", "target", "deleted"}]
        BY <2>11, <3>1 DEF Rename
      <4>3. /\ pc' \in [Vms -> {"idle", "requesting", "reading", "verifying", "replacing", "renaming", "renamed"}]
            /\ ui' \in [Vms -> {"NotStarted", "Downloading", "Verifying", "Completed", "Cancelled", "Failed"}]
            /\ pos' \in [Vms -> Nat]
        <5>1. /\ pc' = [pc EXCEPT ![d] = "renamed"] /\ ui' = [ui EXCEPT ![d] = "Completed"]
              /\ pos' = [pos EXCEPT ![d] = 0]
          BY <2>11, <3>1 DEF Rename
        <5> QED BY <5>1
      <4>4. UNCHANGED <<served, appVars, faults, replaced, overlapped, cancelRequested, response>>
        BY <2>11, <3>1 DEF Rename
      <4> QED BY <4>1, <4>2, <4>3, <4>4
    <3>2. CASE "part" \notin exists
      BY <2>4, <2>11, <3>2 DEF Rename
    <3> QED BY <3>1, <3>2
  <2>12. ASSUME NEW d \in Vms, Cancel(d) PROVE TypeOK'
    BY <2>5, <2>12 DEF Cancel
  <2>13. ASSUME NEW d \in Vms, ReinitializeEngine(d) PROVE TypeOK'
    BY <2>13 DEF ReinitializeEngine, Resolved
  <2>14. ASSUME Recreate \/ Kill PROVE TypeOK'
    <3>1. vm + 1 \in Vms
      BY <2>14, MaxVmsAssumption DEF Recreate, Kill, Vms
    <3>2. Fresh(vm + 1)
      BY <2>14 DEF Recreate, Kill
    <3>3. neuralActive' \in [Vms -> BOOLEAN]
      <4> DEFINE there == "target" \in exists
      <4>1. there \in BOOLEAN /\ neuralActive' = [neuralActive EXCEPT ![vm + 1] = there]
        BY <3>2 DEF Fresh
      <4> HIDE DEF there
      <4> QED BY <4>1
    <3>4. vm' \in Vms /\ ui' \in [Vms -> {"NotStarted", "Downloading", "Verifying", "Completed", "Cancelled", "Failed"}]
      BY <3>1, <3>2 DEF Fresh
    <3>5. cancelRequested' = cancelRequested /\ replaced' = replaced /\ overlapped' = overlapped
      BY <2>14 DEF Recreate, Kill
    <3>6. CASE Recreate
      BY <3>3, <3>4, <3>5, <3>6 DEF Recreate
    <3>7. CASE Kill
      BY <3>3, <3>4, <3>5, <3>7 DEF Kill, Resolved
    <3> QED BY <2>14, <3>6, <3>7
  <2>15. ASSUME ServerReplaces PROVE TypeOK'
    BY <2>15 DEF ServerReplaces
  <2>16. CASE UNCHANGED vars
    BY <2>16 DEF vars
  <2> QED BY <2>1, <2>2, <2>3, <2>6, <2>7, <2>8, <2>9, <2>10, <2>11, <2>12, <2>13, <2>14, <2>15, <2>16
          DEF Next, Progress
<1> QED BY <1>1, <1>2, PTL DEF Spec

----------------------------------------------------------------------------

\* What a download at work knows of the .part file, when it is alone.
Prepared(d) ==
    /\ pc[d] = "requesting" => pos[d] = Len(part)
    /\ pc[d] = "reading" =>
         "part" \in exists /\ open[d] = "part" /\ pos[d] = Len(part) /\ (replaced \/ response[d] = served)
    /\ pc[d] \in {"verifying", "replacing", "renaming"} => "part" \in exists /\ Len(part) = Size
    /\ pc[d] \in {"replacing", "renaming"} => part[1] \in Gguf

Alone == \A d, e \in Vms : pc[d] # "idle" /\ pc[e] # "idle" => d = e

PartFits ==
    /\ Len(part) <= Size
    /\ replaced \/ \A i \in 1..Len(part) : part[i] = served

\* The inductive invariant: the property itself does not say where the file
\* under the model's name came from.
DownloadInv ==
    /\ overlapped \/ (Alone /\ PartFits /\ \A d \in Vms : Prepared(d))
    /\ TargetIsWhole

\* A step that leaves the files alone and ends or keeps every download.
LEMMA Quiet ==
    ASSUME DownloadInv, overlapped' = overlapped, UNCHANGED <<fileVars, served, replaced>>,
           \A d \in Vms : \/ pc'[d] \in {"idle", "renamed"} /\ (pc[d] = "idle" => pc'[d] = "idle")
                          \/ pc'[d] = pc[d] /\ pos'[d] = pos[d] /\ open'[d] = open[d] /\ response'[d] = response[d]
    PROVE  DownloadInv'
<1>1. TargetIsWhole'
  BY DEF DownloadInv, TargetIsWhole, fileVars, IsWhole
<1>2. CASE overlapped
  BY <1>1, <1>2 DEF DownloadInv
<1>3. CASE ~overlapped
  <2>1. Alone'
    BY <1>3 DEF DownloadInv, Alone
  <2>2. PartFits'
    BY <1>3 DEF DownloadInv, PartFits, fileVars
  <2>3. ASSUME NEW d \in Vms PROVE Prepared(d)'
    <3>1. Prepared(d)
      BY <1>3 DEF DownloadInv
    <3> QED BY <3>1 DEF Prepared, fileVars
  <2> QED BY <1>1, <2>1, <2>2, <2>3 DEF DownloadInv
<1> QED BY <1>2, <1>3

\* A step of the only download there is.
LEMMA OwnStep ==
    ASSUME TypeOK, DownloadInv, ~overlapped, overlapped' = overlapped, TargetIsWhole', PartFits',
           NEW d \in Vms, pc[d] # "idle", NEW where, pc' = [pc EXCEPT ![d] = where], Prepared(d)'
    PROVE  DownloadInv'
<1>1. \A e \in Vms : e # d => pc[e] = "idle" /\ pc'[e] = "idle"
  BY DEF TypeOK, DownloadInv, Alone
<1>2. Alone'
  BY <1>1 DEF Alone
<1>3. \A e \in Vms : e # d => Prepared(e)'
  BY <1>1 DEF Prepared
<1> QED BY <1>2, <1>3 DEF DownloadInv

\* Every step of a download, the view model, the system or the server keeps it.
LEMMA DownloadStep ==
    ASSUME TypeOK, TypeOK', DownloadInv, Next
    PROVE  DownloadInv'
<1> USE DEF fileVars, taskVars, appVars
<1>1. CASE overlapped
  <2>1. overlapped'
    BY <1>1 DEF Next, Progress, Download, PartialContent, FullContent, Opens, RangeNotSatisfiable, Read, Verify,
       DeleteOld, Rename, ReinitializeEngine, Cancel, RequestFails, ReadFails, RenameFails, Recreate, Kill,
       ServerReplaces
  <2> QED BY <2>1 DEF DownloadInv, TargetIsWhole
<1>2. CASE ~overlapped
  <2>0. /\ Alone /\ PartFits /\ TargetIsWhole /\ \A d \in Vms : Prepared(d)
        /\ Len(part) \in Nat /\ Size \in Nat \ {0}
    BY <1>2, SizeAssumption DEF DownloadInv, TypeOK, File
  <2>1. ASSUME NEW d \in Vms, Download(d) PROVE DownloadInv'
    <3>1. TargetIsWhole'
      BY <2>0, <2>1, <1>2 DEF Download, TargetIsWhole, IsWhole
    <3>2. CASE Others(d) # {}
      <4>1. overlapped'
        BY <2>1, <3>2 DEF Download
      <4> QED BY <3>1, <4>1 DEF DownloadInv
    <3>3. CASE Others(d) = {}
      <4>1. \A e \in Vms : e # d => pc[e] = "idle" /\ pc'[e] = "idle"
        BY <2>1, <3>3 DEF Others, Download, Goes, TypeOK
      <4>2. Alone' /\ PartFits'
        BY <2>0, <2>1, <4>1 DEF Alone, PartFits, Download
      <4>3. Prepared(d)'
        BY <2>1 DEF Prepared, Download, Goes, TypeOK
      <4>4. \A e \in Vms : e # d => Prepared(e)'
        BY <4>1 DEF Prepared
      <4> QED BY <3>1, <4>2, <4>3, <4>4 DEF DownloadInv
    <3> QED BY <3>2, <3>3
  <2>2. ASSUME NEW d \in Vms, PartialContent(d) PROVE DownloadInv'
    <3>1. TargetIsWhole' /\ PartFits'
      BY <2>0, <2>2 DEF PartialContent, Opens, TargetIsWhole, IsWhole, PartFits
    <3>2. Prepared(d)'
      BY <2>0, <2>2 DEF PartialContent, Opens, Goes, Prepared, TypeOK
    <3> QED BY <1>2, <2>2, <3>1, <3>2, OwnStep DEF PartialContent, Opens, Goes
  <2>3. ASSUME NEW d \in Vms, FullContent(d) PROVE DownloadInv'
    <3>1. TargetIsWhole' /\ PartFits'
      BY <2>0, <2>3 DEF FullContent, Opens, TargetIsWhole, IsWhole, PartFits
    <3>2. Prepared(d)'
      BY <2>0, <2>3 DEF FullContent, Opens, Goes, Prepared, TypeOK
    <3> QED BY <1>2, <2>3, <3>1, <3>2, OwnStep DEF FullContent, Opens, Goes
  <2>4. ASSUME NEW d \in Vms, NEW state, Ends(d, state), overlapped' = overlapped,
               UNCHANGED <<fileVars, served, replaced, open>>
        PROVE  DownloadInv'
    <3>1. \A e \in Vms : e # d => pc'[e] = pc[e] /\ pos'[e] = pos[e] /\ open'[e] = open[e] /\ response'[e] = response[e]
      BY <2>4 DEF Ends, Goes, TypeOK
    <3>2. pc'[d] = "idle"
      BY <2>4 DEF Ends, Goes, TypeOK
    <3> QED BY <2>4, <3>1, <3>2, Quiet
  <2>5. ASSUME NEW d \in Vms, RangeNotSatisfiable(d) \/ RequestFails(d) \/ ReadFails(d) \/ RenameFails(d)
        PROVE  DownloadInv'
    BY <2>4, <2>5 DEF RangeNotSatisfiable, RequestFails, ReadFails, RenameFails, TransferFails
  <2>6. ASSUME NEW d \in Vms, Read(d) PROVE DownloadInv'
    <3>1. CASE Ends(d, "Cancelled") /\ UNCHANGED <<part, target>>
      BY <2>4, <2>6, <3>1 DEF Read
    <3>2. CASE /\ pos[d] < Size
               /\ part' = IF open[d] = "part" THEN Written(part, pos[d], response[d]) ELSE part
               /\ target' = IF open[d] = "target" THEN Written(target, pos[d], response[d]) ELSE target
               /\ pos' = [pos EXCEPT ![d] = @ + 1]
               /\ UNCHANGED <<pc, ui, cancelRequested, response>>
      <4>1. /\ open[d] = "part" /\ pos[d] = Len(part) /\ "part" \in exists /\ (replaced \/ response[d] = served)
            /\ response[d] \in Versions /\ part \in File
        BY <2>0, <2>6 DEF Prepared, Read, TypeOK
      <4>2. part' = Written(part, Len(part), response[d]) /\ target' = target
        BY <3>2, <4>1
      <4>3. /\ Len(part') = Len(part) + 1
            /\ \A i \in 1..Len(part) : part'[i] = part[i]
            /\ part'[Len(part) + 1] = response[d]
        BY <4>1, <4>2, WrittenAtEnd
      <4>4. UNCHANGED <<exists, served, open, replaced, overlapped>>
        BY <2>6 DEF Read
      <4>5. PartFits'
        <5>0. Len(part) \in Nat /\ Size \in Nat
          BY <2>0
        <5>1. Len(part') <= Size
          <6>1. Len(part) < Size
            BY <3>2, <4>1
          <6>2. Len(part') = Len(part) + 1
            BY <4>3
          <6> QED BY <5>0, <6>1, <6>2
        <5>2. ASSUME ~replaced PROVE \A i \in 1..Len(part') : part'[i] = served
          <6>1. \A i \in 1..Len(part) : part[i] = served
            BY <2>0, <5>2 DEF PartFits
          <6> QED BY <2>0, <4>1, <4>3, <5>2, <6>1
        <5> QED BY <4>4, <5>1, <5>2 DEF PartFits
      <4>6. TargetIsWhole'
        BY <2>0, <4>2, <4>4 DEF TargetIsWhole, IsWhole
      <4>7. pos'[d] = Len(part')
        BY <3>2, <4>1, <4>3 DEF TypeOK
      <4>8. Prepared(d)'
        <5>1. pc'[d] = "reading" /\ response'[d] = response[d]
          BY <2>6, <3>2 DEF Read
        <5>2. "part" \in exists' /\ open'[d] = "part" /\ (replaced' \/ response'[d] = served')
          BY <4>1, <4>4, <5>1
        <5> QED BY <4>7, <5>1, <5>2 DEF Prepared
      <4>9. pc' = [pc EXCEPT ![d] = "reading"] /\ pc[d] = "reading"
        BY <2>6, <3>2 DEF Read, TypeOK
      <4> QED BY <1>2, <4>4, <4>5, <4>6, <4>8, <4>9, OwnStep
    <3>3. CASE pos[d] >= Size /\ Goes(d, "verifying") /\ UNCHANGED <<part, target, cancelRequested, pos, response>>
      <4>1. UNCHANGED <<exists, served, open, replaced, overlapped>> /\ pc[d] = "reading"
        BY <2>6 DEF Read
      <4>2. TargetIsWhole' /\ PartFits'
        BY <2>0, <3>3, <4>1 DEF TargetIsWhole, IsWhole, PartFits
      <4>3. "part" \in exists /\ Len(part) = Size
        <5>1. "part" \in exists /\ pos[d] = Len(part)
          BY <2>0, <4>1 DEF Prepared
        <5>2. Len(part) <= Size /\ Len(part) \in Nat /\ Size \in Nat
          BY <2>0 DEF PartFits
        <5> QED BY <3>3, <5>1, <5>2
      <4>4. Prepared(d)'
        BY <3>3, <4>1, <4>3 DEF Prepared, Goes, TypeOK
      <4> QED BY <1>2, <3>3, <4>1, <4>2, <4>4, OwnStep DEF Goes
    <3> QED BY <2>6, <3>1, <3>2, <3>3 DEF Read
  <2>7. ASSUME NEW d \in Vms, Verify(d) PROVE DownloadInv'
    <3>0. pc[d] = "verifying" /\ UNCHANGED <<target, served, replaced, overlapped>>
      BY <2>7 DEF Verify
    <3>1. CASE HasGgufMagic /\ Goes(d, "replacing") /\ UNCHANGED <<exists, part, open, pos, response>>
      <4>1. TargetIsWhole' /\ PartFits'
        BY <2>0, <3>0, <3>1 DEF TargetIsWhole, IsWhole, PartFits
      <4>2. Prepared(d)'
        BY <2>0, <3>0, <3>1 DEF Prepared, HasGgufMagic, Goes, TypeOK
      <4> QED BY <1>2, <3>0, <3>1, <4>1, <4>2, OwnStep DEF Goes
    <3>2. CASE exists' = exists \ {"part"} /\ part' = <<>> /\ Ends(d, "Failed")
      <4>1. TargetIsWhole' /\ PartFits'
        BY <2>0, <3>0, <3>2 DEF TargetIsWhole, IsWhole, PartFits
      <4>2. Prepared(d)'
        BY <3>2 DEF Prepared, Ends, Goes, TypeOK
      <4> QED BY <1>2, <3>0, <3>2, <4>1, <4>2, OwnStep DEF Goes, Ends
    <3> QED BY <2>7, <3>1, <3>2 DEF Verify
  <2>8. ASSUME NEW d \in Vms, DeleteOld(d) PROVE DownloadInv'
    <3>1. TargetIsWhole' /\ PartFits'
      BY <2>0, <2>8 DEF TargetIsWhole, PartFits, DeleteOld
    <3>2. Prepared(d)'
      BY <2>0, <2>8 DEF Prepared, Goes, TypeOK, DeleteOld
    <3> QED BY <1>2, <2>8, <3>1, <3>2, OwnStep DEF DeleteOld, Goes
  <2>9. ASSUME NEW d \in Vms, Rename(d) PROVE DownloadInv'
    <3>1. /\ pc[d] = "renaming" /\ "part" \in exists /\ Len(part) = Size /\ part[1] \in Gguf
          /\ part \in File
      BY <2>0, <2>9 DEF Rename, Prepared, TypeOK
    <3>2. /\ exists' = {"target"} /\ target' = part /\ part' = <<>> /\ Goes(d, "renamed")
          /\ UNCHANGED <<served, replaced, overlapped>>
      BY <2>9, <3>1 DEF Rename
    <3>3. replaced \/ IsWhole(part)
      <4> SUFFICES ASSUME ~replaced PROVE IsWhole(part)
        OBVIOUS
      <4>1. \A i \in 1..Size : part[i] = served
        BY <2>0, <3>1 DEF PartFits
      <4>2. served \in Gguf
        BY <2>0, <3>1, <4>1
      <4>3. part = [i \in 1..Size |-> part[i]]
        BY <3>1 DEF File
      <4>4. part = Whole(served)
        BY <4>1, <4>3 DEF Whole
      <4> QED BY <4>2, <4>4 DEF IsWhole
    <3>4. TargetIsWhole'
      BY <3>1, <3>2, <3>3 DEF TargetIsWhole, IsWhole
    <3>5. PartFits' /\ Prepared(d)'
      BY <2>0, <3>2 DEF PartFits, Prepared, Goes, TypeOK
    <3> QED BY <1>2, <3>1, <3>2, <3>4, <3>5, OwnStep DEF Goes
  <2>10. ASSUME NEW d \in Vms, Cancel(d) \/ ReinitializeEngine(d) PROVE DownloadInv'
    BY <2>10, Quiet DEF Cancel, ReinitializeEngine, Goes, TypeOK
  <2>11. ASSUME Recreate \/ Kill PROVE DownloadInv'
    <3>1. overlapped' = overlapped /\ UNCHANGED <<fileVars, served, replaced>>
      BY <2>11 DEF Recreate, Kill
    <3>2. CASE Recreate
      <4>1. UNCHANGED <<pc, pos, open, response>>
        BY <3>2 DEF Recreate
      <4> QED BY <2>0, <3>1, <4>1, Quiet
    <3>3. CASE Kill
      <4>1. \A d \in Vms : pc'[d] = "idle"
        BY <3>3 DEF Kill
      <4> QED BY <2>0, <3>1, <4>1, Quiet
    <3> QED BY <2>11, <3>2, <3>3
  <2>12. ASSUME ServerReplaces PROVE DownloadInv'
    BY <2>0, <2>12 DEF ServerReplaces, DownloadInv, Alone, PartFits, Prepared, TargetIsWhole
  <2> QED BY <2>1, <2>2, <2>3, <2>5, <2>6, <2>7, <2>8, <2>9, <2>10, <2>11, <2>12 DEF Next, Progress
<1> QED BY <1>1, <1>2

\* The invariant holds in every reachable state.
LEMMA DownloadInvariance == Spec => []DownloadInv
<1>1. Init => DownloadInv
  BY SizeAssumption DEF Init, DownloadInv, Alone, PartFits, Prepared, TargetIsWhole
<1>2. TypeOK /\ TypeOK' /\ DownloadInv /\ [Next]_vars => DownloadInv'
  <2> SUFFICES ASSUME TypeOK, TypeOK', DownloadInv, [Next]_vars PROVE DownloadInv'
    OBVIOUS
  <2>1. CASE UNCHANGED vars
    BY <2>1, Quiet DEF vars, fileVars, taskVars
  <2> QED BY <2>1, DownloadStep
<1> QED BY <1>1, <1>2, TypeCorrect, PTL DEF Spec

\* Without overlapping downloads what is under the model's name is complete and
\* has the header, and is one version when the server never changed its file:
\* a transfer may fail, be cancelled or be killed anywhere and be resumed.
THEOREM InstalledIsWhole == Spec => []TargetIsWhole
<1>1. DownloadInv => TargetIsWhole
  BY DEF DownloadInv
<1> QED BY <1>1, DownloadInvariance, PTL

\* Without overlapping downloads the old model goes only when the complete,
\* verified copy is there to take its name.
THEOREM RemovalIsSafe == Spec => RemovedOnlyForCopy
<1> DEFINE Removal == ~overlapped /\ "target" \in exists /\ "target" \notin exists' =>
                        Len(part) = Size /\ HasGgufMagic /\ part' = part /\ "part" \in exists'
<1>1. TypeOK /\ DownloadInv /\ [Next]_vars => [Removal]_vars
  <2> SUFFICES ASSUME TypeOK, DownloadInv, Next, ~overlapped, "target" \in exists, "target" \notin exists'
               PROVE  Len(part) = Size /\ HasGgufMagic /\ part' = part /\ "part" \in exists'
    BY DEF vars, fileVars
  <2>1. PICK d \in Vms : DeleteOld(d)
    BY DEF Next, Progress, Download, PartialContent, FullContent, Opens, RangeNotSatisfiable, Read, Verify, Rename,
       ReinitializeEngine, Cancel, RequestFails, ReadFails, RenameFails, Recreate, Kill, ServerReplaces, fileVars
  <2>2. Prepared(d)
    BY DEF DownloadInv
  <2>3. "part" \in exists /\ Len(part) = Size /\ part[1] \in Gguf
    BY <2>1, <2>2 DEF Prepared, DeleteOld
  <2>4. part # <<>>
    BY <2>3, SizeAssumption
  <2> QED BY <2>1, <2>3, <2>4 DEF DeleteOld, HasGgufMagic
<1> QED BY <1>1, TypeCorrect, DownloadInvariance, PTL DEF Spec, RemovedOnlyForCopy

=============================================================================
