------------------------- MODULE ObjectUploadProofs -------------------------
(***************************************************************************)
(* Theorems about ObjectUpload, for any set of uploads and any positive    *)
(* part size and part limit.                                               *)
(*                                                                         *)
(* The inductive invariant is a conjunction over the uploads: the parts    *)
(* ...At(u) speak of the variables of one upload at u only.  A step is one *)
(* of one upload, and leaves those of the others as they are (Framed), so  *)
(* each part is preserved when the step preserves it at its own upload.    *)
(* Only the permits are shared; PermitInv counts them.  That the bytes end *)
(* up in the object as they came is the second part of the module.         *)
(***************************************************************************)
EXTENDS ObjectUpload, FiniteSetTheorems, SequenceTheorems, TLAPS

(* One step of upload u. *)
Step(u) == CallerStep(u) \/ WorkerStep(u) \/ StoreStep(u)

(* Every variable but the permits has a value for each upload. *)
AreFunctions ==
  /\ writer = [u \in Uploads |-> writer[u]]
  /\ caller = [u \in Uploads |-> caller[u]]
  /\ report = [u \in Uploads |-> report[u]]
  /\ sent = [u \in Uploads |-> sent[u]]
  /\ chan = [u \in Uploads |-> chan[u]]
  /\ terminal = [u \in Uploads |-> terminal[u]]
  /\ cancelled = [u \in Uploads |-> cancelled[u]]
  /\ pc = [u \in Uploads |-> pc[u]]
  /\ stage = [u \in Uploads |-> stage[u]]
  /\ buffer = [u \in Uploads |-> buffer[u]]
  /\ bytes = [u \in Uploads |-> bytes[u]]
  /\ partial = [u \in Uploads |-> partial[u]]
  /\ result = [u \in Uploads |-> result[u]]
  /\ flying = [u \in Uploads |-> flying[u]]
  /\ landed = [u \in Uploads |-> landed[u]]
  /\ broken = [u \in Uploads |-> broken[u]]
  /\ started = [u \in Uploads |-> started[u]]
  /\ handed = [u \in Uploads |-> handed[u]]
  /\ multipart = [u \in Uploads |-> multipart[u]]
  /\ object = [u \in Uploads |-> object[u]]

Domains ==
  /\ DOMAIN writer = Uploads
  /\ DOMAIN caller = Uploads
  /\ DOMAIN report = Uploads
  /\ DOMAIN sent = Uploads
  /\ DOMAIN chan = Uploads
  /\ DOMAIN terminal = Uploads
  /\ DOMAIN cancelled = Uploads
  /\ DOMAIN pc = Uploads
  /\ DOMAIN stage = Uploads
  /\ DOMAIN buffer = Uploads
  /\ DOMAIN bytes = Uploads
  /\ DOMAIN partial = Uploads
  /\ DOMAIN result = Uploads
  /\ DOMAIN flying = Uploads
  /\ DOMAIN landed = Uploads
  /\ DOMAIN broken = Uploads
  /\ DOMAIN started = Uploads
  /\ DOMAIN handed = Uploads
  /\ DOMAIN multipart = Uploads
  /\ DOMAIN object = Uploads

(* A step leaves the upload v alone. *)
Same(v) ==
  /\ writer'[v] = writer[v]
  /\ caller'[v] = caller[v]
  /\ report'[v] = report[v]
  /\ sent'[v] = sent[v]
  /\ chan'[v] = chan[v]
  /\ terminal'[v] = terminal[v]
  /\ cancelled'[v] = cancelled[v]
  /\ pc'[v] = pc[v]
  /\ stage'[v] = stage[v]
  /\ buffer'[v] = buffer[v]
  /\ bytes'[v] = bytes[v]
  /\ partial'[v] = partial[v]
  /\ result'[v] = result[v]
  /\ flying'[v] = flying[v]
  /\ landed'[v] = landed[v]
  /\ broken'[v] = broken[v]
  /\ started'[v] = started[v]
  /\ handed'[v] = handed[v]
  /\ multipart'[v] = multipart[v]
  /\ object'[v] = object[v]

(* The values of upload u's control variables. *)
ControlTypes(u) ==
  /\ writer[u] \in {"none", "open", "closed"}
  /\ caller[u] \in {"holding", "completing", "cancelling", "dropping", "aborting", "gone",
                    "returned"}
  /\ report[u] \in {"none", "ok", "err"}
  /\ terminal[u] \in {"unsent", "Complete", "Abort"}
  /\ cancelled[u] \in BOOLEAN
  /\ pc[u] \in Locations
  /\ stage[u] \in {"select", "drain", "join"}
  /\ result[u] \in Results
  /\ multipart[u] \in {"none", "open", "completed", "aborted"}

(* Its bytes, within the memory bound. *)
DataAt(u) ==
  /\ sent[u] \in Nat
  /\ chan[u] \in Seq(Seq(Nat)) /\ Len(chan[u]) <= ChannelSlots
  /\ buffer[u] \in Seq(Nat) /\ Len(buffer[u]) < PartSize
  /\ bytes[u] \in Seq(Nat)
  /\ partial[u] \in Seq(Nat) /\ Len(partial[u]) <= PartSize
  /\ handed[u] \in Seq(Nat)
  /\ object[u] \in Seq(Nat) \cup {NoObject}

(* Its part tasks, within the limit of its JoinSet. *)
TasksAt(u) ==
  /\ started[u] \in Nat /\ landed[u] \in Nat /\ broken[u] \in Nat
  /\ flying[u] \subseteq 1..started[u]
  /\ TasksLen(u) <= MaxParts
  /\ pc[u] \in {"granted", "spawn"} => TasksLen(u) < MaxParts

(* The caller, the terminal action, the token and the worker's loops: without a
   worker nothing is sent to it, the token is never set on an upload that
   completes, and the worker leaves its select loop only to complete. *)
ControlAt(u) ==
  /\ writer[u] = "none" =>
       /\ pc[u] \in {"idle", "put", "done"} /\ multipart[u] = "none"
       /\ terminal[u] = "unsent" /\ ~cancelled[u]
       /\ caller[u] = "holding" => pc[u] = "idle"
  /\ pc[u] = "idle" => writer[u] = "none" /\ caller[u] = "holding"
  /\ pc[u] = "await" => writer[u] = "closed"
  /\ caller[u] \in {"holding", "completing"} => ~cancelled[u]
  /\ caller[u] \in {"cancelling", "dropping", "aborting"} => cancelled[u]
  /\ caller[u] = "holding" => terminal[u] = "unsent" /\ stage[u] = "select"
  /\ terminal[u] = "Abort" => cancelled[u]
  /\ terminal[u] = "Complete" => ~cancelled[u]
  /\ stage[u] # "select" => terminal[u] = "Complete" \/ writer[u] = "none"
  /\ pc[u] \in {"idle", "select", "await"} => stage[u] = "select"
  /\ pc[u] = "drain" => stage[u] = "drain"
  /\ pc[u] \in {"create", "fill"} => stage[u] # "join"
  /\ pc[u] \in {"put", "joinall", "finish"} => stage[u] = "join"

(* The multipart upload, and where the worker may stand with it. *)
MultipartAt(u) ==
  /\ pc[u] \in {"idle", "put", "create"} => multipart[u] = "none"
  /\ pc[u] \in {"fill", "part", "granted", "spawn", "joinall"} => multipart[u] = "open"
  /\ pc[u] \in {"finish", "shutdown"} => multipart[u] \in {"open", "completed"}
  /\ pc[u] = "discard" => multipart[u] # "none"
  /\ multipart[u] = "completed" => pc[u] \in {"finish", "shutdown", "discard", "done"}
  /\ multipart[u] = "aborted" => pc[u] \in {"discard", "done"}
  /\ multipart[u] = "none" => flying[u] = {} /\ landed[u] = 0 /\ broken[u] = 0

(* No part request is in flight once the multipart upload may be settled. *)
QuietAt(u) == pc[u] \in {"finish", "discard", "done"} => flying[u] = {}

(* What is visible at the target: nothing until the worker completes. *)
ObjectAt(u) ==
  /\ object[u] # NoObject =>
       /\ stage[u] = "join" /\ pc[u] \in {"put", "finish", "shutdown", "discard", "done"}
       /\ multipart[u] \in {"none", "completed"}
  /\ multipart[u] = "completed" => object[u] # NoObject

(* What the task and the caller say of it. *)
ResultAt(u) ==
  /\ result[u] # "none" <=> pc[u] \in {"shutdown", "discard", "done"}
  /\ result[u] = "ok" =>
       pc[u] = "done" /\ object[u] # NoObject /\ multipart[u] # "open" /\ ~cancelled[u]
  /\ result[u] = "aborted" =>
       /\ object[u] = NoObject
       /\ cancelled[u] \/ (writer[u] = "none" /\ caller[u] \in {"returned", "gone"})
  /\ pc[u] = "done" /\ multipart[u] = "open" => result[u] = "err"
  /\ report[u] # "none" => caller[u] = "returned" /\ pc[u] = "done"
  /\ report[u] = "ok" => result[u] \in {"ok", "aborted"}

Local(u) ==
  /\ ControlTypes(u) /\ DataAt(u) /\ TasksAt(u) /\ ControlAt(u)
  /\ MultipartAt(u) /\ QuietAt(u) /\ ObjectAt(u) /\ ResultAt(u)

UploadsInv == AreFunctions /\ \A u \in Uploads : Local(u)

(* A run of consecutive bytes is a sequence of numbers. *)
LEMMA BytesType ==
  ASSUME NEW lo \in Nat \ {0}, NEW hi \in Nat
  PROVE  Bytes(lo, hi) \in Seq(Nat)
<1>1. CASE hi - lo + 1 \in Nat
  <2>1. \A i \in 1..(hi - lo + 1) : lo + i - 1 \in Nat
    OBVIOUS
  <2> QED BY <1>1, <2>1, IsASeq DEF Bytes
<1>2. CASE hi - lo + 1 \notin Nat
  <2>1. 1..(hi - lo + 1) = 1..0
    BY <1>2
  <2>2. Bytes(lo, hi) = [i \in 1..0 |-> lo + i - 1]
    BY <2>1 DEF Bytes
  <2>3. \A i \in 1..0 : lo + i - 1 \in Nat
    OBVIOUS
  <2> QED BY <2>2, <2>3, IsASeq
<1> QED BY <1>1, <1>2

(* Concatenation adds the lengths. *)
LEMMA ConcatType ==
  ASSUME NEW s \in Seq(Nat), NEW t \in Seq(Nat)
  PROVE  s \o t \in Seq(Nat) /\ Len(s \o t) = Len(s) + Len(t)
BY ConcatProperties

(* The smaller of what is there and the room that is left. *)
LEMMA FitsBound ==
  ASSUME NEW size \in Nat, NEW used \in 0..size, NEW len \in Nat, NEW n,
         n = IF len < size - used THEN len ELSE size - used
  PROVE  n \in 0..len /\ n + used <= size
OBVIOUS

(* A prefix and the rest of a sequence. *)
LEMMA SplitType ==
  ASSUME NEW s \in Seq(Nat), NEW n \in 0..Len(s)
  PROVE  /\ SubSeq(s, 1, n) \in Seq(Nat) /\ Len(SubSeq(s, 1, n)) = n
         /\ SubSeq(s, n + 1, Len(s)) \in Seq(Nat)
         /\ s = SubSeq(s, 1, n) \o SubSeq(s, n + 1, Len(s))
<1>1. 1 \in 1..(Len(s) + 1) /\ n \in 0..Len(s) /\ Len(s) \in Nat
  BY LenProperties
<1>2. SubSeq(s, 1, n) \in Seq(Nat) /\ Len(SubSeq(s, 1, n)) = n
  BY <1>1, SubSeqProperties
<1>3. SubSeq(s, n + 1, Len(s)) \in Seq(Nat)
  BY <1>1, SubSeqProperties
<1>4. SubSeq(s, 1, n) \o SubSeq(s, n + 1, Len(s)) = SubSeq(s, 1, Len(s))
  <2>1. n \in (1 - 1)..Len(s) /\ Len(s) \in n..Len(s)
    BY <1>1
  <2> QED BY <1>1, <2>1, ConcatAdjacentSubSeq, Zenon
<1>5. SubSeq(s, 1, Len(s)) = s
  BY SubSeqFull
<1> QED BY <1>2, <1>3, <1>4, <1>5

-----------------------------------------------------------------------------
(* Frames *)

(* A function of the uploads has them as its domain. *)
LEMMA DomainsOfFunctions == AreFunctions => Domains
BY DEF AreFunctions, Domains

(* A step keeps every variable a function of the uploads ... *)
LEMMA FramedFunctions ==
  ASSUME AreFunctions, NEW u \in Uploads, Step(u)
  PROVE  AreFunctions'
<1> USE DEF callerVars, linkVars, workVars, partVars, storeVars, Goto, Cleanup,
          Complete, AbandonIdle, Cancel, DropDirectWriter, SendTerminal, Write,
          AwaitAtEnd, JoinOk, JoinErr, ReportCleanup, Acquire, Release, AreFunctions
<1>1. ASSUME StartWorker(u) PROVE AreFunctions'
  BY <1>1 DEF StartWorker
<1>2. ASSUME Send(u) PROVE AreFunctions'
  BY <1>2 DEF Send
<1>3. ASSUME CloseWriter(u) PROVE AreFunctions'
  BY <1>3 DEF CloseWriter
<1>4. ASSUME CallComplete(u) PROVE AreFunctions'
  BY <1>4 DEF CallComplete
<1>5. ASSUME AbortIdle(u) PROVE AreFunctions'
  BY <1>5 DEF AbortIdle
<1>6. ASSUME DropIdle(u) PROVE AreFunctions'
  BY <1>6 DEF DropIdle
<1>7. ASSUME CallAbort(u) PROVE AreFunctions'
  BY <1>7 DEF CallAbort
<1>8. ASSUME Drop(u) PROVE AreFunctions'
  BY <1>8 DEF Drop
<1>9. ASSUME SendAbort(u) PROVE AreFunctions'
  BY <1>9 DEF SendAbort
<1>10. ASSUME Return(u) PROVE AreFunctions'
  BY <1>10 DEF Return
<1>11. ASSUME Forget(u) PROVE AreFunctions'
  BY <1>11 DEF Forget
<1>12. ASSUME SelectTerminal(u) PROVE AreFunctions'
  BY <1>12 DEF SelectTerminal
<1>13. ASSUME SelectChunk(u) PROVE AreFunctions'
  BY <1>13 DEF SelectChunk
<1>14. ASSUME SelectEnd(u) PROVE AreFunctions'
  BY <1>14 DEF SelectEnd
<1>15. ASSUME AwaitTerminal(u) PROVE AreFunctions'
  BY <1>15 DEF AwaitTerminal
<1>16. ASSUME DrainChunk(u) PROVE AreFunctions'
  BY <1>16 DEF DrainChunk
<1>17. ASSUME DrainEnd(u) PROVE AreFunctions'
  BY <1>17 DEF DrainEnd
<1>18. ASSUME Fill(u) PROVE AreFunctions'
  BY <1>18 DEF Fill
<1>19. ASSUME StopWaiting(u) PROVE AreFunctions'
  BY <1>19 DEF StopWaiting
<1>20. ASSUME JoinOne(u) PROVE AreFunctions'
  BY <1>20 DEF JoinOne
<1>21. ASSUME AcquirePermit(u) PROVE AreFunctions'
  BY <1>21 DEF AcquirePermit
<1>22. ASSUME WatchToken(u) PROVE AreFunctions'
  BY <1>22 DEF WatchToken
<1>23. ASSUME SpawnPart(u) PROVE AreFunctions'
  BY <1>23 DEF SpawnPart
<1>24. ASSUME AllJoined(u) PROVE AreFunctions'
  BY <1>24 DEF AllJoined
<1>25. ASSUME ShutdownEnd(u) PROVE AreFunctions'
  BY <1>25 DEF ShutdownEnd
<1>26. ASSUME CreateMultipart(u) PROVE AreFunctions'
  BY <1>26 DEF CreateMultipart
<1>27. ASSUME StoreApplies(u) PROVE AreFunctions'
  BY <1>27 DEF StoreApplies
<1>28. ASSUME StoreAnswersOk(u) PROVE AreFunctions'
  BY <1>28 DEF StoreAnswersOk
<1>29. ASSUME StoreAnswersErr(u) PROVE AreFunctions'
  BY <1>29 DEF StoreAnswersErr
<1>30. ASSUME StoreDiscards(u) PROVE AreFunctions'
  BY <1>30 DEF StoreDiscards
<1>31. ASSUME AbortAnswered(u) PROVE AreFunctions'
  BY <1>31 DEF AbortAnswered
<1>32. ASSUME NEW p \in flying[u], PartLands(u, p) PROVE AreFunctions'
  BY <1>32 DEF PartLands
<1>33. ASSUME NEW p \in flying[u], PartKilled(u, p) PROVE AreFunctions'
  BY <1>33 DEF PartKilled
<1> QED BY <1>1, <1>2, <1>3, <1>4, <1>5, <1>6, <1>7, <1>8, <1>9, <1>10, <1>11, <1>12,
          <1>13, <1>14, <1>15, <1>16, <1>17, <1>18, <1>19, <1>20, <1>21, <1>22, <1>23, <1>24,
          <1>25, <1>26, <1>27, <1>28, <1>29, <1>30, <1>31, <1>32, <1>33
       DEF Step, CallerStep, WorkerStep, StoreStep

(* ... and leaves the other uploads alone. *)
LEMMA FramedOthers ==
  ASSUME Domains, NEW u \in Uploads, NEW v \in Uploads \ {u}, Step(u)
  PROVE  Same(v)
<1> USE DEF callerVars, linkVars, workVars, partVars, storeVars, Goto, Cleanup,
          Complete, AbandonIdle, Cancel, DropDirectWriter, SendTerminal, Write,
          AwaitAtEnd, JoinOk, JoinErr, ReportCleanup, Acquire, Release, Same, Domains
<1>1. ASSUME StartWorker(u) PROVE Same(v)
  BY <1>1 DEF StartWorker
<1>2. ASSUME Send(u) PROVE Same(v)
  BY <1>2 DEF Send
<1>3. ASSUME CloseWriter(u) PROVE Same(v)
  BY <1>3 DEF CloseWriter
<1>4. ASSUME CallComplete(u) PROVE Same(v)
  BY <1>4 DEF CallComplete
<1>5. ASSUME AbortIdle(u) PROVE Same(v)
  BY <1>5 DEF AbortIdle
<1>6. ASSUME DropIdle(u) PROVE Same(v)
  BY <1>6 DEF DropIdle
<1>7. ASSUME CallAbort(u) PROVE Same(v)
  BY <1>7 DEF CallAbort
<1>8. ASSUME Drop(u) PROVE Same(v)
  BY <1>8 DEF Drop
<1>9. ASSUME SendAbort(u) PROVE Same(v)
  BY <1>9 DEF SendAbort
<1>10. ASSUME Return(u) PROVE Same(v)
  BY <1>10 DEF Return
<1>11. ASSUME Forget(u) PROVE Same(v)
  BY <1>11 DEF Forget
<1>12. ASSUME SelectTerminal(u) PROVE Same(v)
  BY <1>12 DEF SelectTerminal
<1>13. ASSUME SelectChunk(u) PROVE Same(v)
  BY <1>13 DEF SelectChunk
<1>14. ASSUME SelectEnd(u) PROVE Same(v)
  BY <1>14 DEF SelectEnd
<1>15. ASSUME AwaitTerminal(u) PROVE Same(v)
  BY <1>15 DEF AwaitTerminal
<1>16. ASSUME DrainChunk(u) PROVE Same(v)
  BY <1>16 DEF DrainChunk
<1>17. ASSUME DrainEnd(u) PROVE Same(v)
  BY <1>17 DEF DrainEnd
<1>18. ASSUME Fill(u) PROVE Same(v)
  BY <1>18 DEF Fill
<1>19. ASSUME StopWaiting(u) PROVE Same(v)
  BY <1>19 DEF StopWaiting
<1>20. ASSUME JoinOne(u) PROVE Same(v)
  BY <1>20 DEF JoinOne
<1>21. ASSUME AcquirePermit(u) PROVE Same(v)
  BY <1>21 DEF AcquirePermit
<1>22. ASSUME WatchToken(u) PROVE Same(v)
  BY <1>22 DEF WatchToken
<1>23. ASSUME SpawnPart(u) PROVE Same(v)
  BY <1>23 DEF SpawnPart
<1>24. ASSUME AllJoined(u) PROVE Same(v)
  BY <1>24 DEF AllJoined
<1>25. ASSUME ShutdownEnd(u) PROVE Same(v)
  BY <1>25 DEF ShutdownEnd
<1>26. ASSUME CreateMultipart(u) PROVE Same(v)
  BY <1>26 DEF CreateMultipart
<1>27. ASSUME StoreApplies(u) PROVE Same(v)
  BY <1>27 DEF StoreApplies
<1>28. ASSUME StoreAnswersOk(u) PROVE Same(v)
  BY <1>28 DEF StoreAnswersOk
<1>29. ASSUME StoreAnswersErr(u) PROVE Same(v)
  BY <1>29 DEF StoreAnswersErr
<1>30. ASSUME StoreDiscards(u) PROVE Same(v)
  BY <1>30 DEF StoreDiscards
<1>31. ASSUME AbortAnswered(u) PROVE Same(v)
  BY <1>31 DEF AbortAnswered
<1>32. ASSUME NEW p \in flying[u], PartLands(u, p) PROVE Same(v)
  BY <1>32 DEF PartLands
<1>33. ASSUME NEW p \in flying[u], PartKilled(u, p) PROVE Same(v)
  BY <1>33 DEF PartKilled
<1> QED BY <1>1, <1>2, <1>3, <1>4, <1>5, <1>6, <1>7, <1>8, <1>9, <1>10, <1>11, <1>12,
          <1>13, <1>14, <1>15, <1>16, <1>17, <1>18, <1>19, <1>20, <1>21, <1>22, <1>23, <1>24,
          <1>25, <1>26, <1>27, <1>28, <1>29, <1>30, <1>31, <1>32, <1>33
       DEF Step, CallerStep, WorkerStep, StoreStep

(* The control of an upload. *)
LEMMA ControlStep ==
  ASSUME Domains, NEW u \in Uploads, Local(u), Step(u)
  PROVE  ControlTypes(u)' /\ ControlAt(u)'
<1> USE DEF callerVars, linkVars, workVars, partVars, storeVars, Goto, Cleanup,
          Complete, AbandonIdle, Cancel, DropDirectWriter, SendTerminal, Write,
          AwaitAtEnd, JoinOk, JoinErr, ReportCleanup, Acquire, Release, Locations,
          Results, Holding, ChannelOpen, Drained, SeesCancel, TasksGone, ControlTypes,
          ControlAt, MultipartAt, ResultAt, Local, Domains
<1>1. ASSUME StartWorker(u) PROVE ControlTypes(u)' /\ ControlAt(u)'
  BY <1>1 DEF StartWorker
<1>2. ASSUME Send(u) PROVE ControlTypes(u)' /\ ControlAt(u)'
  BY <1>2 DEF Send
<1>3. ASSUME CloseWriter(u) PROVE ControlTypes(u)' /\ ControlAt(u)'
  BY <1>3 DEF CloseWriter
<1>4. ASSUME CallComplete(u) PROVE ControlTypes(u)' /\ ControlAt(u)'
  BY <1>4 DEF CallComplete
<1>5. ASSUME AbortIdle(u) PROVE ControlTypes(u)' /\ ControlAt(u)'
  BY <1>5 DEF AbortIdle
<1>6. ASSUME DropIdle(u) PROVE ControlTypes(u)' /\ ControlAt(u)'
  BY <1>6 DEF DropIdle
<1>7. ASSUME CallAbort(u) PROVE ControlTypes(u)' /\ ControlAt(u)'
  BY <1>7 DEF CallAbort
<1>8. ASSUME Drop(u) PROVE ControlTypes(u)' /\ ControlAt(u)'
  BY <1>8 DEF Drop
<1>9. ASSUME SendAbort(u) PROVE ControlTypes(u)' /\ ControlAt(u)'
  BY <1>9 DEF SendAbort
<1>10. ASSUME Return(u) PROVE ControlTypes(u)' /\ ControlAt(u)'
  BY <1>10 DEF Return
<1>11. ASSUME Forget(u) PROVE ControlTypes(u)' /\ ControlAt(u)'
  BY <1>11 DEF Forget
<1>12. ASSUME SelectTerminal(u) PROVE ControlTypes(u)' /\ ControlAt(u)'
  BY <1>12 DEF SelectTerminal
<1>13. ASSUME SelectChunk(u) PROVE ControlTypes(u)' /\ ControlAt(u)'
  BY <1>13 DEF SelectChunk
<1>14. ASSUME SelectEnd(u) PROVE ControlTypes(u)' /\ ControlAt(u)'
  BY <1>14 DEF SelectEnd
<1>15. ASSUME AwaitTerminal(u) PROVE ControlTypes(u)' /\ ControlAt(u)'
  BY <1>15 DEF AwaitTerminal
<1>16. ASSUME DrainChunk(u) PROVE ControlTypes(u)' /\ ControlAt(u)'
  BY <1>16 DEF DrainChunk
<1>17. ASSUME DrainEnd(u) PROVE ControlTypes(u)' /\ ControlAt(u)'
  BY <1>17 DEF DrainEnd
<1>18. ASSUME Fill(u) PROVE ControlTypes(u)' /\ ControlAt(u)'
  BY <1>18 DEF Fill
<1>19. ASSUME StopWaiting(u) PROVE ControlTypes(u)' /\ ControlAt(u)'
  BY <1>19 DEF StopWaiting
<1>20. ASSUME JoinOne(u) PROVE ControlTypes(u)' /\ ControlAt(u)'
  BY <1>20 DEF JoinOne
<1>21. ASSUME AcquirePermit(u) PROVE ControlTypes(u)' /\ ControlAt(u)'
  BY <1>21 DEF AcquirePermit
<1>22. ASSUME WatchToken(u) PROVE ControlTypes(u)' /\ ControlAt(u)'
  BY <1>22 DEF WatchToken
<1>23. ASSUME SpawnPart(u) PROVE ControlTypes(u)' /\ ControlAt(u)'
  BY <1>23 DEF SpawnPart
<1>24. ASSUME AllJoined(u) PROVE ControlTypes(u)' /\ ControlAt(u)'
  BY <1>24 DEF AllJoined
<1>25. ASSUME ShutdownEnd(u) PROVE ControlTypes(u)' /\ ControlAt(u)'
  BY <1>25 DEF ShutdownEnd
<1>26. ASSUME CreateMultipart(u) PROVE ControlTypes(u)' /\ ControlAt(u)'
  BY <1>26 DEF CreateMultipart
<1>27. ASSUME StoreApplies(u) PROVE ControlTypes(u)' /\ ControlAt(u)'
  BY <1>27 DEF StoreApplies
<1>28. ASSUME StoreAnswersOk(u) PROVE ControlTypes(u)' /\ ControlAt(u)'
  BY <1>28 DEF StoreAnswersOk
<1>29. ASSUME StoreAnswersErr(u) PROVE ControlTypes(u)' /\ ControlAt(u)'
  BY <1>29 DEF StoreAnswersErr
<1>30. ASSUME StoreDiscards(u) PROVE ControlTypes(u)' /\ ControlAt(u)'
  BY <1>30 DEF StoreDiscards
<1>31. ASSUME AbortAnswered(u) PROVE ControlTypes(u)' /\ ControlAt(u)'
  BY <1>31 DEF AbortAnswered
<1>32. ASSUME NEW p \in flying[u], PartLands(u, p) PROVE ControlTypes(u)' /\ ControlAt(u)'
  BY <1>32 DEF PartLands
<1>33. ASSUME NEW p \in flying[u], PartKilled(u, p) PROVE ControlTypes(u)' /\ ControlAt(u)'
  BY <1>33 DEF PartKilled
<1> QED BY <1>1, <1>2, <1>3, <1>4, <1>5, <1>6, <1>7, <1>8, <1>9, <1>10, <1>11, <1>12,
          <1>13, <1>14, <1>15, <1>16, <1>17, <1>18, <1>19, <1>20, <1>21, <1>22, <1>23, <1>24,
          <1>25, <1>26, <1>27, <1>28, <1>29, <1>30, <1>31, <1>32, <1>33
       DEF Step, CallerStep, WorkerStep, StoreStep

(* Where the worker stands with its multipart upload. *)
LEMMA MultipartStep ==
  ASSUME Domains, NEW u \in Uploads, Local(u), Step(u)
  PROVE  MultipartAt(u)'
<1> USE DEF callerVars, linkVars, workVars, partVars, storeVars, Goto, Cleanup,
          Complete, AbandonIdle, Cancel, DropDirectWriter, SendTerminal, Write,
          AwaitAtEnd, JoinOk, JoinErr, ReportCleanup, Acquire, Release, Locations,
          Results, Holding, ChannelOpen, Drained, SeesCancel, TasksGone, ControlTypes,
          ControlAt, MultipartAt, Local, Domains
<1>1. ASSUME StartWorker(u) PROVE MultipartAt(u)'
  BY <1>1 DEF StartWorker
<1>2. ASSUME Send(u) PROVE MultipartAt(u)'
  BY <1>2 DEF Send
<1>3. ASSUME CloseWriter(u) PROVE MultipartAt(u)'
  BY <1>3 DEF CloseWriter
<1>4. ASSUME CallComplete(u) PROVE MultipartAt(u)'
  BY <1>4 DEF CallComplete
<1>5. ASSUME AbortIdle(u) PROVE MultipartAt(u)'
  BY <1>5 DEF AbortIdle
<1>6. ASSUME DropIdle(u) PROVE MultipartAt(u)'
  BY <1>6 DEF DropIdle
<1>7. ASSUME CallAbort(u) PROVE MultipartAt(u)'
  BY <1>7 DEF CallAbort
<1>8. ASSUME Drop(u) PROVE MultipartAt(u)'
  BY <1>8 DEF Drop
<1>9. ASSUME SendAbort(u) PROVE MultipartAt(u)'
  BY <1>9 DEF SendAbort
<1>10. ASSUME Return(u) PROVE MultipartAt(u)'
  BY <1>10 DEF Return
<1>11. ASSUME Forget(u) PROVE MultipartAt(u)'
  BY <1>11 DEF Forget
<1>12. ASSUME SelectTerminal(u) PROVE MultipartAt(u)'
  BY <1>12 DEF SelectTerminal
<1>13. ASSUME SelectChunk(u) PROVE MultipartAt(u)'
  BY <1>13 DEF SelectChunk
<1>14. ASSUME SelectEnd(u) PROVE MultipartAt(u)'
  BY <1>14 DEF SelectEnd
<1>15. ASSUME AwaitTerminal(u) PROVE MultipartAt(u)'
  BY <1>15 DEF AwaitTerminal
<1>16. ASSUME DrainChunk(u) PROVE MultipartAt(u)'
  BY <1>16 DEF DrainChunk
<1>17. ASSUME DrainEnd(u) PROVE MultipartAt(u)'
  BY <1>17 DEF DrainEnd
<1>18. ASSUME Fill(u) PROVE MultipartAt(u)'
  BY <1>18 DEF Fill
<1>19. ASSUME StopWaiting(u) PROVE MultipartAt(u)'
  BY <1>19 DEF StopWaiting
<1>20. ASSUME JoinOne(u) PROVE MultipartAt(u)'
  BY <1>20 DEF JoinOne
<1>21. ASSUME AcquirePermit(u) PROVE MultipartAt(u)'
  BY <1>21 DEF AcquirePermit
<1>22. ASSUME WatchToken(u) PROVE MultipartAt(u)'
  BY <1>22 DEF WatchToken
<1>23. ASSUME SpawnPart(u) PROVE MultipartAt(u)'
  BY <1>23 DEF SpawnPart
<1>24. ASSUME AllJoined(u) PROVE MultipartAt(u)'
  BY <1>24 DEF AllJoined
<1>25. ASSUME ShutdownEnd(u) PROVE MultipartAt(u)'
  BY <1>25 DEF ShutdownEnd
<1>26. ASSUME CreateMultipart(u) PROVE MultipartAt(u)'
  BY <1>26 DEF CreateMultipart
<1>27. ASSUME StoreApplies(u) PROVE MultipartAt(u)'
  BY <1>27 DEF StoreApplies
<1>28. ASSUME StoreAnswersOk(u) PROVE MultipartAt(u)'
  BY <1>28 DEF StoreAnswersOk
<1>29. ASSUME StoreAnswersErr(u) PROVE MultipartAt(u)'
  BY <1>29 DEF StoreAnswersErr
<1>30. ASSUME StoreDiscards(u) PROVE MultipartAt(u)'
  BY <1>30 DEF StoreDiscards
<1>31. ASSUME AbortAnswered(u) PROVE MultipartAt(u)'
  BY <1>31 DEF AbortAnswered
<1>32. ASSUME NEW p \in flying[u], PartLands(u, p) PROVE MultipartAt(u)'
  BY <1>32 DEF PartLands
<1>33. ASSUME NEW p \in flying[u], PartKilled(u, p) PROVE MultipartAt(u)'
  BY <1>33 DEF PartKilled
<1> QED BY <1>1, <1>2, <1>3, <1>4, <1>5, <1>6, <1>7, <1>8, <1>9, <1>10, <1>11, <1>12,
          <1>13, <1>14, <1>15, <1>16, <1>17, <1>18, <1>19, <1>20, <1>21, <1>22, <1>23, <1>24,
          <1>25, <1>26, <1>27, <1>28, <1>29, <1>30, <1>31, <1>32, <1>33
       DEF Step, CallerStep, WorkerStep, StoreStep

(* UploadWorker::write takes the head of the channel into the buffer, where it
   fits below a part, or into its hands. *)
LEMMA WriteData ==
  ASSUME Domains, NEW u \in Uploads, NEW s, DataAt(u), Write(u, s),
         UNCHANGED <<callerVars, sent, terminal, cancelled, partial, partVars, storeVars>>
  PROVE  DataAt(u)'
<1> USE DEF partVars, storeVars
<1>1. /\ Head(chan[u]) \in Seq(Nat)
      /\ Tail(chan[u]) \in Seq(Seq(Nat))
      /\ Len(Tail(chan[u])) <= ChannelSlots
  <2>1. chan[u] \in Seq(Seq(Nat)) /\ chan[u] # <<>> /\ Len(chan[u]) <= ChannelSlots
    BY DEF DataAt, Write
  <2> QED BY <2>1, HeadTailProperties DEF ChannelSlots
<1>2. /\ buffer[u] \o Head(chan[u]) \in Seq(Nat)
      /\ Len(buffer[u] \o Head(chan[u])) = Len(buffer[u]) + Len(Head(chan[u]))
  BY <1>1, ConcatType DEF DataAt
<1>3. chan'[u] = Tail(chan[u])
  BY DEF Write, Domains
<1>4. \/ UNCHANGED <<buffer, bytes>>
      \/ /\ Len(buffer[u]) + Len(Head(chan[u])) < PartSize
         /\ buffer'[u] = buffer[u] \o Head(chan[u])
         /\ UNCHANGED bytes
      \/ bytes'[u] = Head(chan[u]) /\ UNCHANGED buffer
  BY DEF Write, Domains
<1> QED BY <1>1, <1>2, <1>3, <1>4 DEF DataAt

(* The bytes of an upload, in memory and in its object. *)
LEMMA DataStep ==
  ASSUME Domains, NEW u \in Uploads, Local(u), Step(u)
  PROVE  DataAt(u)'
<1> USE DEF callerVars, linkVars, workVars, partVars, storeVars, Goto, Cleanup,
          Complete, AbandonIdle, Cancel, SendTerminal, AwaitAtEnd, JoinOk, JoinErr,
          Acquire, Release, Local, DataAt, Domains
<1>1. ASSUME StartWorker(u) PROVE DataAt(u)'
  BY <1>1 DEF StartWorker
<1>2. ASSUME Send(u) PROVE DataAt(u)'
  <2>1. PICK n \in 1..MaxChunk :
          /\ chan' = [chan EXCEPT ![u] = Append(@, Bytes(sent[u] + 1, sent[u] + n))]
          /\ sent' = [sent EXCEPT ![u] = @ + n]
    BY <1>2 DEF Send
  <2>2. /\ n \in Nat /\ sent[u] + 1 \in Nat \ {0} /\ sent[u] + n \in Nat
        /\ chan[u] \in Seq(Seq(Nat)) /\ Len(chan[u]) < ChannelSlots
    BY <1>2, <2>1, UploadAssumption DEF Send, Local, DataAt
  <2>3. Bytes(sent[u] + 1, sent[u] + n) \in Seq(Nat)
    BY <2>2, BytesType
  <2>4. /\ Append(chan[u], Bytes(sent[u] + 1, sent[u] + n)) \in Seq(Seq(Nat))
        /\ Len(Append(chan[u], Bytes(sent[u] + 1, sent[u] + n))) <= ChannelSlots
    BY <2>2, <2>3, AppendProperties DEF ChannelSlots
  <2>5. /\ sent'[u] = sent[u] + n
        /\ chan'[u] = Append(chan[u], Bytes(sent[u] + 1, sent[u] + n))
    BY <2>1 DEF Domains
  <2> QED BY <1>2, <2>2, <2>4, <2>5 DEF Send, Local, DataAt
<1>3. ASSUME CloseWriter(u) PROVE DataAt(u)'
  BY <1>3 DEF CloseWriter
<1>4. ASSUME CallComplete(u) PROVE DataAt(u)'
  BY <1>4 DEF CallComplete
<1>5. ASSUME AbortIdle(u) PROVE DataAt(u)'
  BY <1>5 DEF AbortIdle
<1>6. ASSUME DropIdle(u) PROVE DataAt(u)'
  BY <1>6 DEF DropIdle
<1>7. ASSUME CallAbort(u) PROVE DataAt(u)'
  BY <1>7 DEF CallAbort
<1>8. ASSUME Drop(u) PROVE DataAt(u)'
  BY <1>8 DEF Drop
<1>9. ASSUME SendAbort(u) PROVE DataAt(u)'
  BY <1>9 DEF SendAbort
<1>10. ASSUME Return(u) PROVE DataAt(u)'
  BY <1>10 DEF Return
<1>11. ASSUME Forget(u) PROVE DataAt(u)'
  BY <1>11 DEF Forget
<1>12. ASSUME SelectTerminal(u) PROVE DataAt(u)'
  BY <1>12 DEF SelectTerminal
<1>13. ASSUME SelectChunk(u) PROVE DataAt(u)'
  <2>1. /\ Write(u, "select") /\ DataAt(u)
        /\ UNCHANGED <<callerVars, sent, terminal, cancelled, partial, partVars, storeVars>>
    BY <1>13 DEF SelectChunk, Local
  <2> QED BY <2>1, WriteData
<1>14. ASSUME SelectEnd(u) PROVE DataAt(u)'
  BY <1>14 DEF SelectEnd
<1>15. ASSUME AwaitTerminal(u) PROVE DataAt(u)'
  BY <1>15 DEF AwaitTerminal
<1>16. ASSUME DrainChunk(u) PROVE DataAt(u)'
  <2>1. /\ Write(u, "drain") /\ DataAt(u)
        /\ UNCHANGED <<callerVars, sent, terminal, cancelled, partial, partVars, storeVars>>
    BY <1>16 DEF DrainChunk, Local
  <2> QED BY <2>1, WriteData
<1>17. ASSUME DrainEnd(u) PROVE DataAt(u)'
  BY <1>17 DEF DrainEnd
<1>18. ASSUME Fill(u) PROVE DataAt(u)'
  <2>1. CASE cancelled[u]
    BY <1>18, <2>1 DEF Fill, Local, DataAt
  <2>2. CASE ~cancelled[u]
    <3> DEFINE n == Fits(u)
    <3>1. bytes[u] \in Seq(Nat) /\ partial[u] \in Seq(Nat) /\ Len(partial[u]) <= PartSize
      BY DEF Local, DataAt
    <3>2. n \in 0..Len(bytes[u]) /\ n + Len(partial[u]) <= PartSize
      <4>1. /\ Len(bytes[u]) \in Nat /\ Len(partial[u]) \in 0..PartSize
            /\ PartSize \in Nat
        BY <3>1, LenProperties, UploadAssumption
      <4>2. n = IF Len(bytes[u]) < PartSize - Len(partial[u])
                THEN Len(bytes[u]) ELSE PartSize - Len(partial[u])
        BY DEF Fits
      <4> HIDE DEF n
      <4> QED BY <4>1, <4>2, FitsBound
    <3>3. /\ partial'[u] = partial[u] \o SubSeq(bytes[u], 1, n)
          /\ bytes'[u] = SubSeq(bytes[u], n + 1, Len(bytes[u]))
      BY <1>18, <2>2 DEF Fill, Domains
    <3> HIDE DEF n
    <3>4. /\ SubSeq(bytes[u], 1, n) \in Seq(Nat) /\ Len(SubSeq(bytes[u], 1, n)) = n
          /\ SubSeq(bytes[u], n + 1, Len(bytes[u])) \in Seq(Nat)
      BY <3>1, <3>2, SplitType
    <3>5. /\ partial'[u] \in Seq(Nat)
          /\ Len(partial'[u]) = Len(partial[u]) + n
      BY <3>1, <3>3, <3>4, ConcatType
    <3>6. Len(partial'[u]) <= PartSize
      BY <3>1, <3>2, <3>5, LenProperties, UploadAssumption
    <3>7. UNCHANGED <<sent, chan, buffer, handed, object>>
      BY <1>18 DEF Fill
    <3> QED BY <3>3, <3>4, <3>5, <3>6, <3>7 DEF Local, DataAt
  <2> QED BY <2>1, <2>2
<1>19. ASSUME StopWaiting(u) PROVE DataAt(u)'
  BY <1>19 DEF StopWaiting
<1>20. ASSUME JoinOne(u) PROVE DataAt(u)'
  BY <1>20 DEF JoinOne
<1>21. ASSUME AcquirePermit(u) PROVE DataAt(u)'
  BY <1>21 DEF AcquirePermit
<1>22. ASSUME WatchToken(u) PROVE DataAt(u)'
  BY <1>22 DEF WatchToken
<1>23. ASSUME SpawnPart(u) PROVE DataAt(u)'
  <2>1. /\ handed'[u] = handed[u] \o partial[u] /\ partial'[u] = <<>>
        /\ UNCHANGED <<sent, chan, buffer, bytes, object>>
    BY <1>23 DEF SpawnPart, Domains
  <2>2. handed[u] \o partial[u] \in Seq(Nat) /\ <<>> \in Seq(Nat) /\ Len(<<>>) = 0
    BY ConcatType, EmptySeq DEF Local, DataAt
  <2> QED BY <2>1, <2>2, UploadAssumption DEF Local, DataAt
<1>24. ASSUME AllJoined(u) PROVE DataAt(u)'
  BY <1>24 DEF AllJoined
<1>25. ASSUME ShutdownEnd(u) PROVE DataAt(u)'
  BY <1>25 DEF ShutdownEnd
<1>26. ASSUME CreateMultipart(u) PROVE DataAt(u)'
  <2>1. \/ UNCHANGED <<buffer, bytes>>
        \/ buffer'[u] = <<>> /\ bytes'[u] = buffer[u] \o bytes[u]
    BY <1>26 DEF CreateMultipart, Domains
  <2>2. UNCHANGED <<sent, chan, partial, handed, object>>
    BY <1>26 DEF CreateMultipart
  <2>3. buffer[u] \o bytes[u] \in Seq(Nat) /\ <<>> \in Seq(Nat) /\ Len(<<>>) = 0
    BY ConcatType, EmptySeq DEF Local, DataAt
  <2>4. /\ buffer'[u] \in Seq(Nat) /\ Len(buffer'[u]) < PartSize
        /\ bytes'[u] \in Seq(Nat)
    <3>1. CASE UNCHANGED <<buffer, bytes>>
      BY <3>1 DEF Local, DataAt
    <3>2. CASE buffer'[u] = <<>> /\ bytes'[u] = buffer[u] \o bytes[u]
      BY <2>3, <3>2, UploadAssumption
    <3> QED BY <2>1, <3>1, <3>2
  <2> QED BY <2>2, <2>4 DEF Local, DataAt
<1>27. ASSUME StoreApplies(u) PROVE DataAt(u)'
  BY <1>27 DEF StoreApplies
<1>28. ASSUME StoreAnswersOk(u) PROVE DataAt(u)'
  BY <1>28 DEF StoreAnswersOk
<1>29. ASSUME StoreAnswersErr(u) PROVE DataAt(u)'
  BY <1>29 DEF StoreAnswersErr
<1>30. ASSUME StoreDiscards(u) PROVE DataAt(u)'
  BY <1>30 DEF StoreDiscards
<1>31. ASSUME AbortAnswered(u) PROVE DataAt(u)'
  BY <1>31 DEF AbortAnswered
<1>32. ASSUME NEW p \in flying[u], PartLands(u, p) PROVE DataAt(u)'
  BY <1>32 DEF PartLands
<1>33. ASSUME NEW p \in flying[u], PartKilled(u, p) PROVE DataAt(u)'
  BY <1>33 DEF PartKilled
<1> QED BY <1>1, <1>2, <1>3, <1>4, <1>5, <1>6, <1>7, <1>8, <1>9, <1>10, <1>11, <1>12,
          <1>13, <1>14, <1>15, <1>16, <1>17, <1>18, <1>19, <1>20, <1>21, <1>22, <1>23, <1>24,
          <1>25, <1>26, <1>27, <1>28, <1>29, <1>30, <1>31, <1>32, <1>33
       DEF Step, CallerStep, WorkerStep, StoreStep

(* The tasks of a JoinSet are counted. *)
LEMMA TasksCounted ==
  ASSUME NEW u \in Uploads, TasksAt(u)
  PROVE  /\ IsFiniteSet(flying[u]) /\ Cardinality(flying[u]) \in Nat
         /\ TasksLen(u) \in Nat /\ started[u] + 1 \notin flying[u]
         /\ TasksLen(u) = 0 => flying[u] = {}
<1>1. started[u] \in Nat /\ flying[u] \subseteq 1..started[u]
      /\ landed[u] \in Nat /\ broken[u] \in Nat
  BY DEF TasksAt
<1>2. IsFiniteSet(1..started[u])
  <2>1. 1 \in Int /\ started[u] \in Int
    BY <1>1
  <2> QED BY <2>1, FS_Interval
<1>3. IsFiniteSet(flying[u])
  BY <1>1, <1>2, FS_Subset
<1>4. Cardinality(flying[u]) \in Nat
  BY <1>3, FS_CardinalityType
<1>5. Cardinality(flying[u]) = 0 => flying[u] = {}
  BY <1>3, FS_EmptySet
<1>6. started[u] + 1 \notin flying[u]
  BY <1>1
<1>7. /\ TasksLen(u) \in Nat
      /\ TasksLen(u) = 0 => Cardinality(flying[u]) = 0
  BY <1>1, <1>4 DEF TasksLen
<1> QED BY <1>3, <1>4, <1>5, <1>6, <1>7

(* The part tasks of an upload. *)
LEMMA TasksStep ==
  ASSUME Domains, NEW u \in Uploads, Local(u), Step(u)
  PROVE  TasksAt(u)'
<1> USE DEF callerVars, linkVars, workVars, partVars, storeVars, Goto, Cleanup,
          Complete, AbandonIdle, Cancel, SendTerminal, Write, AwaitAtEnd,
          ReportCleanup, Acquire, Release, Domains
<1>a. TasksAt(u) /\ ControlTypes(u)
  BY DEF Local
<1>1. ASSUME StartWorker(u) PROVE TasksAt(u)'
  BY <1>a, <1>1 DEF StartWorker, TasksAt, TasksLen, ControlTypes
<1>2. ASSUME Send(u) PROVE TasksAt(u)'
  BY <1>a, <1>2 DEF Send, TasksAt, TasksLen, ControlTypes
<1>3. ASSUME CloseWriter(u) PROVE TasksAt(u)'
  BY <1>a, <1>3 DEF CloseWriter, TasksAt, TasksLen, ControlTypes
<1>4. ASSUME CallComplete(u) PROVE TasksAt(u)'
  BY <1>a, <1>4 DEF CallComplete, TasksAt, TasksLen, ControlTypes
<1>5. ASSUME AbortIdle(u) PROVE TasksAt(u)'
  BY <1>a, <1>5 DEF AbortIdle, TasksAt, TasksLen, ControlTypes
<1>6. ASSUME DropIdle(u) PROVE TasksAt(u)'
  BY <1>a, <1>6 DEF DropIdle, TasksAt, TasksLen, ControlTypes
<1>7. ASSUME CallAbort(u) PROVE TasksAt(u)'
  BY <1>a, <1>7 DEF CallAbort, TasksAt, TasksLen, ControlTypes
<1>8. ASSUME Drop(u) PROVE TasksAt(u)'
  BY <1>a, <1>8 DEF Drop, TasksAt, TasksLen, ControlTypes
<1>9. ASSUME SendAbort(u) PROVE TasksAt(u)'
  BY <1>a, <1>9 DEF SendAbort, TasksAt, TasksLen, ControlTypes
<1>10. ASSUME Return(u) PROVE TasksAt(u)'
  BY <1>a, <1>10 DEF Return, TasksAt, TasksLen, ControlTypes
<1>11. ASSUME Forget(u) PROVE TasksAt(u)'
  BY <1>a, <1>11 DEF Forget, TasksAt, TasksLen, ControlTypes
<1>12. ASSUME SelectTerminal(u) PROVE TasksAt(u)'
  BY <1>a, <1>12 DEF SelectTerminal, TasksAt, TasksLen, ControlTypes
<1>13. ASSUME SelectChunk(u) PROVE TasksAt(u)'
  BY <1>a, <1>13 DEF SelectChunk, TasksAt, TasksLen, ControlTypes
<1>14. ASSUME SelectEnd(u) PROVE TasksAt(u)'
  BY <1>a, <1>14 DEF SelectEnd, TasksAt, TasksLen, ControlTypes
<1>15. ASSUME AwaitTerminal(u) PROVE TasksAt(u)'
  BY <1>a, <1>15 DEF AwaitTerminal, TasksAt, TasksLen, ControlTypes
<1>16. ASSUME DrainChunk(u) PROVE TasksAt(u)'
  BY <1>a, <1>16 DEF DrainChunk, TasksAt, TasksLen, ControlTypes
<1>17. ASSUME DrainEnd(u) PROVE TasksAt(u)'
  BY <1>a, <1>17 DEF DrainEnd, TasksAt, TasksLen, ControlTypes
<1>18. ASSUME Fill(u) PROVE TasksAt(u)'
  BY <1>a, <1>18 DEF Fill, TasksAt, TasksLen, ControlTypes
<1>19. ASSUME StopWaiting(u) PROVE TasksAt(u)'
  BY <1>a, <1>19 DEF StopWaiting, TasksAt, TasksLen, ControlTypes
<1>20. ASSUME JoinOne(u) PROVE TasksAt(u)'
  <2>1. /\ UNCHANGED <<flying, started>> /\ pc'[u] \notin {"granted", "spawn"}
        /\ \/ landed[u] > 0 /\ landed'[u] = landed[u] - 1 /\ broken'[u] = broken[u]
           \/ broken[u] > 0 /\ broken'[u] = broken[u] - 1 /\ landed'[u] = landed[u]
    BY <1>20 DEF JoinOne, JoinOk, JoinErr
  <2> QED BY <1>a, <2>1, TasksCounted, UploadAssumption DEF Local, TasksAt, TasksLen
<1>21. ASSUME AcquirePermit(u) PROVE TasksAt(u)'
  BY <1>a, <1>21 DEF AcquirePermit, TasksAt, TasksLen, ControlTypes
<1>22. ASSUME WatchToken(u) PROVE TasksAt(u)'
  BY <1>a, <1>22 DEF WatchToken, TasksAt, TasksLen, ControlTypes
<1>23. ASSUME SpawnPart(u) PROVE TasksAt(u)'
  <2>1. /\ pc[u] = "spawn" /\ started'[u] = started[u] + 1
        /\ pc'[u] \notin {"granted", "spawn"}
        /\ flying'[u] = flying[u] \cup {started[u] + 1}
        /\ UNCHANGED <<landed, broken>>
    BY <1>23 DEF SpawnPart, Local, ControlTypes
  <2>2. Cardinality(flying'[u]) = Cardinality(flying[u]) + 1
    <3>1. IsFiniteSet(flying[u]) /\ started[u] + 1 \notin flying[u]
      BY <1>a, TasksCounted
    <3>2. Cardinality(flying[u] \cup {started[u] + 1}) = Cardinality(flying[u]) + 1
      BY <3>1, FS_AddElement
    <3> QED BY <2>1, <3>2
  <2>3. started'[u] \in Nat /\ flying'[u] \subseteq 1..started'[u]
    BY <1>a, <2>1 DEF TasksAt
  <2> QED BY <1>a, <2>1, <2>2, <2>3, TasksCounted, UploadAssumption DEF TasksAt, TasksLen
<1>24. ASSUME AllJoined(u) PROVE TasksAt(u)'
  BY <1>a, <1>24 DEF AllJoined, TasksAt, TasksLen, ControlTypes
<1>25. ASSUME ShutdownEnd(u) PROVE TasksAt(u)'
  <2>1. /\ UNCHANGED <<flying, started>> /\ pc'[u] \notin {"granted", "spawn"}
        /\ landed'[u] = 0 /\ broken'[u] = 0
    BY <1>25 DEF ShutdownEnd
  <2> QED BY <1>a, <2>1, TasksCounted, UploadAssumption DEF TasksAt, TasksLen
<1>26. ASSUME CreateMultipart(u) PROVE TasksAt(u)'
  BY <1>a, <1>26 DEF CreateMultipart, TasksAt, TasksLen, ControlTypes
<1>27. ASSUME StoreApplies(u) PROVE TasksAt(u)'
  BY <1>a, <1>27 DEF StoreApplies, TasksAt, TasksLen, ControlTypes
<1>28. ASSUME StoreAnswersOk(u) PROVE TasksAt(u)'
  BY <1>a, <1>28 DEF StoreAnswersOk, TasksAt, TasksLen, ControlTypes
<1>29. ASSUME StoreAnswersErr(u) PROVE TasksAt(u)'
  BY <1>a, <1>29 DEF StoreAnswersErr, TasksAt, TasksLen, ControlTypes
<1>30. ASSUME StoreDiscards(u) PROVE TasksAt(u)'
  BY <1>a, <1>30 DEF StoreDiscards, TasksAt, TasksLen, ControlTypes
<1>31. ASSUME AbortAnswered(u) PROVE TasksAt(u)'
  BY <1>a, <1>31 DEF AbortAnswered, TasksAt, TasksLen, ControlTypes
<1>32. ASSUME NEW p \in flying[u], PartLands(u, p) PROVE TasksAt(u)'
  <2>1. /\ flying'[u] = flying[u] \ {p} /\ UNCHANGED <<started, pc>>
        /\ \/ landed'[u] = landed[u] + 1 /\ broken'[u] = broken[u]
           \/ broken'[u] = broken[u] + 1 /\ landed'[u] = landed[u]
    BY <1>32 DEF PartLands
  <2>2. Cardinality(flying'[u]) = Cardinality(flying[u]) - 1
    <3>1. IsFiniteSet(flying[u]) /\ p \in flying[u]
      BY <1>a, TasksCounted
    <3>2. Cardinality(flying[u] \ {p}) = Cardinality(flying[u]) - 1
      BY <3>1, FS_RemoveElement
    <3> QED BY <2>1, <3>2
  <2> QED BY <1>a, <2>1, <2>2, TasksCounted, UploadAssumption DEF TasksAt, TasksLen
<1>33. ASSUME NEW p \in flying[u], PartKilled(u, p) PROVE TasksAt(u)'
  <2>1. flying'[u] = flying[u] \ {p} /\ UNCHANGED <<started, pc, landed, broken>>
    BY <1>33 DEF PartKilled
  <2>2. Cardinality(flying'[u]) = Cardinality(flying[u]) - 1
    <3>1. IsFiniteSet(flying[u]) /\ p \in flying[u]
      BY <1>a, TasksCounted
    <3>2. Cardinality(flying[u] \ {p}) = Cardinality(flying[u]) - 1
      BY <3>1, FS_RemoveElement
    <3> QED BY <2>1, <3>2
  <2> QED BY <1>a, <2>1, <2>2, TasksCounted, UploadAssumption DEF TasksAt, TasksLen
<1> QED BY <1>1, <1>2, <1>3, <1>4, <1>5, <1>6, <1>7, <1>8, <1>9, <1>10, <1>11, <1>12,
          <1>13, <1>14, <1>15, <1>16, <1>17, <1>18, <1>19, <1>20, <1>21, <1>22, <1>23, <1>24,
          <1>25, <1>26, <1>27, <1>28, <1>29, <1>30, <1>31, <1>32, <1>33
       DEF Step, CallerStep, WorkerStep, StoreStep

(* The multipart upload is settled with no part request in flight. *)
LEMMA QuietStep ==
  ASSUME Domains, NEW u \in Uploads, Local(u), Step(u)
  PROVE  QuietAt(u)'
<1> USE DEF callerVars, linkVars, workVars, partVars, storeVars, Goto, Cleanup,
          Complete, AbandonIdle, Cancel, DropDirectWriter, SendTerminal, Write,
          AwaitAtEnd, JoinOk, JoinErr, ReportCleanup, Acquire, Release, Locations,
          Results, Holding, ChannelOpen, Drained, SeesCancel, TasksGone, ControlTypes,
          ControlAt, MultipartAt, QuietAt, Local, Domains
<1>1. ASSUME StartWorker(u) PROVE QuietAt(u)'
  BY <1>1 DEF StartWorker
<1>2. ASSUME Send(u) PROVE QuietAt(u)'
  BY <1>2 DEF Send
<1>3. ASSUME CloseWriter(u) PROVE QuietAt(u)'
  BY <1>3 DEF CloseWriter
<1>4. ASSUME CallComplete(u) PROVE QuietAt(u)'
  BY <1>4 DEF CallComplete
<1>5. ASSUME AbortIdle(u) PROVE QuietAt(u)'
  BY <1>5 DEF AbortIdle
<1>6. ASSUME DropIdle(u) PROVE QuietAt(u)'
  BY <1>6 DEF DropIdle
<1>7. ASSUME CallAbort(u) PROVE QuietAt(u)'
  BY <1>7 DEF CallAbort
<1>8. ASSUME Drop(u) PROVE QuietAt(u)'
  BY <1>8 DEF Drop
<1>9. ASSUME SendAbort(u) PROVE QuietAt(u)'
  BY <1>9 DEF SendAbort
<1>10. ASSUME Return(u) PROVE QuietAt(u)'
  BY <1>10 DEF Return
<1>11. ASSUME Forget(u) PROVE QuietAt(u)'
  BY <1>11 DEF Forget
<1>12. ASSUME SelectTerminal(u) PROVE QuietAt(u)'
  BY <1>12 DEF SelectTerminal
<1>13. ASSUME SelectChunk(u) PROVE QuietAt(u)'
  BY <1>13 DEF SelectChunk
<1>14. ASSUME SelectEnd(u) PROVE QuietAt(u)'
  BY <1>14 DEF SelectEnd
<1>15. ASSUME AwaitTerminal(u) PROVE QuietAt(u)'
  BY <1>15 DEF AwaitTerminal
<1>16. ASSUME DrainChunk(u) PROVE QuietAt(u)'
  BY <1>16 DEF DrainChunk
<1>17. ASSUME DrainEnd(u) PROVE QuietAt(u)'
  BY <1>17 DEF DrainEnd
<1>18. ASSUME Fill(u) PROVE QuietAt(u)'
  BY <1>18 DEF Fill
<1>19. ASSUME StopWaiting(u) PROVE QuietAt(u)'
  BY <1>19 DEF StopWaiting
<1>20. ASSUME JoinOne(u) PROVE QuietAt(u)'
  BY <1>20 DEF JoinOne
<1>21. ASSUME AcquirePermit(u) PROVE QuietAt(u)'
  BY <1>21 DEF AcquirePermit
<1>22. ASSUME WatchToken(u) PROVE QuietAt(u)'
  BY <1>22 DEF WatchToken
<1>23. ASSUME SpawnPart(u) PROVE QuietAt(u)'
  BY <1>23 DEF SpawnPart
<1>24. ASSUME AllJoined(u) PROVE QuietAt(u)'
  <2>1. TasksLen(u) = 0
    BY <1>24 DEF AllJoined
  <2>2. flying[u] = {} /\ UNCHANGED flying
    BY <1>24, <2>1, TasksCounted DEF AllJoined
  <2> QED BY <2>2
<1>25. ASSUME ShutdownEnd(u) PROVE QuietAt(u)'
  BY <1>25 DEF ShutdownEnd
<1>26. ASSUME CreateMultipart(u) PROVE QuietAt(u)'
  BY <1>26 DEF CreateMultipart
<1>27. ASSUME StoreApplies(u) PROVE QuietAt(u)'
  BY <1>27 DEF StoreApplies
<1>28. ASSUME StoreAnswersOk(u) PROVE QuietAt(u)'
  BY <1>28 DEF StoreAnswersOk
<1>29. ASSUME StoreAnswersErr(u) PROVE QuietAt(u)'
  BY <1>29 DEF StoreAnswersErr
<1>30. ASSUME StoreDiscards(u) PROVE QuietAt(u)'
  BY <1>30 DEF StoreDiscards
<1>31. ASSUME AbortAnswered(u) PROVE QuietAt(u)'
  BY <1>31 DEF AbortAnswered
<1>32. ASSUME NEW p \in flying[u], PartLands(u, p) PROVE QuietAt(u)'
  BY <1>32 DEF PartLands
<1>33. ASSUME NEW p \in flying[u], PartKilled(u, p) PROVE QuietAt(u)'
  BY <1>33 DEF PartKilled
<1> QED BY <1>1, <1>2, <1>3, <1>4, <1>5, <1>6, <1>7, <1>8, <1>9, <1>10, <1>11, <1>12,
          <1>13, <1>14, <1>15, <1>16, <1>17, <1>18, <1>19, <1>20, <1>21, <1>22, <1>23, <1>24,
          <1>25, <1>26, <1>27, <1>28, <1>29, <1>30, <1>31, <1>32, <1>33
       DEF Step, CallerStep, WorkerStep, StoreStep

(* The object becomes visible only where the worker completes. *)
LEMMA ObjectStep ==
  ASSUME Domains, NEW u \in Uploads, Local(u), Step(u)
  PROVE  ObjectAt(u)'
<1> USE DEF callerVars, linkVars, workVars, partVars, storeVars, Goto, Cleanup,
          Complete, AbandonIdle, Cancel, DropDirectWriter, SendTerminal, Write,
          AwaitAtEnd, JoinOk, JoinErr, ReportCleanup, Acquire, Release, Locations,
          Results, Holding, ChannelOpen, Drained, SeesCancel, TasksGone, ControlTypes,
          ControlAt, MultipartAt, ObjectAt, Local, Domains
<1>1. ASSUME StartWorker(u) PROVE ObjectAt(u)'
  BY <1>1 DEF StartWorker
<1>2. ASSUME Send(u) PROVE ObjectAt(u)'
  BY <1>2 DEF Send
<1>3. ASSUME CloseWriter(u) PROVE ObjectAt(u)'
  BY <1>3 DEF CloseWriter
<1>4. ASSUME CallComplete(u) PROVE ObjectAt(u)'
  BY <1>4 DEF CallComplete
<1>5. ASSUME AbortIdle(u) PROVE ObjectAt(u)'
  BY <1>5 DEF AbortIdle
<1>6. ASSUME DropIdle(u) PROVE ObjectAt(u)'
  BY <1>6 DEF DropIdle
<1>7. ASSUME CallAbort(u) PROVE ObjectAt(u)'
  BY <1>7 DEF CallAbort
<1>8. ASSUME Drop(u) PROVE ObjectAt(u)'
  BY <1>8 DEF Drop
<1>9. ASSUME SendAbort(u) PROVE ObjectAt(u)'
  BY <1>9 DEF SendAbort
<1>10. ASSUME Return(u) PROVE ObjectAt(u)'
  BY <1>10 DEF Return
<1>11. ASSUME Forget(u) PROVE ObjectAt(u)'
  BY <1>11 DEF Forget
<1>12. ASSUME SelectTerminal(u) PROVE ObjectAt(u)'
  BY <1>12 DEF SelectTerminal
<1>13. ASSUME SelectChunk(u) PROVE ObjectAt(u)'
  BY <1>13 DEF SelectChunk
<1>14. ASSUME SelectEnd(u) PROVE ObjectAt(u)'
  BY <1>14 DEF SelectEnd
<1>15. ASSUME AwaitTerminal(u) PROVE ObjectAt(u)'
  BY <1>15 DEF AwaitTerminal
<1>16. ASSUME DrainChunk(u) PROVE ObjectAt(u)'
  BY <1>16 DEF DrainChunk
<1>17. ASSUME DrainEnd(u) PROVE ObjectAt(u)'
  BY <1>17 DEF DrainEnd
<1>18. ASSUME Fill(u) PROVE ObjectAt(u)'
  BY <1>18 DEF Fill
<1>19. ASSUME StopWaiting(u) PROVE ObjectAt(u)'
  BY <1>19 DEF StopWaiting
<1>20. ASSUME JoinOne(u) PROVE ObjectAt(u)'
  BY <1>20 DEF JoinOne
<1>21. ASSUME AcquirePermit(u) PROVE ObjectAt(u)'
  BY <1>21 DEF AcquirePermit
<1>22. ASSUME WatchToken(u) PROVE ObjectAt(u)'
  BY <1>22 DEF WatchToken
<1>23. ASSUME SpawnPart(u) PROVE ObjectAt(u)'
  BY <1>23 DEF SpawnPart
<1>24. ASSUME AllJoined(u) PROVE ObjectAt(u)'
  BY <1>24 DEF AllJoined
<1>25. ASSUME ShutdownEnd(u) PROVE ObjectAt(u)'
  BY <1>25 DEF ShutdownEnd
<1>26. ASSUME CreateMultipart(u) PROVE ObjectAt(u)'
  BY <1>26 DEF CreateMultipart
<1>27. ASSUME StoreApplies(u) PROVE ObjectAt(u)'
  <2>1. \/ pc[u] = "put" /\ object'[u] = buffer[u] /\ UNCHANGED multipart
        \/ pc[u] = "finish" /\ object'[u] = handed[u] /\ multipart'[u] = "completed"
    BY <1>27 DEF StoreApplies
  <2>2. object'[u] # NoObject
    BY <2>1, NoObjectAssumption DEF DataAt
  <2>3. UNCHANGED <<pc, stage>>
    BY <1>27 DEF StoreApplies
  <2> QED BY <2>1, <2>2, <2>3
<1>28. ASSUME StoreAnswersOk(u) PROVE ObjectAt(u)'
  BY <1>28 DEF StoreAnswersOk
<1>29. ASSUME StoreAnswersErr(u) PROVE ObjectAt(u)'
  BY <1>29 DEF StoreAnswersErr
<1>30. ASSUME StoreDiscards(u) PROVE ObjectAt(u)'
  BY <1>30 DEF StoreDiscards
<1>31. ASSUME AbortAnswered(u) PROVE ObjectAt(u)'
  BY <1>31 DEF AbortAnswered
<1>32. ASSUME NEW p \in flying[u], PartLands(u, p) PROVE ObjectAt(u)'
  BY <1>32 DEF PartLands
<1>33. ASSUME NEW p \in flying[u], PartKilled(u, p) PROVE ObjectAt(u)'
  BY <1>33 DEF PartKilled
<1> QED BY <1>1, <1>2, <1>3, <1>4, <1>5, <1>6, <1>7, <1>8, <1>9, <1>10, <1>11, <1>12,
          <1>13, <1>14, <1>15, <1>16, <1>17, <1>18, <1>19, <1>20, <1>21, <1>22, <1>23, <1>24,
          <1>25, <1>26, <1>27, <1>28, <1>29, <1>30, <1>31, <1>32, <1>33
       DEF Step, CallerStep, WorkerStep, StoreStep

(* What is reported is what the store shows. *)
LEMMA ResultStep ==
  ASSUME Domains, NEW u \in Uploads, Local(u), Step(u)
  PROVE  ResultAt(u)'
<1> USE DEF callerVars, linkVars, workVars, partVars, storeVars, Goto, Cleanup,
          Complete, AbandonIdle, Cancel, DropDirectWriter, SendTerminal, Write,
          AwaitAtEnd, JoinOk, JoinErr, ReportCleanup, Acquire, Release, Locations,
          Results, Holding, ChannelOpen, Drained, SeesCancel, TasksGone, ControlTypes,
          ControlAt, MultipartAt, QuietAt, ObjectAt, ResultAt, Local, Domains
<1>1. ASSUME StartWorker(u) PROVE ResultAt(u)'
  BY <1>1 DEF StartWorker
<1>2. ASSUME Send(u) PROVE ResultAt(u)'
  BY <1>2 DEF Send
<1>3. ASSUME CloseWriter(u) PROVE ResultAt(u)'
  BY <1>3 DEF CloseWriter
<1>4. ASSUME CallComplete(u) PROVE ResultAt(u)'
  BY <1>4 DEF CallComplete
<1>5. ASSUME AbortIdle(u) PROVE ResultAt(u)'
  BY <1>5 DEF AbortIdle
<1>6. ASSUME DropIdle(u) PROVE ResultAt(u)'
  BY <1>6 DEF DropIdle
<1>7. ASSUME CallAbort(u) PROVE ResultAt(u)'
  BY <1>7 DEF CallAbort
<1>8. ASSUME Drop(u) PROVE ResultAt(u)'
  BY <1>8 DEF Drop
<1>9. ASSUME SendAbort(u) PROVE ResultAt(u)'
  BY <1>9 DEF SendAbort
<1>10. ASSUME Return(u) PROVE ResultAt(u)'
  BY <1>10 DEF Return
<1>11. ASSUME Forget(u) PROVE ResultAt(u)'
  BY <1>11 DEF Forget
<1>12. ASSUME SelectTerminal(u) PROVE ResultAt(u)'
  BY <1>12 DEF SelectTerminal
<1>13. ASSUME SelectChunk(u) PROVE ResultAt(u)'
  BY <1>13 DEF SelectChunk
<1>14. ASSUME SelectEnd(u) PROVE ResultAt(u)'
  BY <1>14 DEF SelectEnd
<1>15. ASSUME AwaitTerminal(u) PROVE ResultAt(u)'
  BY <1>15 DEF AwaitTerminal
<1>16. ASSUME DrainChunk(u) PROVE ResultAt(u)'
  BY <1>16 DEF DrainChunk
<1>17. ASSUME DrainEnd(u) PROVE ResultAt(u)'
  BY <1>17 DEF DrainEnd
<1>18. ASSUME Fill(u) PROVE ResultAt(u)'
  BY <1>18 DEF Fill
<1>19. ASSUME StopWaiting(u) PROVE ResultAt(u)'
  BY <1>19 DEF StopWaiting
<1>20. ASSUME JoinOne(u) PROVE ResultAt(u)'
  BY <1>20 DEF JoinOne
<1>21. ASSUME AcquirePermit(u) PROVE ResultAt(u)'
  BY <1>21 DEF AcquirePermit
<1>22. ASSUME WatchToken(u) PROVE ResultAt(u)'
  BY <1>22 DEF WatchToken
<1>23. ASSUME SpawnPart(u) PROVE ResultAt(u)'
  BY <1>23 DEF SpawnPart
<1>24. ASSUME AllJoined(u) PROVE ResultAt(u)'
  BY <1>24 DEF AllJoined
<1>25. ASSUME ShutdownEnd(u) PROVE ResultAt(u)'
  BY <1>25 DEF ShutdownEnd
<1>26. ASSUME CreateMultipart(u) PROVE ResultAt(u)'
  BY <1>26 DEF CreateMultipart
<1>27. ASSUME StoreApplies(u) PROVE ResultAt(u)'
  BY <1>27 DEF StoreApplies
<1>28. ASSUME StoreAnswersOk(u) PROVE ResultAt(u)'
  BY <1>28 DEF StoreAnswersOk
<1>29. ASSUME StoreAnswersErr(u) PROVE ResultAt(u)'
  BY <1>29 DEF StoreAnswersErr
<1>30. ASSUME StoreDiscards(u) PROVE ResultAt(u)'
  BY <1>30 DEF StoreDiscards
<1>31. ASSUME AbortAnswered(u) PROVE ResultAt(u)'
  BY <1>31 DEF AbortAnswered
<1>32. ASSUME NEW p \in flying[u], PartLands(u, p) PROVE ResultAt(u)'
  BY <1>32 DEF PartLands
<1>33. ASSUME NEW p \in flying[u], PartKilled(u, p) PROVE ResultAt(u)'
  BY <1>33 DEF PartKilled
<1> QED BY <1>1, <1>2, <1>3, <1>4, <1>5, <1>6, <1>7, <1>8, <1>9, <1>10, <1>11, <1>12,
          <1>13, <1>14, <1>15, <1>16, <1>17, <1>18, <1>19, <1>20, <1>21, <1>22, <1>23, <1>24,
          <1>25, <1>26, <1>27, <1>28, <1>29, <1>30, <1>31, <1>32, <1>33
       DEF Step, CallerStep, WorkerStep, StoreStep

(* Every part of the invariant is preserved at every upload. *)
LEMMA UploadsStep == UploadsInv /\ [Next]_vars => UploadsInv'
<1> SUFFICES ASSUME UploadsInv, [Next]_vars PROVE UploadsInv'
  OBVIOUS
<1>1. ASSUME NEW u \in Uploads, Step(u) PROVE UploadsInv'
  <2>1. AreFunctions /\ Domains /\ Local(u)
    BY DomainsOfFunctions DEF UploadsInv
  <2>2. AreFunctions'
    BY <1>1, <2>1, FramedFunctions
  <2>3. Local(u)'
    BY <1>1, <2>1, ControlStep, MultipartStep, DataStep, TasksStep, QuietStep, ObjectStep,
       ResultStep DEF Local
  <2>4. ASSUME NEW v \in Uploads \ {u} PROVE Local(v)'
    <3>1. Local(v) /\ Same(v)
      BY <1>1, <2>1, FramedOthers DEF UploadsInv
    <3>2. ControlTypes(v)' /\ ControlAt(v)' /\ MultipartAt(v)' /\ QuietAt(v)' /\ ObjectAt(v)'
      BY <3>1 DEF Local, Same, ControlTypes, ControlAt, MultipartAt, QuietAt, ObjectAt
    <3>3. DataAt(v)' /\ TasksAt(v)' /\ ResultAt(v)'
      BY <3>1 DEF Local, Same, DataAt, TasksAt, TasksLen, ResultAt
    <3> QED BY <3>2, <3>3 DEF Local
  <2> QED BY <2>2, <2>3, <2>4 DEF UploadsInv
<1>2. CASE UNCHANGED vars
  <2>1. AreFunctions' /\ \A v \in Uploads : Same(v)
    BY <1>2 DEF vars, callerVars, linkVars, workVars, partVars, storeVars, UploadsInv,
                AreFunctions, Same
  <2>2. ASSUME NEW v \in Uploads PROVE Local(v)'
    <3>1. Local(v) /\ Same(v)
      BY <2>1 DEF UploadsInv
    <3>2. ControlTypes(v)' /\ ControlAt(v)' /\ MultipartAt(v)' /\ QuietAt(v)' /\ ObjectAt(v)'
      BY <3>1 DEF Local, Same, ControlTypes, ControlAt, MultipartAt, QuietAt, ObjectAt
    <3>3. DataAt(v)' /\ TasksAt(v)' /\ ResultAt(v)'
      BY <3>1 DEF Local, Same, DataAt, TasksAt, TasksLen, ResultAt
    <3> QED BY <3>2, <3>3 DEF Local
  <2> QED BY <2>1, <2>2 DEF UploadsInv
<1> QED BY <1>1, <1>2 DEF Next, Step

(* An upload that was only created satisfies every part of the invariant. *)
LEMMA UploadsInit == Init => UploadsInv
<1> SUFFICES ASSUME Init PROVE UploadsInv
  OBVIOUS
<1>1. AreFunctions
  BY DEF Init, AreFunctions
<1>2. ASSUME NEW u \in Uploads PROVE Local(u)
  <2>1. /\ writer[u] = "none" /\ caller[u] = "holding" /\ report[u] = "none"
        /\ terminal[u] = "unsent" /\ cancelled[u] = FALSE /\ pc[u] = "idle"
        /\ stage[u] = "select" /\ result[u] = "none" /\ multipart[u] = "none"
        /\ object[u] = NoObject
    BY DEF Init
  <2>2. /\ flying[u] = {} /\ landed[u] = 0 /\ broken[u] = 0 /\ started[u] = 0
        /\ sent[u] = 0 /\ chan[u] = <<>> /\ buffer[u] = <<>> /\ bytes[u] = <<>>
        /\ partial[u] = <<>> /\ handed[u] = <<>>
    BY DEF Init
  <2>3. ControlTypes(u) /\ ControlAt(u) /\ MultipartAt(u) /\ QuietAt(u) /\ ObjectAt(u)
        /\ ResultAt(u)
    BY <2>1, <2>2 DEF ControlTypes, Locations, Results, ControlAt, MultipartAt, QuietAt,
                      ObjectAt, ResultAt
  <2>4. DataAt(u)
    BY <2>1, <2>2, EmptySeq, UploadAssumption DEF DataAt, ChannelSlots
  <2>5. TasksAt(u)
    BY <2>1, <2>2, FS_EmptySet, UploadAssumption DEF TasksAt, TasksLen
  <2> QED BY <2>3, <2>4, <2>5 DEF Local
<1> QED BY <1>1, <1>2 DEF UploadsInv

-----------------------------------------------------------------------------
(* Permits                                                                  *)

(* The permits: those that are free, those of the part requests in flight, and
   those of the workers that hold one for a part are all there are. *)
PermitInv ==
  /\ permits \in Nat
  /\ IsFiniteSet(InFlight) /\ IsFiniteSet(Starting)
  /\ permits + Cardinality(InFlight) + Cardinality(Starting) = MaxParts

(* A step that is not about permits. *)
Still(u) ==
  /\ UNCHANGED <<flying, permits>>
  /\ pc'[u] \in {"granted", "spawn"} <=> pc[u] \in {"granted", "spawn"}

Permitted(u) ==
  \/ AcquirePermit(u) \/ WatchToken(u) \/ SpawnPart(u)
  \/ \E p \in flying[u] : PartLands(u, p) \/ PartKilled(u, p)

(* Only five actions move permits. *)
LEMMA StillOrPermitted ==
  ASSUME Domains, NEW u \in Uploads, Local(u), Step(u)
  PROVE  Still(u) \/ Permitted(u)
<1> USE DEF callerVars, linkVars, workVars, partVars, storeVars, Goto, Cleanup,
          Complete, AbandonIdle, Cancel, DropDirectWriter, SendTerminal, Write,
          AwaitAtEnd, JoinOk, JoinErr, ReportCleanup, Acquire, Release, Holding,
          ControlAt, ControlTypes, Local, Domains, Still
<1>1. ASSUME StartWorker(u) PROVE Still(u) \/ Permitted(u)
  BY <1>1 DEF StartWorker
<1>2. ASSUME Send(u) PROVE Still(u) \/ Permitted(u)
  BY <1>2 DEF Send
<1>3. ASSUME CloseWriter(u) PROVE Still(u) \/ Permitted(u)
  BY <1>3 DEF CloseWriter
<1>4. ASSUME CallComplete(u) PROVE Still(u) \/ Permitted(u)
  BY <1>4 DEF CallComplete
<1>5. ASSUME AbortIdle(u) PROVE Still(u) \/ Permitted(u)
  BY <1>5 DEF AbortIdle
<1>6. ASSUME DropIdle(u) PROVE Still(u) \/ Permitted(u)
  BY <1>6 DEF DropIdle
<1>7. ASSUME CallAbort(u) PROVE Still(u) \/ Permitted(u)
  BY <1>7 DEF CallAbort
<1>8. ASSUME Drop(u) PROVE Still(u) \/ Permitted(u)
  BY <1>8 DEF Drop
<1>9. ASSUME SendAbort(u) PROVE Still(u) \/ Permitted(u)
  BY <1>9 DEF SendAbort
<1>10. ASSUME Return(u) PROVE Still(u) \/ Permitted(u)
  BY <1>10 DEF Return
<1>11. ASSUME Forget(u) PROVE Still(u) \/ Permitted(u)
  BY <1>11 DEF Forget
<1>12. ASSUME SelectTerminal(u) PROVE Still(u) \/ Permitted(u)
  BY <1>12 DEF SelectTerminal
<1>13. ASSUME SelectChunk(u) PROVE Still(u) \/ Permitted(u)
  BY <1>13 DEF SelectChunk
<1>14. ASSUME SelectEnd(u) PROVE Still(u) \/ Permitted(u)
  BY <1>14 DEF SelectEnd
<1>15. ASSUME AwaitTerminal(u) PROVE Still(u) \/ Permitted(u)
  BY <1>15 DEF AwaitTerminal
<1>16. ASSUME DrainChunk(u) PROVE Still(u) \/ Permitted(u)
  BY <1>16 DEF DrainChunk
<1>17. ASSUME DrainEnd(u) PROVE Still(u) \/ Permitted(u)
  BY <1>17 DEF DrainEnd
<1>18. ASSUME Fill(u) PROVE Still(u) \/ Permitted(u)
  BY <1>18 DEF Fill
<1>19. ASSUME StopWaiting(u) PROVE Still(u) \/ Permitted(u)
  BY <1>19 DEF StopWaiting
<1>20. ASSUME JoinOne(u) PROVE Still(u) \/ Permitted(u)
  BY <1>20 DEF JoinOne
<1>21. ASSUME AcquirePermit(u) PROVE Still(u) \/ Permitted(u)
  BY <1>21 DEF Permitted
<1>22. ASSUME WatchToken(u) PROVE Still(u) \/ Permitted(u)
  BY <1>22 DEF Permitted
<1>23. ASSUME SpawnPart(u) PROVE Still(u) \/ Permitted(u)
  BY <1>23 DEF Permitted
<1>24. ASSUME AllJoined(u) PROVE Still(u) \/ Permitted(u)
  BY <1>24 DEF AllJoined
<1>25. ASSUME ShutdownEnd(u) PROVE Still(u) \/ Permitted(u)
  BY <1>25 DEF ShutdownEnd
<1>26. ASSUME CreateMultipart(u) PROVE Still(u) \/ Permitted(u)
  BY <1>26 DEF CreateMultipart
<1>27. ASSUME StoreApplies(u) PROVE Still(u) \/ Permitted(u)
  BY <1>27 DEF StoreApplies
<1>28. ASSUME StoreAnswersOk(u) PROVE Still(u) \/ Permitted(u)
  BY <1>28 DEF StoreAnswersOk
<1>29. ASSUME StoreAnswersErr(u) PROVE Still(u) \/ Permitted(u)
  BY <1>29 DEF StoreAnswersErr
<1>30. ASSUME StoreDiscards(u) PROVE Still(u) \/ Permitted(u)
  BY <1>30 DEF StoreDiscards
<1>31. ASSUME AbortAnswered(u) PROVE Still(u) \/ Permitted(u)
  BY <1>31 DEF AbortAnswered
<1>32. ASSUME NEW p \in flying[u], PartLands(u, p) PROVE Still(u) \/ Permitted(u)
  BY <1>32 DEF Permitted
<1>33. ASSUME NEW p \in flying[u], PartKilled(u, p) PROVE Still(u) \/ Permitted(u)
  BY <1>33 DEF Permitted
<1> QED BY <1>1, <1>2, <1>3, <1>4, <1>5, <1>6, <1>7, <1>8, <1>9, <1>10, <1>11, <1>12,
          <1>13, <1>14, <1>15, <1>16, <1>17, <1>18, <1>19, <1>20, <1>21, <1>22, <1>23, <1>24,
          <1>25, <1>26, <1>27, <1>28, <1>29, <1>30, <1>31, <1>32, <1>33
       DEF Step, CallerStep, WorkerStep, StoreStep

(* No step loses or creates a permit: the five that move one give it to a
   worker, take it back, or trade it for a part in flight. *)
LEMMA PermitStep == UploadsInv /\ PermitInv /\ [Next]_vars => PermitInv'
<1> SUFFICES ASSUME UploadsInv, PermitInv, [Next]_vars PROVE PermitInv'
  OBVIOUS
<1>1. Domains /\ \A v \in Uploads : Local(v)
  BY DomainsOfFunctions DEF UploadsInv
<1>2. /\ permits \in Nat
      /\ IsFiniteSet(InFlight) /\ IsFiniteSet(Starting)
      /\ Cardinality(InFlight) \in Nat /\ Cardinality(Starting) \in Nat
      /\ permits + Cardinality(InFlight) + Cardinality(Starting) = MaxParts
  BY FS_CardinalityType DEF PermitInv
<1>3. ASSUME NEW u \in Uploads, Step(u), Still(u) PROVE PermitInv'
  <2>1. \A v \in Uploads : pc'[v] \in {"granted", "spawn"} <=> pc[v] \in {"granted", "spawn"}
    BY <1>1, <1>3, FramedOthers DEF Still, Same
  <2>2. InFlight' = InFlight /\ Starting' = Starting
    BY <1>3, <2>1 DEF Still, InFlight, Starting
  <2> QED BY <1>2, <1>3, <2>2 DEF Still, PermitInv
<1>4. ASSUME NEW u \in Uploads, Step(u), AcquirePermit(u) PROVE PermitInv'
  <2>1. /\ permits > 0 /\ permits' = permits - 1 /\ UNCHANGED flying
        /\ pc[u] = "part" /\ pc' = [pc EXCEPT ![u] = "granted"]
    BY <1>4 DEF AcquirePermit, Acquire, Goto
  <2>2. InFlight' = InFlight
    BY <2>1 DEF InFlight
  <2>3. Starting' = Starting \cup {u} /\ u \notin Starting
    BY <1>1, <2>1 DEF Starting, Domains
  <2>4. /\ IsFiniteSet(Starting \cup {u})
        /\ Cardinality(Starting \cup {u}) = Cardinality(Starting) + 1
    BY <1>2, <2>3, FS_AddElement
  <2> QED BY <1>2, <2>1, <2>2, <2>3, <2>4 DEF PermitInv
<1>5. ASSUME NEW u \in Uploads, Step(u), SpawnPart(u) PROVE PermitInv'
  <2> DEFINE part == <<u, started[u] + 1>>
  <2>1. /\ pc[u] = "spawn" /\ pc'[u] \notin {"granted", "spawn"} /\ UNCHANGED permits
        /\ flying' = [flying EXCEPT ![u] = @ \cup {started[u] + 1}]
    BY <1>1, <1>5 DEF SpawnPart, Goto, Domains, Local, ControlTypes
  <2>2. \A v \in Uploads \ {u} : pc'[v] = pc[v]
    BY <1>1, <1>5, FramedOthers DEF Same
  <2>3. Starting' = Starting \ {u} /\ u \in Starting
    BY <2>1, <2>2 DEF Starting
  <2>4. started[u] + 1 \notin flying[u]
    BY <1>1, TasksCounted DEF Local
  <2>5. InFlight' = InFlight \cup {part} /\ part \notin InFlight
    BY <1>1, <2>1, <2>4 DEF InFlight, Domains
  <2>6. /\ IsFiniteSet(Starting \ {u})
        /\ Cardinality(Starting \ {u}) = Cardinality(Starting) - 1
    BY <1>2, <2>3, FS_RemoveElement
  <2>7. /\ IsFiniteSet(InFlight \cup {part})
        /\ Cardinality(InFlight \cup {part}) = Cardinality(InFlight) + 1
    BY <1>2, <2>5, FS_AddElement
  <2> QED BY <1>2, <2>1, <2>3, <2>5, <2>6, <2>7 DEF PermitInv
<1>6. ASSUME NEW u \in Uploads, NEW p \in flying[u], Step(u), PartLands(u, p) \/ PartKilled(u, p)
      PROVE  PermitInv'
  <2>1. /\ UNCHANGED pc /\ permits' = permits + 1
        /\ flying' = [flying EXCEPT ![u] = @ \ {p}]
    BY <1>6 DEF PartLands, PartKilled, Release, workVars
  <2>2. Starting' = Starting
    BY <2>1 DEF Starting
  <2>3. InFlight' = InFlight \ {<<u, p>>} /\ <<u, p>> \in InFlight
    BY <1>1, <2>1 DEF InFlight, Domains
  <2>4. /\ IsFiniteSet(InFlight \ {<<u, p>>})
        /\ Cardinality(InFlight \ {<<u, p>>}) = Cardinality(InFlight) - 1
    BY <1>2, <2>3, FS_RemoveElement
  <2> QED BY <1>2, <2>1, <2>2, <2>3, <2>4 DEF PermitInv
<1>7. ASSUME NEW u \in Uploads, Step(u), WatchToken(u) PROVE PermitInv'
  <2>1. pc[u] = "granted" /\ UNCHANGED flying
    BY <1>7 DEF WatchToken
  <2>2. InFlight' = InFlight /\ u \in Starting
    BY <2>1 DEF InFlight, Starting
  <2>3. CASE SeesCancel(u)
    <3>1. permits' = permits + 1 /\ pc'[u] \notin {"granted", "spawn"}
      BY <1>1, <1>7, <2>3 DEF WatchToken, Release, Cleanup, Goto, Domains
    <3>2. \A v \in Uploads \ {u} : pc'[v] = pc[v]
      BY <1>1, <1>7, FramedOthers DEF Same
    <3>3. Starting' = Starting \ {u}
      BY <3>1, <3>2 DEF Starting
    <3>4. /\ IsFiniteSet(Starting \ {u})
          /\ Cardinality(Starting \ {u}) = Cardinality(Starting) - 1
      BY <1>2, <2>2, FS_RemoveElement
    <3> QED BY <1>2, <2>2, <3>1, <3>3, <3>4 DEF PermitInv
  <2>4. CASE ~SeesCancel(u)
    <3>1. pc' = [pc EXCEPT ![u] = "spawn"] /\ UNCHANGED permits
      BY <1>7, <2>4 DEF WatchToken, Goto
    <3>2. Starting' = Starting
      BY <1>1, <2>1, <3>1 DEF Starting, Domains
    <3> QED BY <1>2, <2>2, <3>1, <3>2 DEF PermitInv
  <2> QED BY <2>3, <2>4
<1>8. CASE UNCHANGED vars
  <2>1. UNCHANGED <<pc, flying, permits>>
    BY <1>8 DEF vars, workVars, partVars
  <2>2. InFlight' = InFlight /\ Starting' = Starting
    BY <2>1 DEF InFlight, Starting
  <2> QED BY <2>1, <2>2 DEF PermitInv
<1>9. ASSUME NEW u \in Uploads, Step(u) PROVE PermitInv'
  <2>1. Still(u) \/ Permitted(u)
    BY <1>1, <1>9, StillOrPermitted
  <2> QED BY <1>3, <1>4, <1>5, <1>6, <1>7, <1>9, <2>1 DEF Permitted
<1> QED BY <1>8, <1>9 DEF Next, Step

(* At first every permit of the command is free. *)
LEMMA PermitInit == Init => PermitInv
<1> SUFFICES ASSUME Init PROVE PermitInv
  OBVIOUS
<1>1. InFlight = {} /\ Starting = {}
  BY DEF Init, InFlight, Starting
<1>2. permits = MaxParts /\ MaxParts \in Nat
  BY UploadAssumption DEF Init
<1> QED BY <1>1, <1>2, FS_EmptySet DEF PermitInv

-----------------------------------------------------------------------------
(* Theorems                                                                 *)

(* The inductive invariant of run_upload and of the permits its uploads share. *)
UploadInv == UploadsInv /\ PermitInv

(* Nothing the callers, the workers, the part tasks or the store do breaks it. *)
THEOREM Invariance == Spec => []UploadInv
<1>1. Init => UploadInv
  BY UploadsInit, PermitInit DEF UploadInv
<1>2. UploadInv /\ [Next]_vars => UploadInv'
  BY UploadsStep, PermitStep DEF UploadInv
<1> QED BY <1>1, <1>2, PTL DEF Spec

(* The invariant gives every variable its type; the count of the permits, which
   equals MaxParts with the parts that hold one, cannot be negative. *)
LEMMA TypesFollow == UploadInv => TypeOK
<1> SUFFICES ASSUME UploadInv PROVE TypeOK
  OBVIOUS
<1>1. AreFunctions /\ (\A u \in Uploads : Local(u)) /\ permits \in Nat
  BY DEF UploadInv, UploadsInv, PermitInv
<1>2. \A u \in Uploads : ControlTypes(u)
  BY <1>1 DEF Local
<1>3. \A u \in Uploads : DataAt(u) /\ TasksAt(u)
  BY <1>1 DEF Local
<1>4. writer \in [Uploads -> {"none", "open", "closed"}]
  BY <1>1, <1>2 DEF AreFunctions, ControlTypes
<1>5. caller \in [Uploads -> {"holding", "completing", "cancelling", "dropping", "aborting",
                           "gone", "returned"}]
  BY <1>1, <1>2 DEF AreFunctions, ControlTypes
<1>6. report \in [Uploads -> {"none", "ok", "err"}]
  BY <1>1, <1>2 DEF AreFunctions, ControlTypes
<1>7. sent \in [Uploads -> Nat]
  BY <1>1, <1>3 DEF AreFunctions, DataAt, TasksAt
<1>8. chan \in [Uploads -> Seq(Seq(Nat))]
  BY <1>1, <1>3 DEF AreFunctions, DataAt, TasksAt
<1>9. terminal \in [Uploads -> {"unsent", "Complete", "Abort"}]
  BY <1>1, <1>2 DEF AreFunctions, ControlTypes
<1>10. cancelled \in [Uploads -> BOOLEAN]
  BY <1>1, <1>2 DEF AreFunctions, ControlTypes
<1>11. pc \in [Uploads -> Locations]
  BY <1>1, <1>2 DEF AreFunctions, ControlTypes
<1>12. stage \in [Uploads -> {"select", "drain", "join"}]
  BY <1>1, <1>2 DEF AreFunctions, ControlTypes
<1>13. buffer \in [Uploads -> Seq(Nat)]
  BY <1>1, <1>3 DEF AreFunctions, DataAt, TasksAt
<1>14. bytes \in [Uploads -> Seq(Nat)]
  BY <1>1, <1>3 DEF AreFunctions, DataAt, TasksAt
<1>15. partial \in [Uploads -> Seq(Nat)]
  BY <1>1, <1>3 DEF AreFunctions, DataAt, TasksAt
<1>16. result \in [Uploads -> Results]
  BY <1>1, <1>2 DEF AreFunctions, ControlTypes
<1>17. flying \in [Uploads -> SUBSET Nat]
  BY <1>1, <1>3 DEF AreFunctions, DataAt, TasksAt
<1>18. landed \in [Uploads -> Nat]
  BY <1>1, <1>3 DEF AreFunctions, DataAt, TasksAt
<1>19. broken \in [Uploads -> Nat]
  BY <1>1, <1>3 DEF AreFunctions, DataAt, TasksAt
<1>20. started \in [Uploads -> Nat]
  BY <1>1, <1>3 DEF AreFunctions, DataAt, TasksAt
<1>21. handed \in [Uploads -> Seq(Nat)]
  BY <1>1, <1>3 DEF AreFunctions, DataAt, TasksAt
<1>22. multipart \in [Uploads -> {"none", "open", "completed", "aborted"}]
  BY <1>1, <1>2 DEF AreFunctions, ControlTypes
<1>23. object \in [Uploads -> Seq(Nat) \cup {NoObject}]
  BY <1>1, <1>3 DEF AreFunctions, DataAt, TasksAt
<1> QED BY <1>1, <1>4, <1>5, <1>6, <1>7, <1>8, <1>9, <1>10, <1>11, <1>12, <1>13, <1>14,
          <1>15, <1>16, <1>17, <1>18, <1>19, <1>20, <1>21, <1>22, <1>23 DEF TypeOK

(* Every variable of upload.rs's model keeps its type; in particular the free
   permits of the command-wide semaphore never become negative. *)
THEOREM TypesHold == Spec => []TypeOK
BY Invariance, TypesFollow, PTL

(* upload.rs keeps to its memory bound: a chunk is buffered only below the part
   size, and a full part leaves the partial buffer before the next one. *)
THEOREM MemoryIsBounded == Spec => []MemoryBound
<1>1. UploadInv => MemoryBound
  BY DEF UploadInv, UploadsInv, Local, DataAt, MemoryBound
<1> QED BY <1>1, Invariance, PTL

(* The part permits of the command: acquired before a part is spawned and
   returned when its task ends, by itself or in JoinSet::shutdown. *)
THEOREM PermitsAreConserved == Spec => []PermitsConserved
<1>1. UploadInv => PermitsConserved
  <2>1. UploadsInv => \A u \in Uploads : TasksLen(u) <= MaxParts
    BY DEF UploadsInv, Local, TasksAt
  <2> QED BY <2>1 DEF UploadInv, PermitInv, PermitsConserved
<1> QED BY <1>1, Invariance, PTL

(* MultipartState::complete joins every task before it completes the multipart
   upload, and abort_multipart shuts them down before it aborts it. *)
THEOREM StoreIsQuiet == Spec => []QuietStore
<1>1. UploadInv => QuietStore
  BY DEF UploadInv, UploadsInv, Local, QuietAt, QuietStore
<1> QED BY <1>1, Invariance, PTL

(* What complete and abort return agrees with what the store shows. *)
THEOREM ReportsMatch == Spec => []ReportMatchesStore
<1>1. UploadInv => ReportMatchesStore
  BY DEF UploadInv, UploadsInv, Local, ResultAt, ReportMatchesStore
<1> QED BY <1>1, Invariance, PTL

(* A step of u that starts no part, reaches no start and acquires no permit. *)
NoPart(u) ==
  /\ pc'[u] # "spawn" /\ started'[u] = started[u]
  /\ pc'[u] = "granted" => pc[u] = "granted"

(* An upload whose token is set starts no part, unless its worker has looked at
   the token for the last time. *)
LEMMA CancelStep ==
  ASSUME Domains, NEW u \in Uploads, Local(u), Step(u), cancelled[u], pc[u] # "spawn"
  PROVE  NoPart(u)
<1> USE DEF callerVars, linkVars, workVars, partVars, storeVars, Goto, Cleanup,
          Complete, AbandonIdle, Cancel, DropDirectWriter, SendTerminal, Write,
          AwaitAtEnd, JoinOk, JoinErr, ReportCleanup, Acquire, Release, Holding,
          SeesCancel, ControlAt, ControlTypes, Local, Domains, NoPart
<1>1. ASSUME StartWorker(u) PROVE NoPart(u)
  BY <1>1 DEF StartWorker
<1>2. ASSUME Send(u) PROVE NoPart(u)
  BY <1>2 DEF Send
<1>3. ASSUME CloseWriter(u) PROVE NoPart(u)
  BY <1>3 DEF CloseWriter
<1>4. ASSUME CallComplete(u) PROVE NoPart(u)
  BY <1>4 DEF CallComplete
<1>5. ASSUME AbortIdle(u) PROVE NoPart(u)
  BY <1>5 DEF AbortIdle
<1>6. ASSUME DropIdle(u) PROVE NoPart(u)
  BY <1>6 DEF DropIdle
<1>7. ASSUME CallAbort(u) PROVE NoPart(u)
  BY <1>7 DEF CallAbort
<1>8. ASSUME Drop(u) PROVE NoPart(u)
  BY <1>8 DEF Drop
<1>9. ASSUME SendAbort(u) PROVE NoPart(u)
  BY <1>9 DEF SendAbort
<1>10. ASSUME Return(u) PROVE NoPart(u)
  BY <1>10 DEF Return
<1>11. ASSUME Forget(u) PROVE NoPart(u)
  BY <1>11 DEF Forget
<1>12. ASSUME SelectTerminal(u) PROVE NoPart(u)
  BY <1>12 DEF SelectTerminal
<1>13. ASSUME SelectChunk(u) PROVE NoPart(u)
  BY <1>13 DEF SelectChunk
<1>14. ASSUME SelectEnd(u) PROVE NoPart(u)
  BY <1>14 DEF SelectEnd
<1>15. ASSUME AwaitTerminal(u) PROVE NoPart(u)
  BY <1>15 DEF AwaitTerminal
<1>16. ASSUME DrainChunk(u) PROVE NoPart(u)
  BY <1>16 DEF DrainChunk
<1>17. ASSUME DrainEnd(u) PROVE NoPart(u)
  BY <1>17 DEF DrainEnd
<1>18. ASSUME Fill(u) PROVE NoPart(u)
  BY <1>18 DEF Fill
<1>19. ASSUME StopWaiting(u) PROVE NoPart(u)
  BY <1>19 DEF StopWaiting
<1>20. ASSUME JoinOne(u) PROVE NoPart(u)
  BY <1>20 DEF JoinOne
<1>21. ASSUME AcquirePermit(u) PROVE NoPart(u)
  BY <1>21 DEF AcquirePermit
<1>22. ASSUME WatchToken(u) PROVE NoPart(u)
  BY <1>22 DEF WatchToken
<1>23. ASSUME SpawnPart(u) PROVE NoPart(u)
  BY <1>23 DEF SpawnPart
<1>24. ASSUME AllJoined(u) PROVE NoPart(u)
  BY <1>24 DEF AllJoined
<1>25. ASSUME ShutdownEnd(u) PROVE NoPart(u)
  BY <1>25 DEF ShutdownEnd
<1>26. ASSUME CreateMultipart(u) PROVE NoPart(u)
  BY <1>26 DEF CreateMultipart
<1>27. ASSUME StoreApplies(u) PROVE NoPart(u)
  BY <1>27 DEF StoreApplies
<1>28. ASSUME StoreAnswersOk(u) PROVE NoPart(u)
  BY <1>28 DEF StoreAnswersOk
<1>29. ASSUME StoreAnswersErr(u) PROVE NoPart(u)
  BY <1>29 DEF StoreAnswersErr
<1>30. ASSUME StoreDiscards(u) PROVE NoPart(u)
  BY <1>30 DEF StoreDiscards
<1>31. ASSUME AbortAnswered(u) PROVE NoPart(u)
  BY <1>31 DEF AbortAnswered
<1>32. ASSUME NEW p \in flying[u], PartLands(u, p) PROVE NoPart(u)
  BY <1>32 DEF PartLands
<1>33. ASSUME NEW p \in flying[u], PartKilled(u, p) PROVE NoPart(u)
  BY <1>33 DEF PartKilled
<1> QED BY <1>1, <1>2, <1>3, <1>4, <1>5, <1>6, <1>7, <1>8, <1>9, <1>10, <1>11, <1>12,
          <1>13, <1>14, <1>15, <1>16, <1>17, <1>18, <1>19, <1>20, <1>21, <1>22, <1>23, <1>24,
          <1>25, <1>26, <1>27, <1>28, <1>29, <1>30, <1>31, <1>32, <1>33
       DEF Step, CallerStep, WorkerStep, StoreStep

(* start_part_or_cancel watches the token, and start_part, which does not, runs
   only where the token cannot have been set. *)
THEOREM NoPartIsStarted == Spec => NoPartAfterCancel
<1> DEFINE Kept == \A u \in Uploads : cancelled[u] /\ pc[u] # "spawn" => NoPart(u)
<1>1. UploadInv /\ [Next]_vars => Kept
  <2> SUFFICES ASSUME UploadInv, [Next]_vars, NEW u \in Uploads, cancelled[u], pc[u] # "spawn"
               PROVE  NoPart(u)
    BY Zenon
  <2>1. Domains /\ Local(u)
    BY DomainsOfFunctions DEF UploadInv, UploadsInv
  <2>2. CASE Step(u)
    BY <2>1, <2>2, CancelStep
  <2>3. ASSUME NEW v \in Uploads, v # u, Step(v)
        PROVE  NoPart(u)
    <3>1. Same(u)
      BY <2>1, <2>3, FramedOthers
    <3> QED BY <3>1 DEF Same, NoPart
  <2>4. CASE UNCHANGED vars
    BY <2>4 DEF vars, workVars, partVars, NoPart
  <2> QED BY <2>2, <2>3, <2>4 DEF Next, Step
<1>2. UploadInv /\ [Next]_vars => [Kept]_vars
  BY <1>1
<1> QED BY <1>2, Invariance, PTL DEF Spec, NoPartAfterCancel, NoPart

-----------------------------------------------------------------------------
(* The size of the parts                                                    *)

(* The worker stands between a part that is made and its request. *)
Making(u) == pc[u] \in {"part", "granted", "spawn"}

(* What was handed over before the tail are full parts, and so is the part that is
   being made, which is not empty; the tail is not empty and no longer than a part. *)
FullAt(u) ==
  /\ stage[u] # "join" \/ Making(u) => Len(handed[u]) = started[u] * PartSize
  /\ Making(u) => partial[u] # <<>>
  /\ Making(u) /\ stage[u] # "join" => Len(partial[u]) = PartSize
  /\ stage[u] = "join" =>
       \/ Len(handed[u]) = started[u] * PartSize
       \/ /\ started[u] > 0
          /\ Len(handed[u]) \in
               (started[u] * PartSize - PartSize + 1)..(started[u] * PartSize)

(* One part more. *)
LEMMA PartMore ==
  ASSUME NEW n \in Nat, NEW s \in Nat
  PROVE  (n + 1) * s = n * s + s /\ n + 1 > 0 /\ n * s \in Nat
OBVIOUS

(* The bytes of a shorter part. *)
LEMMA TailBound ==
  ASSUME NEW a \in Nat, NEW s \in Nat, NEW k \in 1..s
  PROVE  a + k \in ((a + s) - s + 1)..(a + s)
OBVIOUS

(* MultipartState::write starts a part only when the partial buffer holds exactly a
   part, and only complete starts one that may be shorter. *)
LEMMA FullStep ==
  ASSUME Domains, NEW u \in Uploads, Local(u), FullAt(u), Step(u)
  PROVE  FullAt(u)'
<1> USE DEF callerVars, linkVars, workVars, partVars, storeVars, Goto, Cleanup,
          Complete, AbandonIdle, Cancel, DropDirectWriter, SendTerminal, Write,
          AwaitAtEnd, JoinOk, JoinErr, ReportCleanup, Acquire, Release, Holding,
          SeesCancel, Making, FullAt, Domains, Local, ControlTypes, ControlAt
<1>1. ASSUME StartWorker(u) PROVE FullAt(u)'
  BY <1>1 DEF StartWorker
<1>2. ASSUME Send(u) PROVE FullAt(u)'
  BY <1>2 DEF Send
<1>3. ASSUME CloseWriter(u) PROVE FullAt(u)'
  BY <1>3 DEF CloseWriter
<1>4. ASSUME CallComplete(u) PROVE FullAt(u)'
  BY <1>4 DEF CallComplete
<1>5. ASSUME AbortIdle(u) PROVE FullAt(u)'
  BY <1>5 DEF AbortIdle
<1>6. ASSUME DropIdle(u) PROVE FullAt(u)'
  BY <1>6 DEF DropIdle
<1>7. ASSUME CallAbort(u) PROVE FullAt(u)'
  BY <1>7 DEF CallAbort
<1>8. ASSUME Drop(u) PROVE FullAt(u)'
  BY <1>8 DEF Drop
<1>9. ASSUME SendAbort(u) PROVE FullAt(u)'
  BY <1>9 DEF SendAbort
<1>10. ASSUME Return(u) PROVE FullAt(u)'
  BY <1>10 DEF Return
<1>11. ASSUME Forget(u) PROVE FullAt(u)'
  BY <1>11 DEF Forget
<1>12. ASSUME SelectTerminal(u) PROVE FullAt(u)'
  BY <1>12 DEF SelectTerminal
<1>13. ASSUME SelectChunk(u) PROVE FullAt(u)'
  BY <1>13 DEF SelectChunk
<1>14. ASSUME SelectEnd(u) PROVE FullAt(u)'
  BY <1>14 DEF SelectEnd
<1>15. ASSUME AwaitTerminal(u) PROVE FullAt(u)'
  BY <1>15 DEF AwaitTerminal
<1>16. ASSUME DrainChunk(u) PROVE FullAt(u)'
  BY <1>16 DEF DrainChunk
<1>17. ASSUME DrainEnd(u) PROVE FullAt(u)'
  BY <1>17 DEF DrainEnd
<1>18. ASSUME Fill(u) PROVE FullAt(u)'
  <2>1. CASE cancelled[u]
    BY <1>18, <2>1 DEF Fill
  <2>2. CASE ~cancelled[u] /\ ~Fills(u)
    BY <1>18, <2>2 DEF Fill
  <2>3. CASE ~cancelled[u] /\ Fills(u)
    <3> DEFINE n == Fits(u)
    <3>1. bytes[u] \in Seq(Nat) /\ partial[u] \in Seq(Nat) /\ Len(partial[u]) <= PartSize
      BY DEF DataAt
    <3>2. n \in 0..Len(bytes[u]) /\ n = PartSize - Len(partial[u])
      <4>1. /\ Len(bytes[u]) \in Nat /\ Len(partial[u]) \in 0..PartSize
            /\ PartSize \in Nat
        BY <3>1, LenProperties, UploadAssumption
      <4>2. n = IF Len(bytes[u]) < PartSize - Len(partial[u])
                THEN Len(bytes[u]) ELSE PartSize - Len(partial[u])
        BY DEF Fits
      <4>3. n = PartSize - Len(partial[u])
        BY <2>3 DEF Fills
      <4> HIDE DEF n
      <4>4. n \in 0..Len(bytes[u])
        BY <4>1, <4>2, FitsBound
      <4> QED BY <4>3, <4>4
    <3>3. /\ partial'[u] = partial[u] \o SubSeq(bytes[u], 1, n)
          /\ pc'[u] = "part" /\ stage'[u] = stage[u] /\ stage[u] # "join"
          /\ handed'[u] = handed[u] /\ started'[u] = started[u]
      BY <1>18, <2>3 DEF Fill
    <3> HIDE DEF n
    <3>4. SubSeq(bytes[u], 1, n) \in Seq(Nat) /\ Len(SubSeq(bytes[u], 1, n)) = n
      BY <3>1, <3>2, SplitType
    <3>5. partial'[u] \in Seq(Nat) /\ Len(partial'[u]) = Len(partial[u]) + n
      BY <3>1, <3>3, <3>4, ConcatType
    <3>6. Len(partial[u]) \in Nat /\ PartSize \in Nat /\ PartSize # 0
      BY <3>1, LenProperties, UploadAssumption
    <3>7. Len(partial'[u]) = PartSize
      BY <3>2, <3>5, <3>6
    <3>8. partial'[u] # <<>>
      BY <3>5, <3>6, <3>7, EmptySeq
    <3> QED BY <3>3, <3>7, <3>8
  <2> QED BY <2>1, <2>2, <2>3
<1>19. ASSUME StopWaiting(u) PROVE FullAt(u)'
  BY <1>19 DEF StopWaiting
<1>20. ASSUME JoinOne(u) PROVE FullAt(u)'
  BY <1>20 DEF JoinOne
<1>21. ASSUME AcquirePermit(u) PROVE FullAt(u)'
  BY <1>21 DEF AcquirePermit
<1>22. ASSUME WatchToken(u) PROVE FullAt(u)'
  BY <1>22 DEF WatchToken
<1>23. ASSUME SpawnPart(u) PROVE FullAt(u)'
  <2>1. /\ handed'[u] = handed[u] \o partial[u] /\ started'[u] = started[u] + 1
        /\ pc'[u] \in {"joinall", "select", "drain", "fill"} /\ stage'[u] = stage[u]
    BY <1>23 DEF SpawnPart
  <2>2. /\ Len(handed[u]) = started[u] * PartSize /\ partial[u] # <<>>
        /\ stage[u] # "join" => Len(partial[u]) = PartSize
    BY <1>23 DEF SpawnPart
  <2>3. /\ started[u] \in Nat /\ PartSize \in Nat
        /\ handed[u] \in Seq(Nat) /\ partial[u] \in Seq(Nat) /\ Len(partial[u]) <= PartSize
    BY UploadAssumption DEF DataAt, TasksAt
  <2>4. Len(handed'[u]) = Len(handed[u]) + Len(partial[u])
    BY <2>1, <2>3, ConcatType
  <2>5. Len(partial[u]) \in 1..PartSize
    <3>1. Len(partial[u]) \in Nat /\ Len(partial[u]) # 0
      BY <2>2, <2>3, LenProperties, EmptySeq
    <3> QED BY <2>3, <3>1
  <2>6. /\ (started[u] + 1) * PartSize = started[u] * PartSize + PartSize
        /\ started[u] + 1 > 0
        /\ started[u] * PartSize + Len(partial[u]) \in
             ((started[u] + 1) * PartSize - PartSize + 1)..((started[u] + 1) * PartSize)
    <3>1. /\ (started[u] + 1) * PartSize = started[u] * PartSize + PartSize
          /\ started[u] + 1 > 0 /\ started[u] * PartSize \in Nat
      BY <2>3, PartMore
    <3>2. started[u] * PartSize + Len(partial[u]) \in
            ((started[u] * PartSize + PartSize) - PartSize + 1)..(started[u] * PartSize + PartSize)
      BY <2>3, <2>5, <3>1, TailBound
    <3> QED BY <3>1, <3>2
  <2> QED BY <2>1, <2>2, <2>4, <2>6
<1>24. ASSUME AllJoined(u) PROVE FullAt(u)'
  BY <1>24 DEF AllJoined
<1>25. ASSUME ShutdownEnd(u) PROVE FullAt(u)'
  BY <1>25 DEF ShutdownEnd
<1>26. ASSUME CreateMultipart(u) PROVE FullAt(u)'
  BY <1>26 DEF CreateMultipart
<1>27. ASSUME StoreApplies(u) PROVE FullAt(u)'
  BY <1>27 DEF StoreApplies
<1>28. ASSUME StoreAnswersOk(u) PROVE FullAt(u)'
  BY <1>28 DEF StoreAnswersOk
<1>29. ASSUME StoreAnswersErr(u) PROVE FullAt(u)'
  BY <1>29 DEF StoreAnswersErr
<1>30. ASSUME StoreDiscards(u) PROVE FullAt(u)'
  BY <1>30 DEF StoreDiscards
<1>31. ASSUME AbortAnswered(u) PROVE FullAt(u)'
  BY <1>31 DEF AbortAnswered
<1>32. ASSUME NEW p \in flying[u], PartLands(u, p) PROVE FullAt(u)'
  BY <1>32 DEF PartLands
<1>33. ASSUME NEW p \in flying[u], PartKilled(u, p) PROVE FullAt(u)'
  BY <1>33 DEF PartKilled
<1> QED BY <1>1, <1>2, <1>3, <1>4, <1>5, <1>6, <1>7, <1>8, <1>9, <1>10, <1>11, <1>12,
          <1>13, <1>14, <1>15, <1>16, <1>17, <1>18, <1>19, <1>20, <1>21, <1>22, <1>23, <1>24,
          <1>25, <1>26, <1>27, <1>28, <1>29, <1>30, <1>31, <1>32, <1>33
       DEF Step, CallerStep, WorkerStep, StoreStep

(* The size of what an upload has handed over, by the number of its parts. *)
LEMMA FullFollows ==
  ASSUME NEW u \in Uploads, Local(u), FullAt(u)
  PROVE  LET whole == started[u] * PartSize IN
         IF stage[u] = "join" /\ started[u] > 0
         THEN Len(handed[u]) \in (whole - PartSize + 1)..whole
         ELSE Len(handed[u]) = whole
<1>1. started[u] \in Nat /\ PartSize \in Nat /\ PartSize > 0 /\ started[u] * PartSize \in Nat
  <2>1. started[u] \in Nat /\ PartSize \in Nat /\ PartSize > 0
    BY UploadAssumption DEF Local, TasksAt
  <2> QED BY <2>1, PartMore
<1>2. ASSUME NEW w \in Nat PROVE w \in (w - PartSize + 1)..w
  BY <1>1
<1> QED BY <1>1, <1>2 DEF FullAt

(* Every part that upload.rs sends has the part size, but for the tail that complete
   sends, which is not empty: stores refuse other sizes. *)
THEOREM PartsHaveTheirSize == Spec => []PartsAreFull
<1> DEFINE FullInv == UploadInv /\ \A u \in Uploads : FullAt(u)
<1>1. Init => FullInv
  <2>1. ASSUME Init, NEW u \in Uploads PROVE FullAt(u)
    <3>1. /\ stage[u] = "select" /\ pc[u] = "idle" /\ handed[u] = <<>> /\ started[u] = 0
      BY <2>1 DEF Init
    <3>2. Len(<<>>) = 0 /\ 0 * PartSize = 0
      BY EmptySeq, UploadAssumption
    <3> QED BY <3>1, <3>2 DEF FullAt, Making
  <2> QED BY <2>1, UploadsInit, PermitInit DEF UploadInv
<1>2. FullInv /\ [Next]_vars => FullInv'
  <2> SUFFICES ASSUME FullInv, [Next]_vars PROVE FullInv'
    OBVIOUS
  <2>1. UploadInv'
    BY UploadsStep, PermitStep DEF UploadInv
  <2>2. ASSUME NEW v \in Uploads, FullAt(v), Same(v) PROVE FullAt(v)'
    BY <2>2 DEF FullAt, Making, Same
  <2>3. ASSUME NEW u \in Uploads, Step(u), NEW v \in Uploads PROVE FullAt(v)'
    <3>1. Domains /\ Local(u) /\ FullAt(u) /\ FullAt(v)
      BY DomainsOfFunctions DEF UploadInv, UploadsInv
    <3>2. CASE v = u
      BY <2>3, <3>1, <3>2, FullStep
    <3>3. CASE v # u
      BY <2>2, <2>3, <3>1, <3>3, FramedOthers
    <3> QED BY <3>2, <3>3
  <2>4. ASSUME UNCHANGED vars, NEW v \in Uploads PROVE FullAt(v)'
    <3>1. FullAt(v) /\ Same(v)
      BY <2>4 DEF Same, vars, callerVars, linkVars, workVars, partVars, storeVars
    <3> QED BY <2>2, <3>1
  <2> QED BY <2>1, <2>3, <2>4 DEF Next, Step
<1>3. FullInv => PartsAreFull
  BY FullFollows DEF PartsAreFull, UploadInv, UploadsInv
<1> QED BY <1>1, <1>2, <1>3, PTL DEF Spec

-----------------------------------------------------------------------------
(***************************************************************************)
(* ObjectUpload implements AtomicObject: the object of an upload appears   *)
(* in the store at once and whole, its bytes the ones the channel took,    *)
(* in their order, and only where its caller has decided to complete it.   *)
(*                                                                         *)
(* What this adds to the inductive invariant is where the bytes are: while *)
(* the worker may still publish, the parts handed to the store, the two    *)
(* buffers, what the current write holds and the chunks of the channel are *)
(* together the whole stream, in order.  Every step is then one step of    *)
(* AtomicObject, or a stutter.                                             *)
(***************************************************************************)

(* The bytes of the chunks in a channel. *)
Queued(q) ==
  CASE Len(q) = 0 -> <<>>
    [] Len(q) = 1 -> q[1]
    [] OTHER -> q[1] \o q[2]

(* All bytes of an upload, from the oldest to the youngest. *)
Joined(hd, pa, bu, by, q) == (((hd \o pa) \o bu) \o by) \o Queued(q)

(* The worker may still publish. *)
Live(u) == pc[u] \notin {"shutdown", "discard", "done"}

(* No byte is lost, repeated or out of its place. *)
Whole(u) ==
  Joined(handed[u], partial[u], buffer[u], bytes[u], chan[u]) = Bytes(1, sent[u])

(* Which of the buffers are empty where. *)
Emptied(u) ==
  /\ pc[u] \in {"idle", "await"} => chan[u] = <<>>
  /\ pc[u] \in {"idle", "select", "drain", "await"} => bytes[u] = <<>>
  /\ stage[u] = "join" => chan[u] = <<>> /\ bytes[u] = <<>>
  /\ pc[u] \in {"joinall", "finish"} => partial[u] = <<>>
  /\ multipart[u] = "none" => handed[u] = <<>> /\ partial[u] = <<>>
  /\ multipart[u] # "none" => buffer[u] = <<>>

Contents(u) == Live(u) => Whole(u) /\ Emptied(u)

ContentInv == UploadInv /\ \A u \in Uploads : Contents(u)

-----------------------------------------------------------------------------
(* Sequences                                                                *)

(* The length of a sequence. *)
LEMMA LengthOf ==
  ASSUME NEW S, NEW s \in Seq(S)
  PROVE  Len(s) \in Nat /\ (Len(s) = 0 <=> s = <<>>)
<1>1. Len(s) \in Nat
  BY LenProperties
<1>2. s # <<>> => Len(s) \in Nat \ {0}
  BY EmptySeq
<1>3. s = <<>> => Len(s) = 0
  BY EmptySeq
<1> QED BY <1>1, <1>2, <1>3

(* A channel of two slots holds no chunk, one, or two. *)
LEMMA UpToTwo ==
  ASSUME NEW n \in Nat
  PROVE  /\ n <= 2 => n = 0 \/ n = 1 \/ n = 2
         /\ n < 2 => n <= 2 /\ (n = 0 \/ n = 1)
         /\ 1 - 1 = 0 /\ 2 - 1 = 1 /\ 0 <= 2 /\ 1 <= 2
OBVIOUS

(* Concatenation of runs of bytes is associative. *)
LEMMA Associative ==
  ASSUME NEW s \in Seq(Nat), NEW t \in Seq(Nat), NEW w \in Seq(Nat)
  PROVE  (s \o t) \o w = s \o (t \o w)
BY ConcatAssociative, SMTT(40)

(* A run of bytes, by its length and elements. *)
LEMMA BytesAre ==
  ASSUME NEW lo \in Nat \ {0}, NEW n \in Nat
  PROVE  /\ Bytes(lo, lo + n - 1) \in Seq(Nat) /\ Len(Bytes(lo, lo + n - 1)) = n
         /\ \A i \in 1..n : Bytes(lo, lo + n - 1)[i] = lo + i - 1
<1>1. (lo + n - 1) - lo + 1 = n
  OBVIOUS
<1>2. Bytes(lo, lo + n - 1) = [i \in 1..n |-> lo + i - 1]
  BY <1>1 DEF Bytes
<1>3. \A i \in 1..n : lo + i - 1 \in Nat
  OBVIOUS
<1>4. Bytes(lo, lo + n - 1) \in Seq(Nat)
  BY <1>2, <1>3, IsASeq
<1>5. DOMAIN Bytes(lo, lo + n - 1) = 1..n
  BY <1>2
<1>6. Len(Bytes(lo, lo + n - 1)) = n
  BY <1>4, <1>5, LenProperties
<1> QED BY <1>2, <1>4, <1>6

(* The bytes of a chunk continue those that were sent before. *)
LEMMA BytesContinue ==
  ASSUME NEW n \in Nat, NEW m \in Nat
  PROVE  Bytes(1, n) \o Bytes(n + 1, n + m) = Bytes(1, n + m)
<1> DEFINE a == Bytes(1, n)
           b == Bytes(n + 1, n + m)
           c == Bytes(1, n + m)
<1>1. a \in Seq(Nat) /\ Len(a) = n /\ \A i \in 1..n : a[i] = i
  <2>1. 1 + n - 1 = n /\ \A i \in 1..n : 1 + i - 1 = i
    OBVIOUS
  <2>2. 1 \in Nat \ {0}
    OBVIOUS
  <2>3. /\ Bytes(1, 1 + n - 1) \in Seq(Nat) /\ Len(Bytes(1, 1 + n - 1)) = n
        /\ \A i \in 1..n : Bytes(1, 1 + n - 1)[i] = 1 + i - 1
    BY <2>2, BytesAre
  <2> QED BY <2>1, <2>3
<1>2. b \in Seq(Nat) /\ Len(b) = m /\ \A i \in 1..m : b[i] = n + i
  <2>1. (n + 1) + m - 1 = n + m /\ \A i \in 1..m : (n + 1) + i - 1 = n + i
    OBVIOUS
  <2>2. n + 1 \in Nat \ {0}
    OBVIOUS
  <2>3. /\ Bytes(n + 1, (n + 1) + m - 1) \in Seq(Nat)
        /\ Len(Bytes(n + 1, (n + 1) + m - 1)) = m
        /\ \A i \in 1..m : Bytes(n + 1, (n + 1) + m - 1)[i] = (n + 1) + i - 1
    BY <2>2, BytesAre
  <2> QED BY <2>1, <2>3
<1>3. c \in Seq(Nat) /\ Len(c) = n + m /\ \A i \in 1..(n + m) : c[i] = i
  <2>1. 1 + (n + m) - 1 = n + m /\ \A i \in 1..(n + m) : 1 + i - 1 = i
    OBVIOUS
  <2>2. 1 \in Nat \ {0} /\ n + m \in Nat
    OBVIOUS
  <2>3. /\ Bytes(1, 1 + (n + m) - 1) \in Seq(Nat) /\ Len(Bytes(1, 1 + (n + m) - 1)) = n + m
        /\ \A i \in 1..(n + m) : Bytes(1, 1 + (n + m) - 1)[i] = 1 + i - 1
    BY <2>2, BytesAre
  <2> QED BY <2>1, <2>3
<1> HIDE DEF a, b, c
<1>4. /\ a \o b \in Seq(Nat) /\ Len(a \o b) = n + m
      /\ \A i \in 1..(n + m) : (a \o b)[i] = IF i <= n THEN a[i] ELSE b[i - n]
  BY <1>1, <1>2, ConcatProperties
<1>5. ASSUME NEW i \in 1..(n + m) PROVE (a \o b)[i] = c[i]
  <2>1. CASE i <= n
    BY <1>1, <1>3, <1>4, <2>1
  <2>2. CASE ~(i <= n)
    <3>1. i - n \in 1..m /\ n + (i - n) = i
      BY <2>2
    <3> QED BY <1>2, <1>3, <1>4, <2>2, <3>1
  <2> QED BY <2>1, <2>2
<1>6. a \o b = c
  BY <1>3, <1>4, <1>5, SeqEqual
<1> QED BY <1>6 DEF a, b, c

(* The channel holds two chunks. *)
LEMMA QueuedType ==
  ASSUME NEW q \in Seq(Seq(Nat)), Len(q) <= ChannelSlots
  PROVE  Queued(q) \in Seq(Nat)
<1>1. Len(q) = 0 \/ Len(q) = 1 \/ Len(q) = 2
  <2>1. Len(q) \in Nat
    BY LengthOf
  <2> QED BY <2>1, UpToTwo DEF ChannelSlots
<1>2. CASE Len(q) = 0
  BY <1>2, EmptySeq DEF Queued
<1>3. CASE Len(q) = 1
  BY <1>3, ElementOfSeq DEF Queued
<1>4. CASE Len(q) = 2
  <2>1. q[1] \in Seq(Nat) /\ q[2] \in Seq(Nat)
    BY <1>4, ElementOfSeq
  <2> QED BY <1>4, <2>1, ConcatType DEF Queued
<1> QED BY <1>1, <1>2, <1>3, <1>4

(* An empty channel holds nothing. *)
LEMMA QueuedNothing == Queued(<<>>) = <<>>
BY DEF Queued

(* A chunk enters the channel behind the others ... *)
LEMMA QueuedAppend ==
  ASSUME NEW q \in Seq(Seq(Nat)), Len(q) < ChannelSlots, NEW s \in Seq(Nat)
  PROVE  Queued(Append(q, s)) = Queued(q) \o s
<1>1. Len(q) \in Nat /\ (Len(q) = 0 \/ Len(q) = 1)
  <2>1. Len(q) \in Nat
    BY LengthOf
  <2> QED BY <2>1, UpToTwo DEF ChannelSlots
<1> DEFINE r == Append(q, s)
<1>2. /\ Len(r) = Len(q) + 1 /\ r[Len(q) + 1] = s
      /\ \A i \in 1..Len(q) : r[i] = q[i]
  BY AppendProperties
<1> HIDE DEF r
<1>3. CASE Len(q) = 0
  <2>1. Len(r) = 1 /\ r[1] = s
    BY <1>2, <1>3
  <2>2. Queued(r) = s /\ Queued(q) = <<>>
    BY <1>3, <2>1 DEF Queued
  <2> QED BY <2>2, ConcatEmptySeq DEF r
<1>4. CASE Len(q) = 1
  <2>1. Len(r) = 2 /\ r[1] = q[1] /\ r[2] = s
    BY <1>2, <1>4
  <2>2. Queued(r) = q[1] \o s /\ Queued(q) = q[1]
    BY <1>4, <2>1 DEF Queued
  <2> QED BY <2>2 DEF r
<1> QED BY <1>1, <1>3, <1>4

(* ... and leaves it before them. *)
LEMMA QueuedHead ==
  ASSUME NEW q \in Seq(Seq(Nat)), Len(q) <= ChannelSlots, q # <<>>
  PROVE  /\ Head(q) \in Seq(Nat) /\ Tail(q) \in Seq(Seq(Nat))
         /\ Len(Tail(q)) <= ChannelSlots
         /\ Queued(q) = Head(q) \o Queued(Tail(q))
<1>1. Len(q) = 1 \/ Len(q) = 2
  <2>1. Len(q) \in Nat /\ Len(q) # 0
    BY LengthOf
  <2> QED BY <2>1, UpToTwo DEF ChannelSlots
<1>2. /\ Head(q) = q[1] /\ Head(q) \in Seq(Nat)
      /\ Tail(q) \in Seq(Seq(Nat)) /\ Len(Tail(q)) = Len(q) - 1
      /\ \A i \in 1..Len(Tail(q)) : Tail(q)[i] = q[i + 1]
  BY HeadTailProperties
<1>3. CASE Len(q) = 1
  <2>1. Queued(q) = q[1] /\ Queued(Tail(q)) = <<>>
    <3>1. Len(Tail(q)) = 0
      BY <1>2, <1>3, UpToTwo
    <3> QED BY <1>3, <3>1 DEF Queued
  <2>2. Head(q) \o <<>> = Head(q)
    BY <1>2, ConcatEmptySeq
  <2>3. Len(Tail(q)) <= ChannelSlots
    BY <1>2, <1>3, UpToTwo DEF ChannelSlots
  <2> QED BY <1>2, <2>1, <2>2, <2>3
<1>4. CASE Len(q) = 2
  <2>1. Len(Tail(q)) = 1 /\ Tail(q)[1] = q[2]
    <3>1. Len(Tail(q)) = 1 /\ 1 \in 1..1 /\ 1 + 1 = 2
      BY <1>2, <1>4, UpToTwo
    <3> QED BY <1>2, <3>1
  <2>2. Queued(q) = q[1] \o q[2]
    BY <1>4 DEF Queued
  <2>3. Queued(Tail(q)) = q[2]
    <3> DEFINE t == Tail(q)
    <3>1. Len(t) = 1 /\ t[1] = q[2]
      BY <2>1
    <3> HIDE DEF t
    <3>2. Queued(t) = q[2]
      BY <3>1 DEF Queued
    <3> QED BY <3>2 DEF t
  <2>4. Len(Tail(q)) <= ChannelSlots
    BY <2>1, UpToTwo DEF ChannelSlots
  <2> QED BY <1>2, <2>2, <2>3, <2>4
<1> QED BY <1>1, <1>3, <1>4

(* A chunk is taken by a write that holds no other. *)
LEMMA JoinedTake ==
  ASSUME NEW hd \in Seq(Nat), NEW pa \in Seq(Nat), NEW bu \in Seq(Nat),
         NEW q \in Seq(Seq(Nat)), Len(q) <= ChannelSlots, q # <<>>
  PROVE  Joined(hd, pa, bu, Head(q), Tail(q)) = Joined(hd, pa, bu, <<>>, q)
<1> DEFINE x == (hd \o pa) \o bu
<1>1. x \in Seq(Nat)
  BY ConcatType
<1>2. /\ Head(q) \in Seq(Nat) /\ Queued(Tail(q)) \in Seq(Nat)
      /\ Queued(q) = Head(q) \o Queued(Tail(q))
  BY QueuedHead, QueuedType
<1> HIDE DEF x
<1>3. (x \o Head(q)) \o Queued(Tail(q)) = x \o (Head(q) \o Queued(Tail(q)))
  BY <1>1, <1>2, Associative, Zenon
<1>4. x \o <<>> = x
  BY <1>1, ConcatEmptySeq
<1> QED BY <1>2, <1>3, <1>4 DEF Joined, x

(* What a write holds moves to the end of the adaptive buffer, or the buffer to
   its front. *)
LEMMA JoinedBuffer ==
  ASSUME NEW hd \in Seq(Nat), NEW pa \in Seq(Nat), NEW bu \in Seq(Nat), NEW by \in Seq(Nat),
         NEW q
  PROVE  /\ Joined(hd, pa, bu \o by, <<>>, q) = Joined(hd, pa, bu, by, q)
         /\ Joined(hd, pa, <<>>, bu \o by, q) = Joined(hd, pa, bu, by, q)
<1> DEFINE x == hd \o pa
<1>0. x \in Seq(Nat)
  BY ConcatType
<1>1. x \in Seq(Nat) /\ x \o (bu \o by) \in Seq(Nat)
  BY ConcatType
<1> HIDE DEF x
<1>2. (x \o bu) \o by = x \o (bu \o by)
  BY <1>0, Associative, Zenon
<1>3. (x \o (bu \o by)) \o <<>> = x \o (bu \o by) /\ x \o <<>> = x
  BY <1>1, ConcatEmptySeq
<1> QED BY <1>2, <1>3 DEF Joined, x

(* The front of what a write holds moves to the partial buffer. *)
LEMMA JoinedFill ==
  ASSUME NEW hd \in Seq(Nat), NEW pa \in Seq(Nat), NEW s \in Seq(Nat), NEW t \in Seq(Nat),
         NEW q
  PROVE  Joined(hd, pa \o s, <<>>, t, q) = Joined(hd, pa, <<>>, s \o t, q)
<1>0. hd \o pa \in Seq(Nat)
  BY ConcatType
<1>1. hd \o pa \in Seq(Nat) /\ pa \o s \in Seq(Nat) /\ hd \o (pa \o s) \in Seq(Nat)
  BY ConcatType
<1>2. hd \o (pa \o s) = (hd \o pa) \o s
  BY Associative
<1>3. (hd \o (pa \o s)) \o <<>> = hd \o (pa \o s) /\ (hd \o pa) \o <<>> = hd \o pa
  BY <1>1, ConcatEmptySeq
<1>4. ((hd \o pa) \o s) \o t = (hd \o pa) \o (s \o t)
  BY <1>0, Associative, Zenon
<1> QED BY <1>2, <1>3, <1>4 DEF Joined

(* The partial buffer is handed to put_part. *)
LEMMA JoinedSpawn ==
  ASSUME NEW hd \in Seq(Nat), NEW pa \in Seq(Nat), NEW bu, NEW by, NEW q
  PROVE  Joined(hd \o pa, <<>>, bu, by, q) = Joined(hd, pa, bu, by, q)
<1>1. hd \o pa \in Seq(Nat)
  BY ConcatType
<1>2. (hd \o pa) \o <<>> = hd \o pa
  BY <1>1, ConcatEmptySeq
<1> QED BY <1>2 DEF Joined

(* All bytes are in one place. *)
LEMMA JoinedAlone ==
  ASSUME NEW s \in Seq(Nat)
  PROVE  /\ Joined(s, <<>>, <<>>, <<>>, <<>>) = s
         /\ Joined(<<>>, <<>>, s, <<>>, <<>>) = s
<1>1. s \o <<>> = s /\ <<>> \o s = s
  BY ConcatEmptySeq
<1>2. <<>> \o <<>> = <<>>
  BY EmptySeq, ConcatEmptySeq
<1> QED BY <1>1, <1>2, QueuedNothing DEF Joined

-----------------------------------------------------------------------------
(* Where the bytes are                                                      *)

(* A round of MultipartState::write that leaves room in the partial buffer has
   taken all bytes. *)
LEMMA FilledUp ==
  ASSUME NEW u \in Uploads, DataAt(u), ~Fills(u)
  PROVE  Fits(u) = Len(bytes[u]) /\ SubSeq(bytes[u], Fits(u) + 1, Len(bytes[u])) = <<>>
<1>1. Len(bytes[u]) \in Nat
  BY LenProperties DEF DataAt
<1>2. Fits(u) = Len(bytes[u])
  BY DEF Fits, Fills
<1>3. Len(bytes[u]) + 1 \in Int /\ Len(bytes[u]) \in Int /\ Len(bytes[u]) < Len(bytes[u]) + 1
  BY <1>1
<1> QED BY <1>2, <1>3, SubSeqEmpty

(* The buffers are empty where the worker takes them to be: a byte left behind in
   one of them would be missing from the object. *)
LEMMA EmptiedStep ==
  ASSUME Domains, NEW u \in Uploads, Local(u), Live(u) => Emptied(u), Step(u)
  PROVE  Live(u)' => Emptied(u)'
<1> USE DEF callerVars, linkVars, workVars, partVars, storeVars, Goto, Cleanup,
          Complete, AbandonIdle, Cancel, DropDirectWriter, SendTerminal, Write,
          AwaitAtEnd, JoinOk, JoinErr, ReportCleanup, Acquire, Release, Locations, Holding,
          ChannelOpen, Drained, SeesCancel, ControlTypes, ControlAt, MultipartAt,
          Local, Domains, Live, Emptied
<1>1. ASSUME StartWorker(u) PROVE Live(u)' => Emptied(u)'
  BY <1>1 DEF StartWorker
<1>2. ASSUME Send(u) PROVE Live(u)' => Emptied(u)'
  BY <1>2 DEF Send
<1>3. ASSUME CloseWriter(u) PROVE Live(u)' => Emptied(u)'
  BY <1>3 DEF CloseWriter
<1>4. ASSUME CallComplete(u) PROVE Live(u)' => Emptied(u)'
  BY <1>4 DEF CallComplete
<1>5. ASSUME AbortIdle(u) PROVE Live(u)' => Emptied(u)'
  BY <1>5 DEF AbortIdle
<1>6. ASSUME DropIdle(u) PROVE Live(u)' => Emptied(u)'
  BY <1>6 DEF DropIdle
<1>7. ASSUME CallAbort(u) PROVE Live(u)' => Emptied(u)'
  BY <1>7 DEF CallAbort
<1>8. ASSUME Drop(u) PROVE Live(u)' => Emptied(u)'
  BY <1>8 DEF Drop
<1>9. ASSUME SendAbort(u) PROVE Live(u)' => Emptied(u)'
  BY <1>9 DEF SendAbort
<1>10. ASSUME Return(u) PROVE Live(u)' => Emptied(u)'
  BY <1>10 DEF Return
<1>11. ASSUME Forget(u) PROVE Live(u)' => Emptied(u)'
  BY <1>11 DEF Forget
<1>12. ASSUME SelectTerminal(u) PROVE Live(u)' => Emptied(u)'
  BY <1>12 DEF SelectTerminal
<1>13. ASSUME SelectChunk(u) PROVE Live(u)' => Emptied(u)'
  BY <1>13 DEF SelectChunk
<1>14. ASSUME SelectEnd(u) PROVE Live(u)' => Emptied(u)'
  BY <1>14 DEF SelectEnd
<1>15. ASSUME AwaitTerminal(u) PROVE Live(u)' => Emptied(u)'
  BY <1>15 DEF AwaitTerminal
<1>16. ASSUME DrainChunk(u) PROVE Live(u)' => Emptied(u)'
  BY <1>16 DEF DrainChunk
<1>17. ASSUME DrainEnd(u) PROVE Live(u)' => Emptied(u)'
  BY <1>17 DEF DrainEnd
<1>18. ASSUME Fill(u) PROVE Live(u)' => Emptied(u)'
  BY <1>18, FilledUp DEF Fill
<1>19. ASSUME StopWaiting(u) PROVE Live(u)' => Emptied(u)'
  BY <1>19 DEF StopWaiting
<1>20. ASSUME JoinOne(u) PROVE Live(u)' => Emptied(u)'
  BY <1>20 DEF JoinOne
<1>21. ASSUME AcquirePermit(u) PROVE Live(u)' => Emptied(u)'
  BY <1>21 DEF AcquirePermit
<1>22. ASSUME WatchToken(u) PROVE Live(u)' => Emptied(u)'
  BY <1>22 DEF WatchToken
<1>23. ASSUME SpawnPart(u) PROVE Live(u)' => Emptied(u)'
  BY <1>23 DEF SpawnPart
<1>24. ASSUME AllJoined(u) PROVE Live(u)' => Emptied(u)'
  BY <1>24 DEF AllJoined
<1>25. ASSUME ShutdownEnd(u) PROVE Live(u)' => Emptied(u)'
  BY <1>25 DEF ShutdownEnd
<1>26. ASSUME CreateMultipart(u) PROVE Live(u)' => Emptied(u)'
  BY <1>26 DEF CreateMultipart
<1>27. ASSUME StoreApplies(u) PROVE Live(u)' => Emptied(u)'
  BY <1>27 DEF StoreApplies
<1>28. ASSUME StoreAnswersOk(u) PROVE Live(u)' => Emptied(u)'
  BY <1>28 DEF StoreAnswersOk
<1>29. ASSUME StoreAnswersErr(u) PROVE Live(u)' => Emptied(u)'
  BY <1>29 DEF StoreAnswersErr
<1>30. ASSUME StoreDiscards(u) PROVE Live(u)' => Emptied(u)'
  BY <1>30 DEF StoreDiscards
<1>31. ASSUME AbortAnswered(u) PROVE Live(u)' => Emptied(u)'
  BY <1>31 DEF AbortAnswered
<1>32. ASSUME NEW p \in flying[u], PartLands(u, p) PROVE Live(u)' => Emptied(u)'
  BY <1>32 DEF PartLands
<1>33. ASSUME NEW p \in flying[u], PartKilled(u, p) PROVE Live(u)' => Emptied(u)'
  BY <1>33 DEF PartKilled
<1> QED BY <1>1, <1>2, <1>3, <1>4, <1>5, <1>6, <1>7, <1>8, <1>9, <1>10, <1>11, <1>12,
          <1>13, <1>14, <1>15, <1>16, <1>17, <1>18, <1>19, <1>20, <1>21, <1>22, <1>23, <1>24,
          <1>25, <1>26, <1>27, <1>28, <1>29, <1>30, <1>31, <1>32, <1>33
       DEF Step, CallerStep, WorkerStep, StoreStep

(* The bytes of an upload whose buffers a step leaves alone. *)
LEMMA WholeKept ==
  ASSUME NEW u \in Uploads, Live(u)' => Live(u), Contents(u),
         handed'[u] = handed[u], partial'[u] = partial[u], buffer'[u] = buffer[u],
         bytes'[u] = bytes[u], chan'[u] = chan[u], sent'[u] = sent[u]
  PROVE  Live(u)' => Whole(u)'
BY DEF Whole, Contents

(* A write takes the chunk at the head of the channel. *)
LEMMA WholeWrite ==
  ASSUME Domains, NEW u \in Uploads, Local(u), Contents(u), NEW s \in {"select", "drain"},
         pc[u] = s, Write(u, s), UNCHANGED <<sent, partial, handed>>
  PROVE  Live(u)' => Whole(u)'
<1>1. CASE cancelled[u]
  <2>1. pc'[u] \in {"done", "shutdown"}
    BY <1>1 DEF Write, Cleanup, Goto, Domains
  <2> QED BY <2>1 DEF Live
<1>2. CASE ~cancelled[u]
  <2>1. /\ chan[u] # <<>> /\ chan[u] \in Seq(Seq(Nat)) /\ Len(chan[u]) <= ChannelSlots
        /\ handed[u] \in Seq(Nat) /\ partial[u] \in Seq(Nat) /\ buffer[u] \in Seq(Nat)
        /\ bytes[u] = <<>>
    BY DEF Write, Local, DataAt, Contents, Live, Emptied
  <2>2. Head(chan[u]) \in Seq(Nat)
    BY <2>1, QueuedHead
  <2>3. Joined(handed[u], partial[u], buffer[u], Head(chan[u]), Tail(chan[u]))
          = Bytes(1, sent[u])
    BY <2>1, JoinedTake DEF Contents, Live, Whole
  <2>4. Joined(handed[u], partial[u], buffer[u] \o Head(chan[u]), <<>>, Tail(chan[u]))
          = Bytes(1, sent[u])
    BY <2>1, <2>2, <2>3, JoinedBuffer
  <2>5. /\ chan'[u] = Tail(chan[u]) /\ sent'[u] = sent[u]
        /\ handed'[u] = handed[u] /\ partial'[u] = partial[u]
        /\ \/ buffer'[u] = buffer[u] \o Head(chan[u]) /\ bytes'[u] = <<>>
           \/ buffer'[u] = buffer[u] /\ bytes'[u] = Head(chan[u])
    BY <1>2, <2>1 DEF Write, Domains
  <2> QED BY <2>3, <2>4, <2>5 DEF Whole
<1> QED BY <1>1, <1>2

(* No step loses, repeats or reorders a byte of an upload that may still be
   published. *)
LEMMA WholeStep ==
  ASSUME Domains, NEW u \in Uploads, Local(u), Contents(u), Step(u)
  PROVE  Live(u)' => Whole(u)'
<1> USE DEF callerVars, linkVars, workVars, partVars, storeVars, Goto, Cleanup,
          Complete, AbandonIdle, Cancel, DropDirectWriter, SendTerminal, Write,
          AwaitAtEnd, JoinOk, JoinErr, ReportCleanup, Acquire, Release,
          Holding, ChannelOpen, Drained, SeesCancel, ControlTypes, Locations,
          Domains, Live
<1>1. ASSUME StartWorker(u) PROVE Live(u)' => Whole(u)'
  BY <1>1, WholeKept DEF StartWorker, Local, ControlAt
<1>2. ASSUME Send(u) PROVE Live(u)' => Whole(u)'
  <2>1. /\ Len(chan[u]) < ChannelSlots
        /\ handed'[u] = handed[u] /\ partial'[u] = partial[u]
        /\ buffer'[u] = buffer[u] /\ bytes'[u] = bytes[u] /\ pc'[u] = pc[u]
        /\ \E n \in 1..MaxChunk :
             /\ chan'[u] = Append(chan[u], Bytes(sent[u] + 1, sent[u] + n))
             /\ sent'[u] = sent[u] + n
    BY <1>2 DEF Send
  <2>2. PICK n \in 1..MaxChunk :
          /\ chan'[u] = Append(chan[u], Bytes(sent[u] + 1, sent[u] + n))
          /\ sent'[u] = sent[u] + n
    BY <2>1
  <2> HIDE DEF Live
  <2>3. n \in Nat /\ sent[u] \in Nat /\ sent[u] + 1 \in Nat \ {0} /\ sent[u] + n \in Nat
    <3>1. sent[u] \in Nat
      BY DEF Local, DataAt
    <3>2. n \in Nat /\ n >= 1
      BY UploadAssumption
    <3> QED BY <3>1, <3>2
  <2>4. Bytes(sent[u] + 1, sent[u] + n) \in Seq(Nat)
    BY <2>3, BytesType
  <2>5. /\ handed[u] \in Seq(Nat) /\ partial[u] \in Seq(Nat) /\ buffer[u] \in Seq(Nat)
        /\ bytes[u] \in Seq(Nat) /\ chan[u] \in Seq(Seq(Nat))
    BY DEF Local, DataAt
  <2> DEFINE x == ((handed[u] \o partial[u]) \o buffer[u]) \o bytes[u]
             q == chan[u]
             r == chan'[u]
             s == Bytes(sent[u] + 1, sent[u] + n)
  <2>6. /\ Joined(handed[u], partial[u], buffer[u], bytes[u], chan[u]) = x \o Queued(q)
        /\ Joined(handed'[u], partial'[u], buffer'[u], bytes'[u], chan'[u]) = x \o Queued(r)
    BY <2>1 DEF Joined
  <2>7. x \in Seq(Nat)
    BY <2>5, ConcatType
  <2>8. q \in Seq(Seq(Nat)) /\ Len(q) < ChannelSlots /\ s \in Seq(Nat) /\ r = Append(q, s)
    BY <2>1, <2>2, <2>4, <2>5
  <2> HIDE DEF x, q, r, s
  <2>9. Queued(r) = Queued(q) \o s
    BY <2>8, QueuedAppend
  <2>10. Queued(q) \in Seq(Nat)
    <3>1. Len(q) <= ChannelSlots
      BY <2>8, LengthOf, UpToTwo DEF ChannelSlots
    <3> QED BY <2>8, <3>1, QueuedType
  <2>11. x \o Queued(r) = (x \o Queued(q)) \o s
    <3>1. \A y, z \in Seq(Nat) : (x \o y) \o z = x \o (y \o z)
      BY <2>7, Associative
    <3> QED BY <2>8, <2>9, <2>10, <3>1
  <2>12. Bytes(1, sent[u]) \o s = Bytes(1, sent'[u])
    BY <2>2, <2>3, BytesContinue DEF s
  <2>13. Live(u)' => Live(u)
    BY <2>1 DEF Live
  <2> QED BY <2>6, <2>11, <2>12, <2>13 DEF Contents, Whole
<1>3. ASSUME CloseWriter(u) PROVE Live(u)' => Whole(u)'
  BY <1>3, WholeKept DEF CloseWriter
<1>4. ASSUME CallComplete(u) PROVE Live(u)' => Whole(u)'
  BY <1>4, WholeKept DEF CallComplete, Local, ControlAt
<1>5. ASSUME AbortIdle(u) PROVE Live(u)' => Whole(u)'
  BY <1>5, WholeKept DEF AbortIdle
<1>6. ASSUME DropIdle(u) PROVE Live(u)' => Whole(u)'
  BY <1>6, WholeKept DEF DropIdle
<1>7. ASSUME CallAbort(u) PROVE Live(u)' => Whole(u)'
  BY <1>7, WholeKept DEF CallAbort
<1>8. ASSUME Drop(u) PROVE Live(u)' => Whole(u)'
  BY <1>8, WholeKept DEF Drop
<1>9. ASSUME SendAbort(u) PROVE Live(u)' => Whole(u)'
  BY <1>9, WholeKept DEF SendAbort
<1>10. ASSUME Return(u) PROVE Live(u)' => Whole(u)'
  BY <1>10, WholeKept DEF Return
<1>11. ASSUME Forget(u) PROVE Live(u)' => Whole(u)'
  BY <1>11, WholeKept DEF Forget
<1>12. ASSUME SelectTerminal(u) PROVE Live(u)' => Whole(u)'
  BY <1>12, WholeKept DEF SelectTerminal
<1>13. ASSUME SelectChunk(u) PROVE Live(u)' => Whole(u)'
  <2>1. pc[u] = "select" /\ Write(u, "select") /\ UNCHANGED <<sent, partial, handed>>
    BY <1>13 DEF SelectChunk
  <2> HIDE DEF Write, Live, Domains
  <2> QED BY <2>1, WholeWrite
<1>14. ASSUME SelectEnd(u) PROVE Live(u)' => Whole(u)'
  BY <1>14, WholeKept DEF SelectEnd
<1>15. ASSUME AwaitTerminal(u) PROVE Live(u)' => Whole(u)'
  BY <1>15, WholeKept DEF AwaitTerminal
<1>16. ASSUME DrainChunk(u) PROVE Live(u)' => Whole(u)'
  <2>1. pc[u] = "drain" /\ Write(u, "drain") /\ UNCHANGED <<sent, partial, handed>>
    BY <1>16 DEF DrainChunk
  <2> HIDE DEF Write, Live, Domains
  <2> QED BY <2>1, WholeWrite
<1>17. ASSUME DrainEnd(u) PROVE Live(u)' => Whole(u)'
  BY <1>17, WholeKept DEF DrainEnd
<1>18. ASSUME Fill(u) PROVE Live(u)' => Whole(u)'
  <2>1. CASE cancelled[u]
    BY <1>18, <2>1 DEF Fill
  <2>2. CASE ~cancelled[u]
    <3> DEFINE n == Fits(u)
               front == SubSeq(bytes[u], 1, n)
               rest == SubSeq(bytes[u], n + 1, Len(bytes[u]))
    <3>1. /\ pc[u] = "fill" /\ partial'[u] = partial[u] \o front /\ bytes'[u] = rest
          /\ handed'[u] = handed[u] /\ buffer'[u] = buffer[u] /\ chan'[u] = chan[u]
          /\ sent'[u] = sent[u]
      BY <1>18, <2>2 DEF Fill
    <3>2. Live(u) /\ buffer[u] = <<>>
      BY <3>1 DEF Contents, Emptied, Local, MultipartAt
    <3> HIDE DEF Live
    <3>3. handed[u] \in Seq(Nat) /\ partial[u] \in Seq(Nat) /\ bytes[u] \in Seq(Nat)
      BY DEF Local, DataAt
    <3>4. n \in 0..Len(bytes[u])
      <4>1. Len(bytes[u]) \in Nat /\ Len(partial[u]) \in 0..PartSize /\ PartSize \in Nat
        BY UploadAssumption, LenProperties DEF Local, DataAt
      <4>2. n = IF Len(bytes[u]) < PartSize - Len(partial[u]) THEN Len(bytes[u])
                ELSE PartSize - Len(partial[u])
        BY DEF Fits
      <4> HIDE DEF n
      <4> QED BY <4>1, <4>2, FitsBound
    <3>5. front \in Seq(Nat) /\ rest \in Seq(Nat) /\ bytes[u] = front \o rest
      BY <3>3, <3>4, SplitType
    <3> HIDE DEF front, rest
    <3>6. Joined(handed[u], partial[u] \o front, <<>>, rest, chan[u])
            = Joined(handed[u], partial[u], <<>>, bytes[u], chan[u])
      BY <3>3, <3>5, JoinedFill
    <3> QED BY <3>1, <3>2, <3>6 DEF Contents, Whole
  <2> QED BY <2>1, <2>2
<1>19. ASSUME StopWaiting(u) PROVE Live(u)' => Whole(u)'
  BY <1>19, WholeKept DEF StopWaiting
<1>20. ASSUME JoinOne(u) PROVE Live(u)' => Whole(u)'
  BY <1>20, WholeKept DEF JoinOne
<1>21. ASSUME AcquirePermit(u) PROVE Live(u)' => Whole(u)'
  BY <1>21, WholeKept DEF AcquirePermit
<1>22. ASSUME WatchToken(u) PROVE Live(u)' => Whole(u)'
  BY <1>22, WholeKept DEF WatchToken
<1>23. ASSUME SpawnPart(u) PROVE Live(u)' => Whole(u)'
  <2>1. /\ Live(u) /\ handed'[u] = handed[u] \o partial[u] /\ partial'[u] = <<>>
        /\ buffer'[u] = buffer[u] /\ bytes'[u] = bytes[u] /\ chan'[u] = chan[u]
        /\ sent'[u] = sent[u]
    BY <1>23 DEF SpawnPart
  <2>2. handed[u] \in Seq(Nat) /\ partial[u] \in Seq(Nat)
    BY DEF Local, DataAt
  <2>3. Joined(handed[u] \o partial[u], <<>>, buffer[u], bytes[u], chan[u])
          = Joined(handed[u], partial[u], buffer[u], bytes[u], chan[u])
    BY <2>2, JoinedSpawn
  <2> QED BY <2>1, <2>3 DEF Contents, Whole
<1>24. ASSUME AllJoined(u) PROVE Live(u)' => Whole(u)'
  BY <1>24, WholeKept DEF AllJoined
<1>25. ASSUME ShutdownEnd(u) PROVE Live(u)' => Whole(u)'
  BY <1>25, WholeKept DEF ShutdownEnd
<1>26. ASSUME CreateMultipart(u) PROVE Live(u)' => Whole(u)'
  <2>1. CASE Live(u)'
    <3>1. /\ Live(u) /\ buffer'[u] = <<>> /\ bytes'[u] = buffer[u] \o bytes[u]
          /\ handed'[u] = handed[u] /\ partial'[u] = partial[u] /\ chan'[u] = chan[u]
          /\ sent'[u] = sent[u]
      BY <1>26, <2>1 DEF CreateMultipart
    <3>2. /\ handed[u] \in Seq(Nat) /\ partial[u] \in Seq(Nat)
          /\ buffer[u] \in Seq(Nat) /\ bytes[u] \in Seq(Nat)
      BY DEF Local, DataAt
    <3>3. Joined(handed[u], partial[u], <<>>, buffer[u] \o bytes[u], chan[u])
            = Joined(handed[u], partial[u], buffer[u], bytes[u], chan[u])
      BY <3>2, JoinedBuffer
    <3> QED BY <3>1, <3>3 DEF Contents, Whole
  <2> QED BY <2>1
<1>27. ASSUME StoreApplies(u) PROVE Live(u)' => Whole(u)'
  BY <1>27, WholeKept DEF StoreApplies
<1>28. ASSUME StoreAnswersOk(u) PROVE Live(u)' => Whole(u)'
  BY <1>28, WholeKept DEF StoreAnswersOk
<1>29. ASSUME StoreAnswersErr(u) PROVE Live(u)' => Whole(u)'
  BY <1>29, WholeKept DEF StoreAnswersErr
<1>30. ASSUME StoreDiscards(u) PROVE Live(u)' => Whole(u)'
  BY <1>30, WholeKept DEF StoreDiscards
<1>31. ASSUME AbortAnswered(u) PROVE Live(u)' => Whole(u)'
  BY <1>31, WholeKept DEF AbortAnswered
<1>32. ASSUME NEW p \in flying[u], PartLands(u, p) PROVE Live(u)' => Whole(u)'
  BY <1>32, WholeKept DEF PartLands
<1>33. ASSUME NEW p \in flying[u], PartKilled(u, p) PROVE Live(u)' => Whole(u)'
  BY <1>33, WholeKept DEF PartKilled
<1> QED BY <1>1, <1>2, <1>3, <1>4, <1>5, <1>6, <1>7, <1>8, <1>9, <1>10, <1>11, <1>12,
          <1>13, <1>14, <1>15, <1>16, <1>17, <1>18, <1>19, <1>20, <1>21, <1>22, <1>23, <1>24,
          <1>25, <1>26, <1>27, <1>28, <1>29, <1>30, <1>31, <1>32, <1>33
       DEF Step, CallerStep, WorkerStep, StoreStep

(* An upload that another one's step leaves alone. *)
LEMMA ContentsKept ==
  ASSUME NEW v \in Uploads, Contents(v), Same(v)
  PROVE  Contents(v)'
BY DEF Contents, Same, Live, Whole, Emptied

(* At first there are no bytes. *)
LEMMA ContentInit == Init => \A u \in Uploads : Contents(u)
<1> SUFFICES ASSUME Init, NEW u \in Uploads PROVE Contents(u)
  OBVIOUS
<1>1. /\ handed[u] = <<>> /\ partial[u] = <<>> /\ buffer[u] = <<>> /\ bytes[u] = <<>>
      /\ chan[u] = <<>> /\ sent[u] = 0 /\ stage[u] = "select" /\ multipart[u] = "none"
  BY DEF Init
<1>2. Bytes(1, 0) = <<>>
  <2>1. 0 \in Nat /\ 1 \in Nat \ {0} /\ 1 + 0 - 1 = 0
    OBVIOUS
  <2>2. Bytes(1, 0) \in Seq(Nat) /\ Len(Bytes(1, 0)) = 0
    BY <2>1, BytesAre
  <2> QED BY <2>2, LengthOf
<1>3. Joined(<<>>, <<>>, <<>>, <<>>, <<>>) = <<>>
  BY EmptySeq, JoinedAlone
<1> QED BY <1>1, <1>2, <1>3 DEF Contents, Whole, Emptied

(* Every byte that the channel took is accounted for as long as the worker may
   publish the object, across channel, buffers and part requests (UploadWorker::write,
   MultipartState::write, spawn_part). *)
THEOREM BytesAreKept == Spec => []ContentInv
<1>1. Init => ContentInv
  BY UploadsInit, PermitInit, ContentInit DEF ContentInv, UploadInv
<1>2. ContentInv /\ [Next]_vars => ContentInv'
  <2> SUFFICES ASSUME ContentInv, [Next]_vars PROVE ContentInv'
    OBVIOUS
  <2>1. UploadInv'
    BY UploadsStep, PermitStep DEF ContentInv, UploadInv
  <2>2. ASSUME NEW u \in Uploads, Step(u), NEW v \in Uploads PROVE Contents(v)'
    <3>1. Domains /\ Local(u) /\ Contents(u) /\ Contents(v)
      BY DomainsOfFunctions DEF ContentInv, UploadInv, UploadsInv
    <3>2. CASE v = u
      <4>1. Live(u) => Emptied(u)
        BY <3>1 DEF Contents
      <4>2. Live(u)' => Emptied(u)'
        BY <2>2, <3>1, <4>1, EmptiedStep
      <4>3. Live(u)' => Whole(u)'
        BY <2>2, <3>1, WholeStep
      <4> QED BY <3>2, <4>2, <4>3 DEF Contents
    <3>3. CASE v # u
      BY <2>2, <3>1, <3>3, FramedOthers, ContentsKept
    <3> QED BY <3>2, <3>3
  <2>3. ASSUME UNCHANGED vars, NEW v \in Uploads PROVE Contents(v)'
    <3>1. Contents(v) /\ Same(v)
      BY <2>3 DEF ContentInv, Same, vars, callerVars, linkVars, workVars, partVars, storeVars
    <3> QED BY <3>1, ContentsKept
  <2> QED BY <2>1, <2>2, <2>3 DEF ContentInv, Next, Step
<1> QED BY <1>1, <1>2, PTL DEF Spec

-----------------------------------------------------------------------------
(* The atomic object                                                        *)

(* What the task has returned. *)
Outcome(u) == IF pc[u] = "done" THEN result[u] ELSE "none"

(* A step of upload u as its caller sees it: nothing, or one of AtomicObject's. *)
Seen(u) ==
  \/ /\ sent'[u] = sent[u] /\ object'[u] = object[u]
     /\ Decision(u)' = Decision(u) /\ Outcome(u)' = Outcome(u)
  \/ /\ object[u] = NoObject /\ Outcome(u) = "none" /\ sent'[u] > sent[u]
     /\ object'[u] = object[u] /\ Decision(u)' = Decision(u) /\ Outcome(u)' = Outcome(u)
  \/ /\ Decision(u) = "open" /\ Decision(u)' \in {"complete", "abort"}
     /\ sent'[u] = sent[u] /\ object'[u] = object[u] /\ Outcome(u)' = Outcome(u)
  \/ /\ Decision(u) = "complete" /\ Outcome(u) = "none" /\ object[u] = NoObject
     /\ object'[u] = Bytes(1, sent[u])
     /\ sent'[u] = sent[u] /\ Decision(u)' = Decision(u) /\ Outcome(u)' = Outcome(u)
  \/ /\ Outcome(u) = "none" /\ Outcome(u)' \in {"ok", "aborted", "err"}
     /\ Outcome(u)' = "ok" => object[u] # NoObject
     /\ Outcome(u)' = "aborted" => object[u] = NoObject
     /\ sent'[u] = sent[u] /\ object'[u] = object[u] /\ Decision(u)' = Decision(u)
  \/ /\ Decision(u) = "open" /\ Outcome(u) = "none" /\ object[u] = NoObject
     /\ Decision(u)' = "abort" /\ Outcome(u)' = "aborted"
     /\ sent'[u] = sent[u] /\ object'[u] = object[u]

(* The store publishes the buffer of a short object, or the parts of a long one:
   either is the whole stream. *)
LEMMA PublishedWhole ==
  ASSUME Domains, NEW u \in Uploads, Local(u), Contents(u), StoreApplies(u)
  PROVE  object'[u] = Bytes(1, sent[u])
<1>1. /\ handed[u] \in Seq(Nat) /\ partial[u] \in Seq(Nat) /\ buffer[u] \in Seq(Nat)
      /\ bytes[u] \in Seq(Nat)
  BY DEF Local, DataAt
<1>2. CASE pc[u] = "put" /\ object'[u] = buffer[u]
  <2>1. Live(u) /\ stage[u] = "join" /\ multipart[u] = "none"
    BY <1>2 DEF Live, Local, ControlAt, MultipartAt
  <2>2. chan[u] = <<>> /\ bytes[u] = <<>> /\ handed[u] = <<>> /\ partial[u] = <<>>
    BY <2>1 DEF Contents, Emptied
  <2>3. Joined(<<>>, <<>>, buffer[u], <<>>, <<>>) = Bytes(1, sent[u])
    BY <2>1, <2>2 DEF Contents, Whole
  <2> QED BY <1>1, <1>2, <2>3, JoinedAlone
<1>3. CASE pc[u] = "finish" /\ object'[u] = handed[u]
  <2>1. Live(u) /\ stage[u] = "join" /\ multipart[u] # "none"
    BY <1>3 DEF Live, Local, ControlAt, MultipartAt
  <2>2. chan[u] = <<>> /\ bytes[u] = <<>> /\ buffer[u] = <<>> /\ partial[u] = <<>>
    BY <1>3, <2>1 DEF Contents, Emptied
  <2>3. Joined(handed[u], <<>>, <<>>, <<>>, <<>>) = Bytes(1, sent[u])
    BY <2>1, <2>2 DEF Contents, Whole
  <2> QED BY <1>1, <1>3, <2>3, JoinedAlone
<1> QED BY <1>2, <1>3 DEF StoreApplies, Domains

(* Each action of run_upload, of its caller and of the store is a step of the
   atomic object, or none. *)
LEMMA StepSeen ==
  ASSUME Domains, NEW u \in Uploads, Local(u), Local(u)', Contents(u), Step(u)
  PROVE  Seen(u)
<1> USE DEF callerVars, linkVars, workVars, partVars, storeVars, Goto, Cleanup,
          Complete, AbandonIdle, Cancel, DropDirectWriter, SendTerminal, Write,
          AwaitAtEnd, JoinOk, JoinErr, ReportCleanup, Acquire, Release,
          Holding, ChannelOpen, Drained, SeesCancel, ControlTypes, Locations, Results,
          Domains, ControlAt, MultipartAt, ObjectAt, ResultAt, Local, Decision, Outcome,
          Seen
<1>1. ASSUME StartWorker(u) PROVE Seen(u)
  BY <1>1 DEF StartWorker
<1>2. ASSUME Send(u) PROVE Seen(u)
  <2>1. /\ sent[u] \in Nat /\ \E n \in 1..MaxChunk : sent'[u] = sent[u] + n
    BY <1>2 DEF Send, DataAt
  <2>2. sent'[u] > sent[u]
    BY <2>1, UploadAssumption
  <2> QED BY <1>2, <2>2 DEF Send
<1>3. ASSUME CloseWriter(u) PROVE Seen(u)
  BY <1>3 DEF CloseWriter
<1>4. ASSUME CallComplete(u) PROVE Seen(u)
  BY <1>4 DEF CallComplete
<1>5. ASSUME AbortIdle(u) PROVE Seen(u)
  BY <1>5 DEF AbortIdle
<1>6. ASSUME DropIdle(u) PROVE Seen(u)
  BY <1>6 DEF DropIdle
<1>7. ASSUME CallAbort(u) PROVE Seen(u)
  BY <1>7 DEF CallAbort
<1>8. ASSUME Drop(u) PROVE Seen(u)
  BY <1>8 DEF Drop
<1>9. ASSUME SendAbort(u) PROVE Seen(u)
  BY <1>9 DEF SendAbort
<1>10. ASSUME Return(u) PROVE Seen(u)
  BY <1>10 DEF Return
<1>11. ASSUME Forget(u) PROVE Seen(u)
  BY <1>11 DEF Forget
<1>12. ASSUME SelectTerminal(u) PROVE Seen(u)
  BY <1>12 DEF SelectTerminal
<1>13. ASSUME SelectChunk(u) PROVE Seen(u)
  BY <1>13 DEF SelectChunk
<1>14. ASSUME SelectEnd(u) PROVE Seen(u)
  BY <1>14 DEF SelectEnd
<1>15. ASSUME AwaitTerminal(u) PROVE Seen(u)
  BY <1>15 DEF AwaitTerminal
<1>16. ASSUME DrainChunk(u) PROVE Seen(u)
  BY <1>16 DEF DrainChunk
<1>17. ASSUME DrainEnd(u) PROVE Seen(u)
  BY <1>17 DEF DrainEnd
<1>18. ASSUME Fill(u) PROVE Seen(u)
  BY <1>18 DEF Fill
<1>19. ASSUME StopWaiting(u) PROVE Seen(u)
  BY <1>19 DEF StopWaiting
<1>20. ASSUME JoinOne(u) PROVE Seen(u)
  BY <1>20 DEF JoinOne
<1>21. ASSUME AcquirePermit(u) PROVE Seen(u)
  BY <1>21 DEF AcquirePermit
<1>22. ASSUME WatchToken(u) PROVE Seen(u)
  BY <1>22 DEF WatchToken
<1>23. ASSUME SpawnPart(u) PROVE Seen(u)
  BY <1>23 DEF SpawnPart
<1>24. ASSUME AllJoined(u) PROVE Seen(u)
  BY <1>24 DEF AllJoined
<1>25. ASSUME ShutdownEnd(u) PROVE Seen(u)
  BY <1>25 DEF ShutdownEnd
<1>26. ASSUME CreateMultipart(u) PROVE Seen(u)
  BY <1>26 DEF CreateMultipart
<1>27. ASSUME StoreApplies(u) PROVE Seen(u)
  <2>1. object'[u] = Bytes(1, sent[u])
    BY <1>27, PublishedWhole
  <2> QED BY <1>27, <2>1 DEF StoreApplies
<1>28. ASSUME StoreAnswersOk(u) PROVE Seen(u)
  BY <1>28 DEF StoreAnswersOk
<1>29. ASSUME StoreAnswersErr(u) PROVE Seen(u)
  BY <1>29 DEF StoreAnswersErr
<1>30. ASSUME StoreDiscards(u) PROVE Seen(u)
  BY <1>30 DEF StoreDiscards
<1>31. ASSUME AbortAnswered(u) PROVE Seen(u)
  BY <1>31 DEF AbortAnswered
<1>32. ASSUME NEW p \in flying[u], PartLands(u, p) PROVE Seen(u)
  BY <1>32 DEF PartLands
<1>33. ASSUME NEW p \in flying[u], PartKilled(u, p) PROVE Seen(u)
  BY <1>33 DEF PartKilled
<1> QED BY <1>1, <1>2, <1>3, <1>4, <1>5, <1>6, <1>7, <1>8, <1>9, <1>10, <1>11, <1>12,
          <1>13, <1>14, <1>15, <1>16, <1>17, <1>18, <1>19, <1>20, <1>21, <1>22, <1>23, <1>24,
          <1>25, <1>26, <1>27, <1>28, <1>29, <1>30, <1>31, <1>32, <1>33
       DEF Step, CallerStep, WorkerStep, StoreStep

(* Seen at one upload, and at no other one, a step is one of AtomicObject. *)
LEMMA SeenIsStep ==
  ASSUME AreFunctions, AreFunctions', NEW u \in Uploads, sent[u] \in Nat, Seen(u),
         \A v \in Uploads \ {u} : Same(v)
  PROVE  [Atomic!Next]_(Atomic!absvars)
<1> DEFINE D == [v \in Uploads |-> Decision(v)]
           O == [v \in Uploads |-> Outcome(v)]
<1>1. \A v \in Uploads \ {u} : /\ sent'[v] = sent[v] /\ object'[v] = object[v]
                             /\ Decision(v)' = Decision(v) /\ Outcome(v)' = Outcome(v)
  BY DEF Same, Decision, Outcome
<1>2. sent' = [sent EXCEPT ![u] = sent'[u]] /\ object' = [object EXCEPT ![u] = object'[u]]
  BY <1>1 DEF AreFunctions
<1>3. D' = [D EXCEPT ![u] = Decision(u)']
  <2>1. D' = [v \in Uploads |-> Decision(v)']
    OBVIOUS
  <2> QED BY <1>1, <2>1
<1>4. O' = [O EXCEPT ![u] = Outcome(u)']
  <2>1. O' = [v \in Uploads |-> Outcome(v)']
    OBVIOUS
  <2> QED BY <1>1, <2>1
<1>5. D[u] = Decision(u) /\ O[u] = Outcome(u) /\ DOMAIN D = Uploads /\ DOMAIN O = Uploads
  OBVIOUS
<1>6. O = [v \in Uploads |-> IF pc[v] = "done" THEN result[v] ELSE "none"]
  BY DEF Outcome
<1>7. Bytes(1, sent[u]) = Atomic!Stream(sent[u])
  <2>1. sent[u] - 1 + 1 = sent[u] /\ \A i \in 1..sent[u] : 1 + i - 1 = i
    OBVIOUS
  <2> QED BY <2>1 DEF Bytes, Atomic!Stream
<1> HIDE DEF D, O
<1> USE <1>1, <1>2, <1>3, <1>4, <1>5, <1>6, <1>7
<1>8. CASE /\ sent'[u] = sent[u] /\ object'[u] = object[u]
           /\ Decision(u)' = Decision(u) /\ Outcome(u)' = Outcome(u)
  <2>1. sent' = sent /\ object' = object
    BY <1>8 DEF AreFunctions
  <2>2. D' = D /\ O' = O
    BY <1>8 DEF D, O
  <2> QED BY <2>1, <2>2 DEF Atomic!absvars, D, O, Outcome
<1>9. CASE /\ object[u] = NoObject /\ Outcome(u) = "none" /\ sent'[u] > sent[u]
           /\ object'[u] = object[u] /\ Decision(u)' = Decision(u) /\ Outcome(u)' = Outcome(u)
  <2>1. object' = object
    BY <1>9 DEF AreFunctions
  <2>2. D' = D /\ O' = O
    BY <1>9 DEF D, O
  <2> QED BY <1>9, <2>1, <2>2 DEF Atomic!Next, Atomic!Accept, D, O, Outcome
<1>10. CASE /\ Decision(u) = "open" /\ Decision(u)' \in {"complete", "abort"}
            /\ sent'[u] = sent[u] /\ object'[u] = object[u] /\ Outcome(u)' = Outcome(u)
  <2>1. sent' = sent /\ object' = object
    BY <1>10 DEF AreFunctions
  <2>2. O' = O
    BY <1>10 DEF O
  <2> QED BY <1>10, <2>1, <2>2 DEF Atomic!Next, Atomic!Decide, D, O, Outcome
<1>11. CASE /\ Decision(u) = "complete" /\ Outcome(u) = "none" /\ object[u] = NoObject
            /\ object'[u] = Bytes(1, sent[u])
            /\ sent'[u] = sent[u] /\ Decision(u)' = Decision(u) /\ Outcome(u)' = Outcome(u)
  <2>1. sent' = sent
    BY <1>11 DEF AreFunctions
  <2>2. D' = D /\ O' = O
    BY <1>11 DEF D, O
  <2> QED BY <1>11, <2>1, <2>2 DEF Atomic!Next, Atomic!Publish, D, O, Outcome
<1>12. CASE /\ Outcome(u) = "none" /\ Outcome(u)' \in {"ok", "aborted", "err"}
            /\ Outcome(u)' = "ok" => object[u] # NoObject
            /\ Outcome(u)' = "aborted" => object[u] = NoObject
            /\ sent'[u] = sent[u] /\ object'[u] = object[u] /\ Decision(u)' = Decision(u)
  <2>1. sent' = sent /\ object' = object
    BY <1>12 DEF AreFunctions
  <2>2. D' = D
    BY <1>12 DEF D
  <2> QED BY <1>12, <2>1, <2>2 DEF Atomic!Next, Atomic!Settle, D, O, Outcome
<1>13. CASE /\ Decision(u) = "open" /\ Outcome(u) = "none" /\ object[u] = NoObject
            /\ Decision(u)' = "abort" /\ Outcome(u)' = "aborted"
            /\ sent'[u] = sent[u] /\ object'[u] = object[u]
  <2>1. sent' = sent /\ object' = object
    BY <1>13 DEF AreFunctions
  <2> QED BY <1>13, <2>1 DEF Atomic!Next, Atomic!DecideAndSettle, D, O, Outcome
<1> QED BY <1>8, <1>9, <1>10, <1>11, <1>12, <1>13 DEF Seen

(* run_upload implements the atomic object of AtomicObject. *)
THEOREM Refines == Spec => ImplementsAtomicObject
<1>1. Init => Atomic!Init
  BY DEF Init, Atomic!Init, Decision
<1>2. ContentInv /\ ContentInv' /\ [Next]_vars => [Atomic!Next]_(Atomic!absvars)
  <2> SUFFICES ASSUME ContentInv, ContentInv', [Next]_vars
               PROVE  [Atomic!Next]_(Atomic!absvars)
    OBVIOUS
  <2>1. ASSUME NEW u \in Uploads, Step(u) PROVE [Atomic!Next]_(Atomic!absvars)
    <3>1. /\ AreFunctions /\ AreFunctions' /\ Domains /\ Contents(u)
          /\ Local(u) /\ Local(u)' /\ sent[u] \in Nat
      BY DomainsOfFunctions DEF ContentInv, UploadInv, UploadsInv, Local, DataAt
    <3>2. Seen(u)
      BY <2>1, <3>1, StepSeen
    <3>3. \A v \in Uploads \ {u} : Same(v)
      BY <2>1, <3>1, FramedOthers
    <3> QED BY <3>1, <3>2, <3>3, SeenIsStep
  <2>2. CASE UNCHANGED vars
    BY <2>2 DEF Atomic!absvars, Decision, vars, callerVars, linkVars, workVars, partVars,
                storeVars
  <2> QED BY <2>1, <2>2 DEF Next, Step
<1> QED BY <1>1, <1>2, BytesAreKept, PTL DEF Spec, ImplementsAtomicObject, Atomic!Spec
=============================================================================
