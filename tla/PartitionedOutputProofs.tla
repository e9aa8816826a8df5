----------------------- MODULE PartitionedOutputProofs -----------------------
(***************************************************************************)
(* Proofs about PartitionedOutput, for every strategy, any partitions and  *)
(* targets, every order of the runs and every failure; and about           *)
(* FileOutput, for any rows, streams and templates of a command.           *)
(***************************************************************************)
EXTENDS FileOutput, DataLemmas, FunctionTheorems, TLAPS

(* Helpers: a sink is taken out of the open ones, and put behind them. *)

(* What RemoveAt leaves, and where. *)
LEMMA Removing ==
  ASSUME NEW S, NEW s \in Seq(S), NEW i \in DOMAIN s
  PROVE  /\ RemoveAt(s, i) \in Seq(S) /\ Len(RemoveAt(s, i)) = Len(s) - 1
         /\ DOMAIN RemoveAt(s, i) = 1..(Len(s) - 1)
         /\ \A j \in 1..(Len(s) - 1) :
              RemoveAt(s, i)[j] = s[IF j < i THEN j ELSE j + 1]
<1>1. i \in 1..Len(s) /\ Len(s) \in Nat /\ \A j \in 1..Len(s) : s[j] \in S
  BY LenProperties, ElementOfSeq
<1> DEFINE a == SubSeq(s, 1, i - 1)
           b == SubSeq(s, i + 1, Len(s))
<1>2. /\ a \in Seq(S) /\ Len(a) = i - 1
      /\ \A j \in 1..(i - 1) : a[j] = s[j]
  <2>1. \A j \in 1..(i - 1) : s[j] \in S
    BY <1>1
  <2>2. /\ a \in Seq(S) /\ Len(a) = IF 1 <= i - 1 THEN (i - 1) - 1 + 1 ELSE 0
        /\ \A j \in 1..((i - 1) - 1 + 1) : a[j] = s[1 + j - 1]
    BY <1>1, <2>1, SubSeqProperties
  <2> HIDE DEF a
  <2>3. QED
    BY <1>1, <2>2
<1>3. /\ b \in Seq(S) /\ Len(b) = Len(s) - i
      /\ \A j \in 1..(Len(s) - i) : b[j] = s[i + j]
  <2>1. \A j \in (i + 1)..Len(s) : s[j] \in S
    BY <1>1
  <2>2. /\ b \in Seq(S)
        /\ Len(b) = IF i + 1 <= Len(s) THEN Len(s) - (i + 1) + 1 ELSE 0
        /\ \A j \in 1..(Len(s) - (i + 1) + 1) : b[j] = s[(i + 1) + j - 1]
    BY <1>1, <2>1, SubSeqProperties
  <2> HIDE DEF b
  <2>3. QED
    BY <1>1, <2>2
<1>4. RemoveAt(s, i) = a \o b
  BY DEF RemoveAt
<1> HIDE DEF a, b
<1>5. /\ a \o b \in Seq(S) /\ Len(a \o b) = Len(s) - 1
      /\ \A j \in 1..(Len(s) - 1) :
           (a \o b)[j] = IF j <= i - 1 THEN a[j] ELSE b[j - (i - 1)]
  <2>1. /\ a \o b \in Seq(S) /\ Len(a \o b) = Len(a) + Len(b)
        /\ \A j \in 1..(Len(a) + Len(b)) :
             (a \o b)[j] = IF j <= Len(a) THEN a[j] ELSE b[j - Len(a)]
    BY <1>2, <1>3, ConcatProperties
  <2>2. Len(a) = i - 1 /\ Len(a) + Len(b) = Len(s) - 1
    BY <1>1, <1>2, <1>3
  <2>3. QED
    BY <2>1, <2>2
<1>6. \A j \in 1..(Len(s) - 1) : (a \o b)[j] = s[IF j < i THEN j ELSE j + 1]
  <2>1. ASSUME NEW j \in 1..(Len(s) - 1), j < i
        PROVE  (a \o b)[j] = s[j]
    BY <1>1, <1>2, <1>5, <2>1
  <2>2. ASSUME NEW j \in 1..(Len(s) - 1), ~(j < i)
        PROVE  (a \o b)[j] = s[j + 1]
    <3>1. j - (i - 1) \in 1..(Len(s) - i) /\ i + (j - (i - 1)) = j + 1
      BY <1>1, <2>2
    <3>2. (a \o b)[j] = IF j <= i - 1 THEN a[j] ELSE b[j - (i - 1)]
      BY <1>5
    <3>3. ~(j <= i - 1)
      BY <1>1, <2>2
    <3>4. (a \o b)[j] = b[j - (i - 1)]
      BY <3>2, <3>3
    <3>5. b[j - (i - 1)] = s[i + (j - (i - 1))]
      BY <1>3, <3>1
    <3>6. QED
      BY <3>1, <3>4, <3>5
  <2>3. QED
    BY <2>1, <2>2
<1>7. DOMAIN (a \o b) = 1..(Len(s) - 1)
  BY <1>5, LenProperties
<1>8. QED
  BY <1>4, <1>5, <1>6, <1>7

(* No two sinks of a sequence have the same target. *)
Distinct(s) == \A i, j \in DOMAIN s : s[i].target = s[j].target => i = j

(* A sink taken out leaves the others, with targets of their own. *)
LEMMA TakenOut ==
  ASSUME NEW S, NEW s \in Seq(S), NEW i \in DOMAIN s
  PROVE  /\ Distinct(s) => Distinct(RemoveAt(s, i))
         /\ \A j \in DOMAIN RemoveAt(s, i) :
              \E m \in DOMAIN s : m # i /\ RemoveAt(s, i)[j] = s[m]
<1> DEFINE q == RemoveAt(s, i)
           at(j) == IF j < i THEN j ELSE j + 1
<1>1. DOMAIN s = 1..Len(s) /\ Len(s) \in Nat /\ i \in 1..Len(s)
  BY LenProperties
<1>2. DOMAIN q = 1..(Len(s) - 1) /\ \A j \in 1..(Len(s) - 1) : q[j] = s[at(j)]
  BY Removing
<1>3. \A j \in 1..(Len(s) - 1) : at(j) \in DOMAIN s /\ at(j) # i
  BY <1>1
<1>4. \A j, m \in 1..(Len(s) - 1) : at(j) = at(m) => j = m
  BY <1>1
<1> HIDE DEF q, at
<1>5. Distinct(s) => Distinct(q)
  BY <1>2, <1>3, <1>4 DEF Distinct
<1>6. \A j \in DOMAIN q : \E m \in DOMAIN s : m # i /\ q[j] = s[m]
  BY <1>2, <1>3
<1>7. QED
  BY <1>5, <1>6 DEF q

(* A sink is written and becomes the most recently used. *)
Behind(s, i, e) == Append(RemoveAt(s, i), e)

(* A sink put behind the others has the target it had. *)
LEMMA PutLast ==
  ASSUME NEW S, NEW s \in Seq(S), NEW i \in DOMAIN s, NEW e \in S,
         e.target = s[i].target
  PROVE  /\ Behind(s, i, e) \in Seq(S) /\ Len(Behind(s, i, e)) = Len(s)
         /\ Behind(s, i, e)[Len(s)] = e
         /\ Distinct(s) => Distinct(Behind(s, i, e))
         /\ \A j \in DOMAIN Behind(s, i, e) : \E m \in DOMAIN s :
              Behind(s, i, e)[j].target = s[m].target
<1> DEFINE r == RemoveAt(s, i)
           q == Append(r, e)
<1>1. /\ DOMAIN s = 1..Len(s) /\ Len(s) \in Nat /\ i \in 1..Len(s)
      /\ r \in Seq(S) /\ Len(r) = Len(s) - 1 /\ DOMAIN r = 1..(Len(s) - 1)
  BY LenProperties, Removing
<1>2. /\ Distinct(s) => Distinct(r)
      /\ \A j \in DOMAIN r : \E m \in DOMAIN s : m # i /\ r[j] = s[m]
  BY TakenOut
<1> HIDE DEF r
<1>3. /\ q \in Seq(S) /\ Len(q) = Len(r) + 1 /\ q[Len(r) + 1] = e
      /\ \A j \in 1..Len(r) : q[j] = r[j]
  <2>1. r \in Seq(S) /\ e \in S
    BY <1>1
  <2>2. QED
    BY <2>1, AppendProperties
<1> HIDE DEF q
<1>4. /\ Len(q) = Len(s) /\ q[Len(s)] = e /\ DOMAIN q = 1..Len(s)
      /\ \A j \in 1..(Len(s) - 1) : q[j] = r[j]
  BY <1>1, <1>3, LenProperties
<1>5. \A j \in DOMAIN q : \E m \in DOMAIN s :
        q[j].target = s[m].target /\ (j # Len(s) => m # i /\ j \in DOMAIN r)
  BY <1>1, <1>2, <1>4
<1>6. ASSUME Distinct(s) PROVE Distinct(q)
  <2>1. \A j \in 1..(Len(s) - 1) : q[j].target # e.target
    <3>1. TAKE j \in 1..(Len(s) - 1)
    <3>2. j \in DOMAIN r /\ q[j] = r[j]
      BY <1>1, <1>4
    <3>3. PICK m \in DOMAIN s : m # i /\ r[j] = s[m]
      BY <1>2, <3>2
    <3>4. s[m].target # s[i].target
      BY <1>6, <3>3 DEF Distinct
    <3> QED BY <3>2, <3>3, <3>4
  <2>2. \A j, m \in 1..(Len(s) - 1) : q[j].target = q[m].target => j = m
    <3>1. \A j, m \in 1..(Len(s) - 1) : r[j].target = r[m].target => j = m
      BY <1>1, <1>2, <1>6 DEF Distinct
    <3>2. QED
      BY <1>4, <3>1
  <2>3. \A j \in DOMAIN q : j = Len(s) \/ j \in 1..(Len(s) - 1)
    BY <1>1, <1>4
  <2>4. QED
    BY <1>4, <2>1, <2>2, <2>3 DEF Distinct
<1>7. QED
  BY <1>3, <1>4, <1>5, <1>6 DEF q, r, Behind

-----------------------------------------------------------------------------
(* The invariant. *)

KeyedSinks == [key : Keyed, target : Targets, rows : Seq(1..MaxRuns)]

TypeInv ==
  /\ job \in Jobs /\ pc \in Locations
  /\ seen \in Seq(Keyed) /\ Len(seen) <= job.runs
  /\ open \in Seq(KeyedSinks) /\ completed \in Seq(KeyedSinks)
  /\ numbers \in [Keys -> Nat]
  /\ claimed \subseteq Targets
  /\ store \in [Targets -> Seq(-1..MaxRuns)]

(* A run is in hand when it is written, a sink when it is closed; the sink of
   an exact output is there before the first run. *)
PlaceInv ==
  /\ pc = "write" => seen # <<>> /\ open # <<>>
  /\ pc = "turnover" => open # <<>> /\ Strategy \in {"sort-single", "nosort-evict"}
  /\ Strategy = "exact" /\ pc \in {"next", "write"} => \A k \in Keyed : IsOpen(k)

(* Every file number was used for a run. *)
CountInv ==
  IF Strategy = "exact"
  THEN \A k \in Keys : numbers[k] <= IF pc = "open" THEN 0 ELSE 1
  ELSE \A k \in Keys : /\ numbers[k] <= Len(seen)
                       /\ pc \in {"open", "turnover"} => numbers[k] < Len(seen)

(* There is room for a sink before it is opened. *)
RoomInv ==
  /\ Strategy \in {"exact", "sort-single"} =>
       Len(open) <= IF pc = "open" THEN 0 ELSE 1
  /\ Strategy = "nosort-evict" => /\ Len(open) <= job.maxOpen
                                  /\ pc = "open" => Len(open) < job.maxOpen

(* What may be put at a target without replacing an output. *)
Free(t) == store[t] = NoObject \/ (job.overwrite /\ store[t] = OldObject)

(* Open sinks have claimed targets of their own, where nothing was put yet;
   what is not claimed is as it was. *)
TargetInv ==
  /\ Distinct(open)
  /\ \A i \in DOMAIN open : open[i].target \in claimed /\ Free(open[i].target)
  /\ \A t \in Targets \ claimed : store[t] \in {NoObject, OldObject}

Inv == TypeInv /\ PlaceInv /\ CountInv /\ RoomInv /\ TargetInv

(* What a request that can be made says. *)
LEMMA JobFacts ==
  ASSUME job \in Jobs
  PROVE  /\ Strategy \in Strategies
         /\ Keyed \subseteq Keys /\ Keyed # {}
         /\ \A k \in Keyed : job.path[k] \in Paths
         /\ job.maxOpen \in Nat \ {0} /\ job.runs \in 0..MaxRuns
         /\ Strategy = "exact" => \A k, l \in Keyed : k = l
<1>1. IsRequest(job)
  BY OutputAssumption
<1>2. QED
  BY <1>1 DEF IsRequest, Keyed, Strategy

(* The current partition and its target. *)
LEMMA TargetFacts ==
  ASSUME TypeInv
  PROVE  /\ Key \in Keyed
         /\ CountInv /\ pc = "open" => Target(Key) \in Targets
<1>1. Key \in Keyed
  <2>1. CASE seen = <<>>
    BY <2>1, JobFacts DEF TypeInv, Key
  <2>2. CASE seen # <<>>
    <3>1. Len(seen) \in 1..Len(seen)
      BY <2>2, EmptySeq, LenProperties DEF TypeInv
    <3>2. Last(seen) \in Keyed
      BY <3>1, ElementOfSeq DEF TypeInv, Last
    <3>3. QED
      BY <2>2, <3>2 DEF Key
  <2>3. QED
    BY <2>1, <2>2
<1>2. ASSUME CountInv, pc = "open" PROVE Target(Key) \in Targets
  <2>1. Key \in Keys /\ job.path[Key] \in Paths /\ job.runs \in 0..MaxRuns
    BY <1>1, JobFacts DEF TypeInv
  <2>2. numbers[Key] \in Nat /\ Len(seen) \in Nat /\ Len(seen) <= job.runs
    BY <2>1, LenProperties DEF TypeInv
  <2>3. Strategy = "nosort-evict" => numbers[Key] \in 0..MaxRuns
    BY <1>2, <2>1, <2>2, OutputAssumption DEF CountInv
  <2>4. 0 \in 0..MaxRuns
    BY OutputAssumption
  <2>5. QED
    BY <2>1, <2>3, <2>4 DEF Target, Targets
<1>3. QED
  BY <1>1, <1>2

-----------------------------------------------------------------------------
(* The invariant holds at the beginning. *)

(* The invariant holds at first. *)
LEMMA InitInv == Init => Inv
<1> SUFFICES ASSUME Init PROVE Inv
  OBVIOUS
<1>1. job \in Jobs /\ pc \in {"open", "next"} /\ (pc = "open" <=> Strategy = "exact")
  BY DEF Init
<1>2. TypeInv
  <2>1. seen = <<>> /\ open = <<>> /\ completed = <<>> /\ claimed = {}
    BY DEF Init
  <2>2. /\ seen \in Seq(Keyed) /\ open \in Seq(KeyedSinks)
        /\ completed \in Seq(KeyedSinks) /\ Len(seen) = 0
    BY <2>1, EmptySeq
  <2>3. numbers \in [Keys -> Nat] /\ 0 <= job.runs
    BY <1>1, JobFacts DEF Init
  <2>4. store \in [Targets -> Seq(-1..MaxRuns)]
    <3>1. <<-1>> \in Seq(-1..MaxRuns) /\ <<0>> \in Seq(-1..MaxRuns)
      BY OutputAssumption
    <3>2. QED
      BY <3>1 DEF Init, NoObject, OldObject
  <2>5. QED
    BY <1>1, <2>1, <2>2, <2>3, <2>4 DEF TypeInv, Locations
<1>3. PlaceInv
  BY <1>1 DEF PlaceInv
<1>4. CountInv
  <2>1. numbers = [k \in Keys |-> 0] /\ Len(seen) = 0
    BY DEF Init
  <2>2. QED
    BY <1>1, <2>1 DEF CountInv
<1>5. RoomInv
  <2>1. Len(open) = 0 /\ job.maxOpen \in Nat \ {0}
    BY <1>1, JobFacts DEF Init
  <2>2. QED
    BY <1>1, <2>1 DEF RoomInv
<1>6. TargetInv
  BY DEF Init, TargetInv, Distinct
<1>7. QED
  BY <1>2, <1>3, <1>4, <1>5, <1>6 DEF Inv

(* A step that changes nothing but where the writer stands, to an end. *)
LEMMA Ending ==
  ASSUME Inv, pc' \in {"finishing", "aborting", "ok", "failed"},
         UNCHANGED <<job, seen, open, numbers, claimed, completed, store>>
  PROVE  Inv'
<1>0. TypeInv /\ PlaceInv /\ CountInv /\ RoomInv /\ TargetInv
  BY DEF Inv
<1>1. TypeInv' /\ PlaceInv'
  BY <1>0 DEF TypeInv, PlaceInv, KeyedSinks, Keyed, Locations, Strategy
<1>2. CountInv'
  <2>1. \A k \in Keys : numbers[k] \in Nat
    BY <1>0 DEF TypeInv
  <2>2. QED
    BY <1>0, <2>1 DEF CountInv, Strategy
<1>3. RoomInv'
  <2>1. Len(open) \in Nat
    BY <1>0, LenProperties DEF TypeInv
  <2>2. QED
    BY <1>0, <2>1 DEF RoomInv, Strategy
<1>4. TargetInv'
  BY <1>0 DEF TargetInv, Free, Distinct
<1>5. QED
  BY <1>1, <1>2, <1>3, <1>4 DEF Inv

(* A sink is taken out of the open ones, and nothing else but the store and
   the report may change. *)
LEMMA TakingOut ==
  ASSUME Inv, NEW i \in DOMAIN open, open' = RemoveAt(open, i),
         completed' \in Seq(KeyedSinks), store' \in [Targets -> Seq(-1..MaxRuns)],
         \A t \in Targets : t # open[i].target => store'[t] = store[t],
         pc' \in {"open", "finishing", "aborting"},
         pc' = "open" => pc = "turnover",
         UNCHANGED <<job, seen, numbers, claimed>>
  PROVE  Inv'
<1>0. TypeInv /\ PlaceInv /\ CountInv /\ RoomInv /\ TargetInv
  BY DEF Inv
<1>1. open \in Seq(KeyedSinks) /\ Len(open) \in Nat
  BY <1>0, LenProperties DEF TypeInv
<1>2. /\ open' \in Seq(KeyedSinks) /\ Len(open') = Len(open) - 1
      /\ \A j \in DOMAIN open' : \E m \in DOMAIN open : m # i /\ open'[j] = open[m]
      /\ Distinct(open) => Distinct(open')
  BY <1>1, Removing, TakenOut
<1>3. TypeInv'
  BY <1>0, <1>2 DEF TypeInv, KeyedSinks, Keyed, Locations
<1>4. PlaceInv'
  BY DEF PlaceInv
<1>5. CountInv'
  <2>1. \A k \in Keys : numbers[k] \in Nat
    BY <1>0 DEF TypeInv
  <2>2. pc' = "open" => Strategy # "exact"
    BY <1>0 DEF PlaceInv
  <2>3. QED
    BY <1>0, <2>1, <2>2 DEF CountInv, Strategy
<1>6. RoomInv'
  <2>1. Strategy = "nosort-evict" => job.maxOpen \in Nat
    BY <1>0, JobFacts DEF TypeInv
  <2>2. QED
    BY <1>0, <1>1, <1>2, <2>1 DEF RoomInv, Strategy
<1>7. TargetInv'
  <2>1. ASSUME NEW j \in DOMAIN open'
        PROVE  open'[j].target \in claimed /\ Free(open[j].target)'
    <3>1. PICK m \in DOMAIN open : m # i /\ open'[j] = open[m]
      BY <1>2
    <3>2. open[m].target \in claimed /\ Free(open[m].target)
      BY <1>0 DEF TargetInv
    <3>3. open[m].target \in Targets /\ open[m].target # open[i].target
      <4>1. open[m] \in KeyedSinks
        BY <1>1, <3>1, ElementOfSeq, LenProperties
      <4>2. open[m].target \in Targets
        BY <4>1 DEF KeyedSinks
      <4>3. QED
        BY <1>0, <3>1, <4>2 DEF TargetInv, Distinct
    <3>4. store'[open[m].target] = store[open[m].target]
      BY <3>3
    <3>5. QED
      BY <3>1, <3>2, <3>4 DEF Free
  <2>2. ASSUME NEW t \in Targets \ claimed
        PROVE  store'[t] \in {NoObject, OldObject}
    <3>1. t # open[i].target /\ store[t] \in {NoObject, OldObject}
      BY <1>0 DEF TargetInv
    <3>2. QED
      BY <3>1
  <2>3. QED
    BY <1>0, <1>2, <2>1, <2>2 DEF TargetInv
<1>8. QED
  BY <1>3, <1>4, <1>5, <1>6, <1>7 DEF Inv

-----------------------------------------------------------------------------
(* The actions keep the invariant. *)

(* The next run has its sink, or room is made for one. *)
LEMMA NextRunInv == ASSUME Inv, NextRun PROVE Inv'
<1>0. TypeInv /\ PlaceInv /\ CountInv /\ RoomInv /\ TargetInv
  BY DEF Inv
<1>1. PICK k \in Keyed :
        /\ pc = "next" /\ Len(seen) < job.runs /\ seen' = Append(seen, k)
        /\ pc' = IF HasSink(k) THEN "write"
                 ELSE IF Turnover(k) THEN "turnover" ELSE "open"
        /\ UNCHANGED <<job, open, numbers, claimed, completed, store>>
  BY DEF NextRun, Goto, Run
<1>2. /\ seen' \in Seq(Keyed) /\ Len(seen') = Len(seen) + 1 /\ Len(seen) \in Nat
      /\ seen' # <<>>
  BY <1>0, <1>1, AppendProperties, LenProperties DEF TypeInv
<1>3. Len(open) \in Nat /\ job.maxOpen \in Nat \ {0} /\ job.runs \in Nat
  BY <1>0, JobFacts, LenProperties DEF TypeInv
<1>4. Len(open) # 0 => open # <<>>
  OBVIOUS
<1>5. IsOpen(k) => open # <<>>
  BY DEF IsOpen
<1>6. Strategy = "exact" => IsOpen(k)
  BY <1>0, <1>1 DEF PlaceInv
<1>7. TypeInv'
  BY <1>0, <1>1, <1>2, <1>3 DEF TypeInv, KeyedSinks, Keyed, Locations
<1>8. PlaceInv'
  <2>1. pc' = "write" => open # <<>>
    BY <1>1, <1>5 DEF HasSink
  <2>2. pc' = "turnover" => open # <<>> /\ Strategy \in {"sort-single", "nosort-evict"}
    BY <1>1, <1>3, <1>4 DEF Turnover, Full
  <2>3. pc' \in {"write", "turnover", "open"}
    BY <1>1
  <2>4. Strategy = "exact" => \A l \in Keyed : IsOpen(l)
    BY <1>0, <1>1 DEF PlaceInv
  <2>5. QED
    BY <1>1, <1>2, <2>1, <2>2, <2>3, <2>4 DEF PlaceInv, Strategy, Keyed, IsOpen
<1>9. CountInv'
  <2>1. \A l \in Keys : numbers[l] \in Nat
    BY <1>0 DEF TypeInv
  <2>2. Strategy = "exact" => pc' = "write"
    BY <1>1, <1>6 DEF HasSink
  <2>3. QED
    BY <1>0, <1>1, <1>2, <2>1, <2>2 DEF CountInv, Strategy
<1>10. RoomInv'
  <2>1. CASE pc' = "open"
    <3>1. ~HasSink(k) /\ ~Turnover(k)
      BY <1>1, <2>1
    <3>2. Strategy # "exact" /\ (Strategy = "sort-single" => Len(open) = 0)
      BY <1>6, <3>1 DEF HasSink, Turnover
    <3>3. Strategy = "nosort-evict" => Len(open) # job.maxOpen
      BY <3>1 DEF Turnover, Full
    <3>4. QED
      BY <1>0, <1>1, <1>3, <3>2, <3>3 DEF RoomInv, Strategy
  <2>2. CASE pc' # "open"
    BY <1>0, <1>1, <1>3, <2>2 DEF RoomInv, Strategy
  <2>3. QED
    BY <2>1, <2>2
<1>11. TargetInv'
  BY <1>0, <1>1 DEF TargetInv, Free, Distinct
<1>12. QED
  BY <1>7, <1>8, <1>9, <1>10, <1>11 DEF Inv

(* A sink is opened at a target of its own, where there is room. *)
LEMMA OpenOkInv == ASSUME Inv, OpenOk PROVE Inv'
<1>0. TypeInv /\ PlaceInv /\ CountInv /\ RoomInv /\ TargetInv
  BY DEF Inv
<1> DEFINE sink == [key |-> Key, target |-> Target(Key), rows |-> <<>>]
           n    == Len(open) + 1
<1>1. /\ pc = "open" /\ Target(Key) \notin claimed
      /\ job.overwrite \/ store[Target(Key)] = NoObject
      /\ claimed' = claimed \cup {Target(Key)} /\ open' = Append(open, sink)
      /\ numbers' = [numbers EXCEPT ![Key] = @ + 1]
      /\ pc' = IF Strategy = "exact" THEN "next" ELSE "write"
      /\ UNCHANGED <<job, seen, completed, store>>
  BY DEF OpenOk, Unclaimed, Absent, Goto
<1>2. Key \in Keyed /\ Key \in Keys /\ Target(Key) \in Targets
  BY <1>0, <1>1, TargetFacts, JobFacts DEF TypeInv
<1>3. sink \in KeyedSinks /\ sink.key = Key /\ sink.target = Target(Key)
  BY <1>2, EmptySeq DEF KeyedSinks
<1> HIDE DEF sink
<1>4. /\ open' \in Seq(KeyedSinks) /\ Len(open') = n /\ open' # <<>>
      /\ Len(open) \in Nat /\ DOMAIN open = 1..Len(open) /\ DOMAIN open' = 1..n
      /\ \A i \in DOMAIN open : open'[i] = open[i]
      /\ open'[n] = sink
  <2>1. open \in Seq(KeyedSinks) /\ Len(open) \in Nat /\ DOMAIN open = 1..Len(open)
    BY <1>0, LenProperties DEF TypeInv
  <2>2. /\ open' \in Seq(KeyedSinks) /\ Len(open') = n /\ open' # <<>>
        /\ \A i \in 1..Len(open) : open'[i] = open[i]
        /\ open'[n] = sink
    BY <1>1, <1>3, <2>1, AppendProperties
  <2>3. DOMAIN open' = 1..n
    BY <2>2, LenProperties
  <2>4. QED
    BY <2>1, <2>2, <2>3
<1>5. TypeInv'
  BY <1>0, <1>1, <1>2, <1>4 DEF TypeInv, KeyedSinks, Keyed, Locations
<1>6. CountInv'
  <2>1. /\ \A k \in Keys : numbers[k] \in Nat /\ numbers'[k] \in Nat
                            /\ numbers'[k] <= numbers[k] + 1
        /\ Len(seen) \in Nat
    BY <1>0, <1>1, <1>2, LenProperties DEF TypeInv
  <2>2. CASE Strategy = "exact"
    BY <1>0, <1>1, <2>1, <2>2 DEF CountInv, Strategy
  <2>3. CASE Strategy # "exact"
    BY <1>0, <1>1, <2>1, <2>3 DEF CountInv, Strategy
  <2>4. QED
    BY <2>2, <2>3
<1>7. PlaceInv'
  <2>1. Strategy # "exact" => seen # <<>>
    <3>1. numbers[Key] \in Nat /\ (Strategy # "exact" => numbers[Key] < Len(seen))
      BY <1>0, <1>1, <1>2 DEF TypeInv, CountInv
    <3>2. seen = <<>> => Len(seen) = 0
      OBVIOUS
    <3>3. QED
      BY <3>1, <3>2
  <2>2. Strategy = "exact" => \A k \in Keyed : IsOpen(k)'
    <3>1. n \in DOMAIN open' /\ open'[n].key = Key
      BY <1>3, <1>4
    <3>2. Strategy = "exact" => \A k \in Keyed : k = Key
      BY <1>0, <1>2, JobFacts DEF TypeInv
    <3>3. QED
      BY <3>1, <3>2 DEF IsOpen
  <2>3. QED
    BY <1>1, <1>4, <2>1, <2>2 DEF PlaceInv, Strategy, Keyed
<1>8. RoomInv'
  <2>1. Strategy = "nosort-evict" => job.maxOpen \in Nat
    BY <1>0, JobFacts DEF TypeInv
  <2>2. QED
    BY <1>0, <1>1, <1>4, <2>1 DEF RoomInv, Strategy
<1>9. TargetInv'
  <2>1. Free(Target(Key))
    BY <1>0, <1>1, <1>2 DEF TargetInv, Free
  <2>2. \A i \in DOMAIN open' : i = n \/ i \in DOMAIN open
    BY <1>4
  <2>3. Distinct(open')
    BY <1>0, <1>1, <1>3, <1>4, <2>2 DEF TargetInv, Distinct
  <2>4. ASSUME NEW i \in DOMAIN open'
        PROVE  open'[i].target \in claimed' /\ Free(open[i].target)'
    <3>1. open'[i].target \in claimed' /\ Free(open'[i].target)
      BY <1>0, <1>1, <1>3, <1>4, <2>1, <2>2 DEF TargetInv
    <3>2. QED
      BY <1>1, <3>1 DEF Free
  <2>5. \A t \in Targets \ claimed' : store'[t] \in {NoObject, OldObject}
    BY <1>0, <1>1 DEF TargetInv
  <2>6. QED
    BY <2>3, <2>4, <2>5 DEF TargetInv
<1>10. QED
  BY <1>5, <1>6, <1>7, <1>8, <1>9 DEF Inv

(* A write keeps the sinks, and puts the one it writes behind the others. *)
LEMMA WriteFacts ==
  ASSUME Inv, Write
  PROVE  /\ open' \in Seq(KeyedSinks) /\ Len(open') = Len(open)
         /\ Len(open) \in DOMAIN open'
         /\ Distinct(open) => Distinct(open')
         /\ \A j \in DOMAIN open' : \E m \in DOMAIN open :
              open'[j].target = open[m].target
         /\ Strategy = "exact" => \A k \in Keyed : k = open'[Len(open)].key
<1>0. TypeInv /\ PlaceInv /\ CountInv /\ RoomInv /\ TargetInv
  BY DEF Inv
<1> DEFINE i == SinkOf
           e == [open[i] EXCEPT !.rows = Append(@, Run)]
<1>1. /\ pc = "write" /\ pc' = "next" /\ open' = Append(RemoveAt(open, i), e)
      /\ UNCHANGED <<job, seen, numbers, claimed, completed, store>>
  BY DEF Write, Goto
<1>2. open \in Seq(KeyedSinks) /\ Len(open) \in Nat /\ DOMAIN open = 1..Len(open)
  BY <1>0, LenProperties DEF TypeInv
<1>3. i \in DOMAIN open
  <2>1. Len(open) \in DOMAIN open
    BY <1>0, <1>1, <1>2, EmptySeq DEF PlaceInv
  <2>2. QED
    BY <2>1 DEF SinkOf, IsOpen
<1>4. open[i] \in KeyedSinks
  BY <1>2, <1>3, ElementOfSeq
<1>5. Run \in 1..MaxRuns
  <2>1. seen \in Seq(Keyed) /\ seen # <<>> /\ Len(seen) <= job.runs
    BY <1>0, <1>1 DEF TypeInv, PlaceInv
  <2>2. Len(seen) \in Nat \ {0} /\ job.runs \in 0..MaxRuns
    BY <1>0, <2>1, EmptySeq, JobFacts DEF TypeInv
  <2>3. QED
    BY <2>1, <2>2, OutputAssumption DEF Run
<1>6. e \in KeyedSinks /\ e.target = open[i].target /\ e.key = open[i].key
  <2>1. Append(open[i].rows, Run) \in Seq(1..MaxRuns)
    BY <1>4, <1>5, AppendProperties DEF KeyedSinks
  <2>2. QED
    BY <1>4, <2>1 DEF KeyedSinks
<1> HIDE DEF i, e
<1>7. PICK m \in DOMAIN open, f \in KeyedSinks :
        f.target = open[m].target /\ f.key = open[m].key /\ open' = Behind(open, m, f)
  BY <1>1, <1>3, <1>6 DEF Behind
<1>8. /\ open' \in Seq(KeyedSinks) /\ Len(open') = Len(open) /\ open'[Len(open)] = f
      /\ Distinct(open) => Distinct(open')
      /\ \A j \in DOMAIN open' : \E n \in DOMAIN open : open'[j].target = open[n].target
  <2>1. /\ Behind(open, m, f) \in Seq(KeyedSinks)
        /\ Len(Behind(open, m, f)) = Len(open) /\ Behind(open, m, f)[Len(open)] = f
        /\ Distinct(open) => Distinct(Behind(open, m, f))
        /\ \A j \in DOMAIN Behind(open, m, f) : \E n \in DOMAIN open :
             Behind(open, m, f)[j].target = open[n].target
    <3>1. open \in Seq(KeyedSinks) /\ f.target = open[m].target
      BY <1>2, <1>7
    <3>2. Behind(open, m, f) \in Seq(KeyedSinks) /\ Len(Behind(open, m, f)) = Len(open)
      BY <3>1, PutLast
    <3>3. Behind(open, m, f)[Len(open)] = f
      BY <3>1, PutLast
    <3>4. Distinct(open) => Distinct(Behind(open, m, f))
      BY <3>1, PutLast
    <3>5. \A j \in DOMAIN Behind(open, m, f) : \E n \in DOMAIN open :
             Behind(open, m, f)[j].target = open[n].target
      BY <3>1, PutLast
    <3>6. QED
      BY <3>2, <3>3, <3>4, <3>5
  <2>2. QED
    BY <1>7, <2>1
<1>9. Strategy = "exact" => \A k \in Keyed : k = f.key
  BY <1>0, <1>7, JobFacts DEF TypeInv, KeyedSinks
<1>10. Len(open) \in DOMAIN open'
  BY <1>2, <1>3, <1>8, LenProperties
<1>11. QED
  BY <1>8, <1>9, <1>10

(* A write moves the sink behind the others. *)
LEMMA WriteInv == ASSUME Inv, Write PROVE Inv'
<1>0. TypeInv /\ PlaceInv /\ CountInv /\ RoomInv /\ TargetInv
  BY DEF Inv
<1>1. /\ pc = "write" /\ pc' = "next"
      /\ UNCHANGED <<job, seen, numbers, claimed, completed, store>>
  BY DEF Write, Goto
<1>2. /\ open' \in Seq(KeyedSinks) /\ Len(open') = Len(open)
      /\ Distinct(open) => Distinct(open')
      /\ \A j \in DOMAIN open' : \E m \in DOMAIN open :
           open'[j].target = open[m].target
  BY WriteFacts
<1>3. TypeInv'
  BY <1>0, <1>1, <1>2 DEF TypeInv, KeyedSinks, Keyed, Locations
<1>4. PlaceInv'
  <2>1. Strategy = "exact" => \A k \in Keyed : IsOpen(k)'
    BY WriteFacts DEF IsOpen
  <2>2. QED
    BY <1>1, <2>1 DEF PlaceInv, Strategy, Keyed
<1>5. CountInv' /\ RoomInv'
  BY <1>0, <1>1, <1>2 DEF CountInv, RoomInv, Strategy
<1>6. TargetInv'
  <2>1. ASSUME NEW j \in DOMAIN open'
        PROVE  open'[j].target \in claimed' /\ Free(open[j].target)'
    <3>1. open'[j].target \in claimed' /\ Free(open'[j].target)
      BY <1>0, <1>1, <1>2 DEF TargetInv
    <3>2. QED
      BY <1>1, <3>1 DEF Free
  <2>2. QED
    BY <1>0, <1>1, <1>2, <2>1 DEF TargetInv
<1>7. QED
  BY <1>3, <1>4, <1>5, <1>6 DEF Inv

(* What a finish does to the store and the report. *)
LEMMA FinishFacts ==
  ASSUME TypeInv, NEW i \in DOMAIN open, NEW then, Finish(i, then)
  PROVE  /\ open[i] \in KeyedSinks
         /\ open' = RemoveAt(open, i) /\ completed' \in Seq(KeyedSinks)
         /\ store' \in [Targets -> Seq(-1..MaxRuns)]
         /\ \A t \in Targets : t # open[i].target => store'[t] = store[t]
         /\ pc' \in {then, "aborting"}
         /\ UNCHANGED <<job, seen, numbers, claimed>>
<1>1. open[i] \in KeyedSinks
  BY ElementOfSeq, LenProperties DEF TypeInv
<1>2. open[i].rows \in Seq(-1..MaxRuns)
  <2>1. 1..MaxRuns \subseteq -1..MaxRuns
    BY OutputAssumption
  <2>2. QED
    BY <1>1, <2>1, SeqMonotonic DEF KeyedSinks
<1>3. /\ \/ store' = [store EXCEPT ![open[i].target] = open[i].rows]
         \/ store' = store
      /\ \/ completed' = Append(completed, open[i]) /\ pc' = then
         \/ completed' = completed /\ pc' = "aborting"
  BY DEF Finish, Goto, ReportFailed, AbortOthers
<1>3a. open' = RemoveAt(open, i) /\ UNCHANGED <<job, seen, numbers, claimed>>
  BY DEF Finish
<1>4. completed' \in Seq(KeyedSinks)
  <2>1. completed \in Seq(KeyedSinks)
    BY DEF TypeInv
  <2>2. Append(completed, open[i]) \in Seq(KeyedSinks)
    BY <1>1, <2>1, AppendProperties
  <2>3. QED
    BY <1>3, <2>1, <2>2
<1>5. /\ store' \in [Targets -> Seq(-1..MaxRuns)]
      /\ \A t \in Targets : t # open[i].target => store'[t] = store[t]
  BY <1>1, <1>2, <1>3 DEF TypeInv, KeyedSinks
<1>6. QED
  BY <1>1, <1>3, <1>3a, <1>4, <1>5

(* Every step keeps the invariant. *)
LEMMA Step == Inv /\ [Next]_vars => Inv'
<1> SUFFICES ASSUME Inv, [Next]_vars PROVE Inv'
  OBVIOUS
<1>0. TypeInv /\ PlaceInv /\ CountInv /\ RoomInv /\ TargetInv
  BY DEF Inv
<1>1. CASE NextRun
  BY <1>1, NextRunInv
<1>2. CASE StreamEnds \/ StreamFails \/ WriteFails \/ Succeed \/ Fail
  BY <1>2, Ending DEF StreamEnds, StreamFails, WriteFails, Succeed, Fail, Goto
<1>3. CASE OpenOk
  BY <1>3, OpenOkInv
<1>4. CASE OpenFails
  <2>1. /\ pc = "open" /\ claimed' \in {claimed, claimed \cup {Target(Key)}}
        /\ pc' = "aborting"
        /\ UNCHANGED <<job, seen, open, numbers, completed, store>>
    BY <1>4 DEF OpenFails, Goto
  <2>2. claimed \subseteq claimed' /\ claimed' \subseteq Targets
    BY <1>0, <2>1, TargetFacts DEF TypeInv
  <2>3. TypeInv' /\ PlaceInv'
    BY <1>0, <2>1, <2>2 DEF TypeInv, PlaceInv, KeyedSinks, Keyed, Locations
  <2>4. CountInv'
    <3>1. \A k \in Keys : numbers[k] \in Nat
      BY <1>0 DEF TypeInv
    <3>2. QED
      BY <1>0, <2>1, <3>1 DEF CountInv, Strategy
  <2>5. RoomInv'
    <3>1. Len(open) \in Nat
      BY <1>0, LenProperties DEF TypeInv
    <3>2. QED
      BY <1>0, <2>1, <3>1 DEF RoomInv, Strategy
  <2>6. TargetInv'
    BY <1>0, <2>1, <2>2 DEF TargetInv, Free, Distinct
  <2>7. QED
    BY <2>3, <2>4, <2>5, <2>6 DEF Inv
<1>5. CASE Write
  BY <1>5, WriteInv
<1>6. CASE FinishVictim
  <2>1. pc = "turnover" /\ Finish(1, "open") /\ 1 \in DOMAIN open
    BY <1>0, <1>6, EmptySeq, LenProperties DEF FinishVictim, PlaceInv, TypeInv
  <2>2. QED
    BY <1>0, <2>1, FinishFacts, TakingOut
<1>7. CASE FinishNext
  BY <1>0, <1>7, FinishFacts, TakingOut DEF FinishNext
<1>8. CASE AbortNext
  <2>1. PICK i \in DOMAIN open : open' = RemoveAt(open, i)
    BY <1>8 DEF AbortNext
  <2>2. /\ pc' = "aborting" /\ UNCHANGED <<job, seen, numbers, claimed, completed, store>>
    BY <1>8 DEF AbortNext
  <2>3. QED
    BY <1>0, <2>1, <2>2, TakingOut DEF TypeInv
<1>9. CASE UNCHANGED vars
  BY <1>0, <1>9 DEF vars, Inv, TypeInv, PlaceInv, CountInv, RoomInv, TargetInv, IsOpen,
     KeyedSinks, Keyed, Locations, Strategy, Free, Distinct
<1>10. QED
  BY <1>1, <1>2, <1>3, <1>4, <1>5, <1>6, <1>7, <1>8, <1>9 DEF Next

(* The invariant holds throughout. *)
LEMMA InvHolds == Spec => []Inv
BY InitInv, Step, PTL DEF Spec

-----------------------------------------------------------------------------
(* The theorems. *)

(* The types of the variables: a file number never exceeds the runs read, and
   a run is written only when it was read (new_sink_for_partition and
   write_batch of the partitioned writers). *)
THEOREM TypesHold == Spec => []TypeOK
<1>1. Inv => TypeOK
  <2> SUFFICES ASSUME Inv PROVE TypeOK
    OBVIOUS
  <2>1. TypeInv /\ CountInv
    BY DEF Inv
  <2>2. Keyed \subseteq Keys /\ job.runs \in 0..MaxRuns
    BY <2>1, JobFacts DEF TypeInv
  <2>3. seen \in Seq(Keys)
    BY <2>1, <2>2, SeqMonotonic DEF TypeInv
  <2>4. open \in Seq(Sinks) /\ completed \in Seq(Sinks)
    <3>1. KeyedSinks \subseteq Sinks
      BY <2>2 DEF KeyedSinks, Sinks
    <3>2. QED
      BY <2>1, <3>1, SeqMonotonic DEF TypeInv
  <2>5. numbers \in [Keys -> 0..MaxRuns]
    <3>1. numbers \in [Keys -> Nat] /\ Len(seen) <= MaxRuns /\ Len(seen) \in Nat
      BY <2>1, <2>2, OutputAssumption, LenProperties DEF TypeInv
    <3>2. \A k \in Keys : numbers[k] \in Nat /\ numbers[k] <= MaxRuns
      BY <2>1, <3>1, OutputAssumption DEF CountInv
    <3>3. \A k \in Keys : numbers[k] \in 0..MaxRuns
      BY <3>2, OutputAssumption
    <3>4. QED
      BY <3>1, <3>3
  <2>6. QED
    BY <2>1, <2>3, <2>4, <2>5 DEF TypeOK, TypeInv
<1>2. QED
  BY InvHolds, <1>1, PTL

(* However the partitions alternate, sort-single never holds two sinks and
   nosort-evict never more than --max-open-partitions: the victim leaves the
   cache before the new sink is opened. *)
THEOREM OpenIsBounded == Spec => []OpenBounded
<1>1. Inv => OpenBounded
  <2> SUFFICES ASSUME Inv PROVE OpenBounded
    OBVIOUS
  <2>1. RoomInv /\ Len(open) \in Nat
    BY LenProperties DEF Inv, TypeInv
  <2>2. QED
    BY <2>1 DEF RoomInv, OpenBounded
<1>2. QED
  BY InvHolds, <1>1, PTL

(* Only a finish shows an object, at a target that the command claimed and at
   which it has put nothing yet: no output of the command is overwritten by
   another one, and nobody else's without --overwrite. *)
THEOREM NothingReplaced == Spec => NeverReplaced
<1> DEFINE A == \A t \in Targets : store'[t] # store[t] =>
                  store[t] = NoObject \/ (job.overwrite /\ store[t] = OldObject)
<1>1. Inv /\ [Next]_vars => [A]_vars
  <2> SUFFICES ASSUME Inv, Next PROVE A
    BY DEF vars
  <2>1. TypeInv /\ PlaceInv /\ TargetInv
    BY DEF Inv
  <2>2. ASSUME NEW i \in DOMAIN open, NEW then, Finish(i, then) PROVE A
    <3>1. \A t \in Targets : t # open[i].target => store'[t] = store[t]
      BY <2>1, <2>2, FinishFacts
    <3>2. Free(open[i].target)
      BY <2>1 DEF TargetInv
    <3>3. QED
      BY <3>1, <3>2 DEF Free
  <2>3. CASE FinishVictim
    <3>1. pc = "turnover" /\ Finish(1, "open") /\ 1 \in DOMAIN open
      BY <2>1, <2>3, EmptySeq, LenProperties DEF FinishVictim, PlaceInv, TypeInv
    <3>2. QED
      BY <2>2, <3>1
  <2>4. CASE FinishNext
    BY <2>2, <2>4 DEF FinishNext
  <2>5. CASE ~FinishVictim /\ ~FinishNext
    <3>1. UNCHANGED store
      BY <2>5 DEF Next, NextRun, StreamEnds, StreamFails, OpenOk, OpenFails, Write,
         WriteFails, Succeed, AbortNext, Fail
    <3>2. QED
      BY <3>1
  <2>6. QED
    BY <2>3, <2>4, <2>5
<1>2. QED
  BY InvHolds, <1>1, PTL DEF Spec, NeverReplaced

-----------------------------------------------------------------------------
(* The report. *)

Reported(t) == \E i \in DOMAIN completed : completed[i].target = t
Unreported(t) ==
  t \in Targets /\ ~Reported(t) /\ store[t] \notin {NoObject, OldObject}

(* What is reported is shown, and no open sink can replace it; only a failed
   finish leaves an object that is not reported, and it ends the command. *)
ReportInv ==
  /\ \A i \in DOMAIN completed :
       /\ completed[i].target \in claimed
       /\ store[completed[i].target] = completed[i].rows
       /\ \A j \in DOMAIN open : open[j].target # completed[i].target
  /\ \A t, u : Unreported(t) /\ Unreported(u) => t = u
  /\ \A t : Unreported(t) => pc \in {"aborting", "failed"}

(* Nothing is reported at first. *)
LEMMA ReportInit == Init => ReportInv
<1> SUFFICES ASSUME Init PROVE ReportInv
  OBVIOUS
<1>1. completed = <<>> /\ \A t \in Targets : store[t] \in {NoObject, OldObject}
  BY DEF Init
<1>2. DOMAIN completed = {}
  BY <1>1
<1>3. QED
  BY <1>1, <1>2 DEF ReportInv, Unreported

(* The steps that finish no sink: what they open is not claimed before. *)
LEMMA ReportKept ==
  ASSUME TypeInv, ReportInv, UNCHANGED <<completed, store>>,
         claimed \subseteq claimed',
         pc \in {"aborting", "failed"} => pc' \in {"aborting", "failed"},
         \A j \in DOMAIN open' :
           \/ open'[j].target \notin claimed
           \/ \E m \in DOMAIN open : open'[j].target = open[m].target
  PROVE  ReportInv'
<1>1. ASSUME NEW i \in DOMAIN completed'
      PROVE  /\ completed'[i].target \in claimed'
             /\ store'[completed'[i].target] = completed'[i].rows
             /\ \A j \in DOMAIN open' : open'[j].target # completed'[i].target
  BY <1>1 DEF ReportInv
<1>2. \A t : Unreported(t)' => Unreported(t)
  BY DEF Unreported, Reported
<1>3. QED
  BY <1>1, <1>2 DEF ReportInv

(* A sink that is finished is shown, then reported. *)
LEMMA ReportFinish ==
  ASSUME Inv, ReportInv, NEW i \in DOMAIN open, NEW then, Finish(i, then),
         pc \notin {"aborting", "failed"}
  PROVE  ReportInv'
<1> DEFINE sink == open[i]
<1>1. /\ sink \in KeyedSinks /\ open' = RemoveAt(open, i)
      /\ \A t \in Targets : t # sink.target => store'[t] = store[t]
      /\ claimed' = claimed
  BY FinishFacts DEF Inv
<1>2. /\ \/ /\ completed' = Append(completed, sink)
            /\ store' = [store EXCEPT ![sink.target] = sink.rows]
         \/ completed' = completed /\ pc' = "aborting"
  BY DEF Finish, Goto, ReportFailed, AbortOthers
<1>3. sink.target \in claimed /\ sink.target \in Targets /\ claimed \subseteq Targets
  BY <1>1 DEF Inv, TypeInv, TargetInv, KeyedSinks
<1>4. /\ completed \in Seq(KeyedSinks) /\ open \in Seq(KeyedSinks)
      /\ store \in [Targets -> Seq(-1..MaxRuns)]
  BY DEF Inv, TypeInv
<1>5. \A j \in DOMAIN open' :
        \E m \in DOMAIN open : open'[j] = open[m] /\ open[m].target # sink.target
  <2>1. \A j \in DOMAIN open' : \E m \in DOMAIN open : m # i /\ open'[j] = open[m]
    BY <1>1, <1>4, TakenOut
  <2>2. QED
    BY <2>1 DEF Inv, TargetInv, Distinct
<1>6. \A j \in DOMAIN completed :
        /\ completed[j].target \in claimed /\ completed[j].target # sink.target
        /\ store'[completed[j].target] = completed[j].rows
        /\ \A m \in DOMAIN open' : open'[m].target # completed[j].target
  BY <1>1, <1>3, <1>5 DEF ReportInv
<1>7. \A t : ~Unreported(t)
  BY DEF ReportInv
<1> HIDE DEF sink
<1>8. CASE /\ completed' = Append(completed, sink)
           /\ store' = [store EXCEPT ![sink.target] = sink.rows]
  <2> DEFINE n == Len(completed) + 1
  <2>1. /\ DOMAIN completed' = 1..n /\ completed'[n] = sink
        /\ \A j \in 1..(n - 1) : completed'[j] = completed[j]
        /\ DOMAIN completed = 1..(n - 1) /\ n \in Nat \ {0}
    <3>1. DOMAIN completed = 1..Len(completed) /\ Len(completed) \in Nat
      BY <1>4, LenProperties
    <3>2. /\ completed' \in Seq(KeyedSinks) /\ Len(completed') = n /\ completed'[n] = sink
          /\ \A j \in 1..Len(completed) : completed'[j] = completed[j]
      BY <1>1, <1>4, <1>8, AppendProperties
    <3>3. QED
      BY <3>1, <3>2, LenProperties
  <2> HIDE DEF n
  <2>2. \A j \in DOMAIN completed' : j = n \/ j \in DOMAIN completed
    BY <2>1
  <2>3. store'[sink.target] = sink.rows
    BY <1>3, <1>4, <1>8
  <2>4. \A j \in DOMAIN completed' :
          /\ completed'[j].target \in claimed'
          /\ store'[completed'[j].target] = completed'[j].rows
          /\ \A m \in DOMAIN open' : open'[m].target # completed'[j].target
    BY <1>1, <1>3, <1>5, <1>6, <2>1, <2>2, <2>3
  <2>5. \A t : ~Unreported(t)'
    <3>1. n \in DOMAIN completed' /\ DOMAIN completed \subseteq DOMAIN completed'
      BY <2>1
    <3>2. \A t : Unreported(t)' => t # sink.target /\ ~Reported(t)
      BY <2>1, <3>1 DEF Unreported, Reported
    <3>3. QED
      BY <1>1, <1>7, <3>2 DEF Unreported
  <2>6. QED
    BY <2>4, <2>5 DEF ReportInv
<1>9. CASE completed' = completed /\ pc' = "aborting"
  <2>1. \A t : Unreported(t)' => t = sink.target
    BY <1>1, <1>7, <1>9 DEF Unreported, Reported
  <2>2. QED
    BY <1>1, <1>6, <1>9, <2>1 DEF ReportInv
<1>10. QED
  BY <1>2, <1>8, <1>9

(* Every step keeps what was reported. *)
LEMMA ReportStep == Inv /\ ReportInv /\ [Next]_vars => ReportInv'
<1> SUFFICES ASSUME Inv, ReportInv, [Next]_vars PROVE ReportInv'
  OBVIOUS
<1>0. TypeInv /\ PlaceInv
  BY DEF Inv
<1>1. CASE \/ NextRun \/ StreamEnds \/ StreamFails \/ OpenFails \/ WriteFails
           \/ Succeed \/ Fail \/ UNCHANGED vars
  <2>1. /\ UNCHANGED <<open, completed, store>> /\ claimed \subseteq claimed'
        /\ pc \in {"aborting", "failed"} => pc' \in {"aborting", "failed"}
    BY <1>1 DEF NextRun, StreamEnds, StreamFails, OpenFails, WriteFails, Succeed,
       Fail, Goto, vars
  <2>2. QED
    BY <1>0, <2>1, ReportKept
<1>2. CASE OpenOk
  <2> DEFINE sink == [key |-> Key, target |-> Target(Key), rows |-> <<>>]
  <2>1. /\ pc = "open" /\ open' = Append(open, sink)
        /\ sink.target \notin claimed /\ claimed \subseteq claimed'
        /\ UNCHANGED <<completed, store>>
    BY <1>2 DEF OpenOk, Unclaimed
  <2> HIDE DEF sink
  <2>2. ASSUME NEW j \in DOMAIN open', ~(j \in DOMAIN open /\ open'[j] = open[j])
        PROVE  open'[j] = sink
    BY <1>0, <2>1, <2>2 DEF TypeInv
  <2>3. QED
    BY <1>0, <2>1, <2>2, ReportKept
<1>3. CASE Write
  <2>1. /\ pc = "write" /\ UNCHANGED <<claimed, completed, store>>
        /\ \A j \in DOMAIN open' : \E m \in DOMAIN open :
             open'[j].target = open[m].target
    BY <1>3, WriteFacts DEF Write
  <2>2. QED
    BY <1>0, <2>1, ReportKept
<1>4. CASE FinishVictim
  <2>1. pc = "turnover" /\ Finish(1, "open") /\ 1 \in DOMAIN open
    BY <1>0, <1>4, EmptySeq, LenProperties DEF FinishVictim, PlaceInv, TypeInv
  <2>2. QED
    BY <2>1, ReportFinish
<1>5. CASE FinishNext
  BY <1>5, ReportFinish DEF FinishNext
<1>6. CASE AbortNext
  <2>1. PICK i \in DOMAIN open : open' = RemoveAt(open, i)
    BY <1>6 DEF AbortNext
  <2>2. pc' = pc /\ UNCHANGED <<claimed, completed, store>>
    BY <1>6 DEF AbortNext
  <2>3. \A j \in DOMAIN open' : \E m \in DOMAIN open : open'[j] = open[m]
    BY <1>0, <2>1, TakenOut DEF TypeInv
  <2>4. QED
    BY <1>0, <2>2, <2>3, ReportKept
<1>7. QED
  BY <1>1, <1>2, <1>3, <1>4, <1>5, <1>6 DEF Next

(* What the report lists is durable and whole, at every moment and also after
   a failure (finish_evicted, finish_all and abort_all of the partitioned
   writers): of the other open sinks none becomes visible once one has failed
   to finish, so that at most one object is there without being reported. *)
THEOREM ReportsAreDurable == Spec => []ReportIsDurable
<1>1. Spec => []ReportInv
  BY ReportInit, ReportStep, InvHolds, PTL DEF Spec
<1>2. ReportInv => ReportIsDurable
  <2> SUFFICES ASSUME ReportInv PROVE ReportIsDurable
    OBVIOUS
  <2> DEFINE reported   == {completed[i].target : i \in DOMAIN completed}
             unreported == {t \in Targets \ reported :
                              store[t] \notin {NoObject, OldObject}}
  <2>1. \A t \in unreported : Unreported(t)
    BY DEF Unreported, Reported
  <2>2. \A t, u \in unreported : t = u
    BY <2>1 DEF ReportInv
  <2>3. unreported # {} => pc \in {"aborting", "failed"}
    BY <2>1 DEF ReportInv
  <2>4. \A i \in DOMAIN completed : store[completed[i].target] = completed[i].rows
    BY DEF ReportInv
  <2> HIDE DEF unreported
  <2>5. unreported = {} \/ \E t : unreported = {t}
    BY <2>2
  <2>6. Cardinality(unreported) <= 1
    <3>1. CASE unreported = {}
      <4>1. Cardinality(unreported) = 0
        BY <3>1, FS_EmptySet, Zenon
      <4>2. QED
        BY <4>1
    <3>2. ASSUME NEW t, unreported = {t} PROVE Cardinality(unreported) <= 1
      <4>1. Cardinality(unreported) = 1
        BY <3>2, FS_Singleton, Zenon
      <4>2. QED
        BY <4>1
    <3>3. QED
      BY <2>5, <3>1, <3>2
  <2>7. QED
    BY <2>3, <2>4, <2>6 DEF ReportIsDurable, unreported
<1>3. QED
  BY <1>1, <1>2, PTL

-----------------------------------------------------------------------------
(* The runs of a partition and its outputs. *)

(* Of the first m runs those of partition k, in their order. *)
RunsOf(k, m) == FlattenSeq([n \in 1..m |-> IF seen[n] = k THEN <<n>> ELSE <<>>])

(* No partition has two open sinks. *)
OneEach(s) == \A i, j \in DOMAIN s : s[i].key = s[j].key => i = j

(* The outputs of partition k and its open sink have its first m runs. *)
Filed(k, m) ==
  /\ \A i \in DOMAIN open : open[i].key = k => OutputOf(k) \o open[i].rows = RunsOf(k, m)
  /\ ~IsOpen(k) => OutputOf(k) = RunsOf(k, m)

(* The run in hand is not written yet. *)
InHand == pc \in {"turnover", "open", "write"} /\ seen # <<>>
Written == IF InHand THEN Len(seen) - 1 ELSE Len(seen)

FiledInv ==
  /\ OneEach(open)
  /\ pc \in {"turnover", "open"} => ~IsOpen(Key)
  /\ pc = "write" => IsOpen(Key)
  /\ Strategy = "exact" /\ pc = "open" => seen = <<>>
  /\ pc \notin {"aborting", "failed"} =>
       \A m \in Nat : m = Written => \A k \in Keyed : Filed(k, m)

(* The runs of a partition are numbers, and the next one may be one of them. *)
LEMMA RunsOfNext ==
  ASSUME NEW K, seen \in Seq(K), NEW k, NEW m \in Nat, m < Len(seen)
  PROVE  /\ RunsOf(k, m) \in Seq(Nat)
         /\ RunsOf(k, m + 1) = RunsOf(k, m) \o (IF seen[m + 1] = k THEN <<m + 1>> ELSE <<>>)
<1> DEFINE X(n) == IF seen[n] = k THEN <<n>> ELSE <<>>
           ss == [n \in 1..m |-> X(n)]
           tt == [n \in 1..(m + 1) |-> X(n)]
<1>1. \A n \in Nat : X(n) \in Seq(Nat)
  OBVIOUS
<1>2. m + 1 \in Nat
  OBVIOUS
<1> HIDE DEF X
<1>3. ss \in Seq(Seq(Nat)) /\ tt \in Seq(Seq(Nat)) /\ Len(ss) = m /\ Len(tt) = m + 1
  BY <1>1, <1>2
<1>4. tt[m + 1] = X(m + 1) /\ \A n \in 1..m : tt[n] = ss[n]
  OBVIOUS
<1> HIDE DEF ss, tt
<1>5. FlattenSeq(ss) \in Seq(Nat)
  BY <1>3, FlattenKeeps
<1>6. FlattenSeq(tt) = FlattenSeq(ss) \o tt[m + 1]
  BY <1>3, <1>4, FlattenLast
<1>7. RunsOf(k, m) = FlattenSeq(ss) /\ RunsOf(k, m + 1) = FlattenSeq(tt)
  BY DEF ss, tt, X, RunsOf
<1>8. X(m + 1) = IF seen[m + 1] = k THEN <<m + 1>> ELSE <<>>
  BY DEF X
<1> QED BY <1>4, <1>5, <1>6, <1>7, <1>8

(* It is of no matter what is read later. *)
LEMMA RunsOfKept ==
  ASSUME NEW k, NEW m \in Nat, \A n \in 1..m : seen'[n] = seen[n]
  PROVE  RunsOf(k, m)' = RunsOf(k, m)
<1> DEFINE X(n) == IF seen[n] = k THEN <<n>> ELSE <<>>
           Y(n) == IF seen'[n] = k THEN <<n>> ELSE <<>>
<1>1. \A n \in 1..m : X(n) = Y(n)
  OBVIOUS
<1>2. [n \in 1..m |-> X(n)] = [n \in 1..m |-> Y(n)]
  BY <1>1
<1> QED BY <1>2 DEF RunsOf

(* What an output more adds. *)
LEMMA OutputMore ==
  ASSUME completed \in Seq(KeyedSinks), NEW sink \in KeyedSinks, NEW k
  PROVE  /\ OutputOf(k) \in Seq(Nat)
         /\ completed' = completed => OutputOf(k)' = OutputOf(k)
         /\ completed' = Append(completed, sink) =>
              OutputOf(k)' = OutputOf(k) \o (IF sink.key = k THEN sink.rows ELSE <<>>)
<1> DEFINE X(s) == IF s.key = k THEN s.rows ELSE <<>>
           ss == [i \in DOMAIN completed |-> X(completed[i])]
<1>1. \A s \in KeyedSinks : X(s) \in Seq(Nat)
  <2>1. \A s \in KeyedSinks : s.rows \in Seq(1..MaxRuns)
    BY DEF KeyedSinks
  <2>2. 1..MaxRuns \subseteq Nat
    BY OutputAssumption
  <2>3. \A r \in Seq(1..MaxRuns) : r \in Seq(Nat)
    BY <2>2, SeqMonotonic
  <2>4. <<>> \in Seq(Nat)
    OBVIOUS
  <2> QED BY <2>1, <2>3, <2>4
<1> HIDE DEF X
<1>2. DOMAIN completed = 1..Len(completed) /\ Len(completed) \in Nat
      /\ \A i \in 1..Len(completed) : completed[i] \in KeyedSinks
  OBVIOUS
<1>3. ss \in Seq(Seq(Nat)) /\ Len(ss) = Len(completed)
  BY <1>1, <1>2
<1>4. OutputOf(k) = FlattenSeq(ss)
  BY DEF OutputOf, X
<1>5. ASSUME completed' = Append(completed, sink)
      PROVE  OutputOf(k)' = OutputOf(k) \o X(sink)
  <2> DEFINE tt == [i \in DOMAIN completed' |-> X(completed'[i])]
  <2>1. OutputOf(k)' = FlattenSeq(tt)
    BY DEF OutputOf, X
  <2>2. /\ DOMAIN completed' = 1..(Len(completed) + 1)
        /\ completed'[Len(completed) + 1] = sink
        /\ \A i \in 1..Len(completed) : completed'[i] = completed[i]
    BY <1>5
  <2>3. \A i \in 1..(Len(completed) + 1) : X(completed'[i]) \in Seq(Nat)
    <3>1. \A i \in 1..Len(completed) : X(completed'[i]) \in Seq(Nat)
      BY <1>1, <1>2, <2>2
    <3>2. X(completed'[Len(completed) + 1]) \in Seq(Nat)
      BY <1>1, <2>2
    <3> QED BY <1>2, <3>1, <3>2
  <2>4. tt \in Seq(Seq(Nat)) /\ Len(tt) = Len(completed) + 1
    BY <1>2, <2>2, <2>3
  <2>5. tt[Len(completed) + 1] = X(sink) /\ \A i \in 1..Len(completed) : tt[i] = ss[i]
    BY <1>2, <2>2
  <2> HIDE DEF ss, tt
  <2> QED BY <1>2, <1>3, <1>4, <2>1, <2>4, <2>5, FlattenLast
<1>6. completed' = completed => OutputOf(k)' = OutputOf(k)
  BY DEF OutputOf
<1>7. FlattenSeq(ss) \in Seq(Nat)
  <2> HIDE DEF ss
  <2> QED BY <1>3, FlattenKeeps
<1> QED BY <1>4, <1>5, <1>6, <1>7 DEF X

(* A sink taken out leaves the others, each with its partition. *)
LEMMA OthersStay ==
  ASSUME NEW S, NEW s \in Seq(S), NEW i \in DOMAIN s, OneEach(s)
  PROVE  /\ OneEach(RemoveAt(s, i))
         /\ \A j \in DOMAIN RemoveAt(s, i) :
              \E m \in DOMAIN s : /\ m # i /\ RemoveAt(s, i)[j] = s[m]
                                  /\ s[m].key # s[i].key
         /\ \A m \in DOMAIN s : m # i => \E j \in DOMAIN RemoveAt(s, i) :
              RemoveAt(s, i)[j] = s[m]
<1> DEFINE q == RemoveAt(s, i)
           at(j) == IF j < i THEN j ELSE j + 1
<1>1. DOMAIN s = 1..Len(s) /\ Len(s) \in Nat /\ i \in 1..Len(s)
  BY LenProperties
<1>2. DOMAIN q = 1..(Len(s) - 1) /\ \A j \in 1..(Len(s) - 1) : q[j] = s[at(j)]
  BY Removing
<1>3. \A j \in 1..(Len(s) - 1) : at(j) \in DOMAIN s /\ at(j) # i
  BY <1>1
<1>4. \A j, m \in 1..(Len(s) - 1) : at(j) = at(m) => j = m
  BY <1>1
<1>5. \A m \in 1..Len(s) : m # i => \E j \in 1..(Len(s) - 1) : at(j) = m
  <2> SUFFICES ASSUME NEW m \in 1..Len(s), m # i
               PROVE \E j \in 1..(Len(s) - 1) : at(j) = m
    OBVIOUS
  <2>1. CASE m < i
    <3>1. m \in 1..(Len(s) - 1) /\ at(m) = m
      BY <1>1, <2>1
    <3> QED BY <3>1
  <2>2. CASE m > i
    <3>1. m - 1 \in 1..(Len(s) - 1) /\ at(m - 1) = m
      BY <1>1, <2>2
    <3> QED BY <3>1
  <2> QED BY <1>1, <2>1, <2>2
<1> HIDE DEF q, at
<1>6. OneEach(q)
  BY <1>2, <1>3, <1>4 DEF OneEach
<1>7. \A j \in DOMAIN q : \E m \in DOMAIN s : m # i /\ q[j] = s[m] /\ s[m].key # s[i].key
  BY <1>2, <1>3 DEF OneEach
<1>8. \A m \in DOMAIN s : m # i => \E j \in DOMAIN q : q[j] = s[m]
  BY <1>1, <1>2, <1>5
<1> QED BY <1>6, <1>7, <1>8 DEF q

(* What was written when the next step begins. *)
LEMMA WrittenIs ==
  ASSUME TypeInv
  PROVE  /\ Written \in Nat /\ Written <= Len(seen) /\ Len(seen) \in Nat
         /\ seen # <<>> => Len(seen) # 0 /\ Key = seen[Len(seen)] /\ Key \in Keyed
         /\ InHand => Written + 1 = Len(seen) /\ Written < Len(seen)
<1>1. seen \in Seq(Keyed) /\ Len(seen) \in Nat
  BY DEF TypeInv
<1>2. seen # <<>> => Len(seen) # 0
  BY <1>1
<1>3. seen # <<>> => Key = seen[Len(seen)]
  BY DEF Key, Last
<1>4. seen # <<>> => seen[Len(seen)] \in Keyed
  BY <1>1, <1>2
<1> QED BY <1>1, <1>2, <1>3, <1>4 DEF Written, InHand

(* No partition is written at first. *)
LEMMA FiledInit == Init => FiledInv
<1> SUFFICES ASSUME Init PROVE FiledInv
  OBVIOUS
<1>1. /\ seen = <<>> /\ open = <<>> /\ completed = <<>>
      /\ pc = "open" \/ pc = "next"
  BY DEF Init
<1>2. DOMAIN open = {} /\ Len(seen) = 0
  BY <1>1
<1>3. Written = 0
  BY <1>1, <1>2 DEF Written, InHand
<1>4. ASSUME NEW k PROVE Filed(k, 0)
  <2>1. OutputOf(k) = <<>>
    <3>1. [i \in DOMAIN completed |-> IF completed[i].key = k THEN completed[i].rows
                                                            ELSE <<>>] = <<>>
      BY <1>1
    <3>2. FlattenSeq(<<>>) = <<>>
      BY DEF FlattenSeq
    <3> QED BY <3>1, <3>2 DEF OutputOf
  <2>2. RunsOf(k, 0) = <<>>
    <3>1. [n \in 1..0 |-> IF seen[n] = k THEN <<n>> ELSE <<>>] = <<>>
      OBVIOUS
    <3>2. FlattenSeq(<<>>) = <<>>
      BY DEF FlattenSeq
    <3> QED BY <3>1, <3>2 DEF RunsOf
  <2> QED BY <1>2, <2>1, <2>2 DEF Filed
<1> QED BY <1>1, <1>2, <1>3, <1>4 DEF FiledInv, OneEach, IsOpen

(* What the sinks and the outputs have stays, whatever is read. *)
LEMMA FiledKept ==
  ASSUME TypeInv, UNCHANGED <<open, completed>>, NEW k, NEW m \in Nat,
         \A n \in 1..m : seen'[n] = seen[n], Filed(k, m)
  PROVE  Filed(k, m)'
<1>1. RunsOf(k, m)' = RunsOf(k, m)
  BY RunsOfKept
<1>2. OutputOf(k)' = OutputOf(k)
  BY DEF OutputOf
<1> QED BY <1>1, <1>2 DEF Filed, IsOpen

(* A step to another place that leaves the sinks and the runs. *)
LEMMA FiledStays ==
  ASSUME TypeInv, FiledInv, UNCHANGED <<job, seen, open, completed>>,
         \/ pc' \in {"aborting", "failed", pc}
         \/ pc \in {"next", "finishing"} /\ pc' \in {"finishing", "ok"}
  PROVE  FiledInv'
<1>1. CASE pc' \in {"aborting", "failed"}
  BY <1>1 DEF FiledInv
<1>2. CASE ~ (pc' \in {"aborting", "failed"})
  <2>1. pc \notin {"aborting", "failed"} /\ Written' = Written
    BY <1>2 DEF Written, InHand
  <2>2. ASSUME NEW m \in Nat, m = Written', NEW k \in Keyed' PROVE Filed(k, m)'
    <3>1. k \in Keyed /\ Filed(k, m)
      BY <2>1, <2>2 DEF FiledInv, Keyed
    <3> QED BY <3>1, FiledKept
  <2>3. Key' = Key /\ (\A k : IsOpen(k)' = IsOpen(k)) /\ Strategy' = Strategy
    BY DEF Key, IsOpen, Keyed, Strategy
  <2> QED BY <1>2, <2>2, <2>3 DEF FiledInv
<1> QED BY <1>1, <1>2

(* The next run has a partition, which is open or will be. *)
LEMMA FiledNextRun ==
  ASSUME Inv, FiledInv, NextRun
  PROVE  FiledInv'
<1>0. TypeInv /\ PlaceInv
  BY DEF Inv
<1>1. PICK k \in Keyed :
        /\ pc = "next" /\ seen' = Append(seen, k)
        /\ pc' = IF HasSink(k) THEN "write"
                 ELSE IF Turnover(k) THEN "turnover" ELSE "open"
        /\ UNCHANGED <<job, open, completed>>
  BY DEF NextRun, Goto
<1>2. /\ seen' \in Seq(Keyed) /\ Len(seen') = Len(seen) + 1 /\ Len(seen) \in Nat
      /\ seen' # <<>> /\ seen'[Len(seen')] = k
      /\ \A n \in 1..Len(seen) : seen'[n] = seen[n]
  <2>1. seen \in Seq(Keyed) /\ Len(seen) \in Nat
    BY <1>0 DEF TypeInv
  <2>2. /\ seen' \in Seq(Keyed) /\ Len(seen') = Len(seen) + 1
        /\ seen'[Len(seen) + 1] = k /\ \A n \in 1..Len(seen) : seen'[n] = seen[n]
    BY <1>1, <2>1, AppendProperties
  <2>3. Len(seen') # 0
    BY <2>1, <2>2
  <2> QED BY <2>1, <2>2, <2>3
<1>3. Key' = k
  BY <1>2 DEF Key, Last
<1>4. HasSink(k) <=> IsOpen(k)
  BY DEF HasSink, Turnover
<1>5. Strategy = "exact" => IsOpen(k)
  BY <1>0, <1>1 DEF PlaceInv
<1>6. pc' \in {"write", "turnover", "open"}
  BY <1>1
<1>7. Written' = Len(seen) /\ Written = Len(seen)
  BY <1>1, <1>2, <1>6 DEF Written, InHand
<1>8. IsOpen(k)' = IsOpen(k) /\ Strategy' = Strategy /\ Keyed' = Keyed
  BY <1>1 DEF IsOpen, Strategy, Keyed
<1>9. ASSUME NEW m \in Nat, m = Written', NEW l \in Keyed' PROVE Filed(l, m)'
  <2>1. Filed(l, m)
    BY <1>1, <1>7, <1>8, <1>9 DEF FiledInv
  <2> QED BY <1>0, <1>1, <1>2, <1>7, <1>9, <2>1, FiledKept
<1>10. OneEach(open)'
  BY <1>1 DEF FiledInv, OneEach
<1>11. (pc = "write")' => IsOpen(Key)'
  BY <1>1, <1>3, <1>4, <1>8 DEF IsOpen
<1>12. (pc \in {"turnover", "open"})' => ~IsOpen(Key)'
  BY <1>1, <1>3, <1>4, <1>8 DEF IsOpen
<1>13. ~(Strategy' = "exact" /\ pc' = "open")
  BY <1>1, <1>4, <1>5, <1>8
<1> QED BY <1>9, <1>10, <1>11, <1>12, <1>13 DEF FiledInv

(* A sink that opens has nothing of its partition yet. *)
LEMMA FiledOpen ==
  ASSUME Inv, FiledInv, OpenOk
  PROVE  FiledInv'
<1>0. TypeInv /\ PlaceInv
  BY DEF Inv
<1> DEFINE sink == [key |-> Key, target |-> Target(Key), rows |-> <<>>]
<1>1. /\ pc = "open" /\ open' = Append(open, sink)
      /\ pc' = IF Strategy = "exact" THEN "next" ELSE "write"
      /\ UNCHANGED <<job, seen, completed>>
  BY DEF OpenOk, Goto
<1>2. sink.key = Key /\ sink.rows = <<>>
  OBVIOUS
<1> HIDE DEF sink
<1>3. Key' = Key /\ Keyed' = Keyed /\ Strategy' = Strategy
  BY <1>1 DEF Key, Keyed, Strategy
<1>4. /\ open \in Seq(KeyedSinks) /\ Len(open) \in Nat /\ DOMAIN open = 1..Len(open)
      /\ DOMAIN open' = 1..(Len(open) + 1) /\ open'[Len(open) + 1] = sink
      /\ \A i \in 1..Len(open) : open'[i] = open[i]
  BY <1>0, <1>1 DEF TypeInv
<1>5. ~IsOpen(Key)
  BY <1>1 DEF FiledInv
<1>6. OneEach(open')
  BY <1>2, <1>4, <1>5 DEF FiledInv, OneEach, IsOpen
<1>7. IsOpen(Key)'
  BY <1>2, <1>3, <1>4 DEF IsOpen
<1>8. Written' = Written
  BY <1>1 DEF Written, InHand, FiledInv
<1>9. ASSUME NEW m \in Nat, m = Written', NEW k \in Keyed' PROVE Filed(k, m)'
  <2>1. Filed(k, m)
    BY <1>1, <1>3, <1>8, <1>9 DEF FiledInv
  <2>2. RunsOf(k, m)' = RunsOf(k, m)
    BY <1>1, RunsOfKept
  <2>3. OutputOf(k)' = OutputOf(k)
    BY <1>1 DEF OutputOf
  <2>4. k = Key => OutputOf(k) = RunsOf(k, m)
    BY <1>5, <2>1 DEF Filed
  <2>5. KeyedSinks # {}
    <3>1. job \in Jobs /\ Key \in Keyed
      BY <1>0, TargetFacts DEF TypeInv
    <3>2. Target(Key) \in Targets
      BY <1>0, <1>1, TargetFacts DEF Inv
    <3>3. [key |-> Key, target |-> Target(Key), rows |-> <<>>] \in KeyedSinks
      BY <3>1, <3>2 DEF KeyedSinks
    <3> QED BY <3>3
  <2>6. OutputOf(k) \in Seq(Nat)
    BY <1>0, <2>5, OutputMore DEF TypeInv
  <2>7. OutputOf(k) \o <<>> = OutputOf(k)
    BY <2>6
  <2>8. ASSUME NEW i \in DOMAIN open', open'[i].key = k
        PROVE  OutputOf(k)' \o open'[i].rows = RunsOf(k, m)'
    <3>1. CASE i = Len(open) + 1
      BY <1>2, <1>4, <2>2, <2>3, <2>4, <2>7, <2>8, <3>1
    <3>2. CASE i \in 1..Len(open)
      BY <1>4, <2>1, <2>2, <2>3, <2>8, <3>2 DEF Filed
    <3> QED BY <1>4, <3>1, <3>2
  <2>9. ~IsOpen(k)' => OutputOf(k)' = RunsOf(k, m)'
    <3>1. IsOpen(k) => IsOpen(k)'
      BY <1>4 DEF IsOpen
    <3> QED BY <2>1, <2>2, <2>3, <3>1 DEF Filed
  <2> QED BY <2>8, <2>9 DEF Filed
<1> QED BY <1>1, <1>6, <1>7, <1>9 DEF FiledInv

(* One element more at the end of what is joined. *)
LEMMA JoinMore ==
  ASSUME NEW S, NEW a \in Seq(S), NEW b \in Seq(S), NEW x \in S
  PROVE  a \o Append(b, x) = (a \o b) \o <<x>>
<1>1. Append(b, x) = b \o <<x>> /\ <<x>> \in Seq(S)
  BY AppendIsConcat
<1> QED BY <1>1, ConcatAssociative

(* The run in hand is written to the sink of its partition. *)
LEMMA FiledWrite ==
  ASSUME Inv, FiledInv, Write
  PROVE  FiledInv'
<1>0. TypeInv /\ PlaceInv
  BY DEF Inv
<1> DEFINE i == SinkOf
           e == [open[i] EXCEPT !.rows = Append(@, Run)]
           r == RemoveAt(open, i)
<1>1. /\ pc = "write" /\ pc' = "next" /\ open' = Append(r, e)
      /\ UNCHANGED <<job, seen, completed>>
  BY DEF Write, Goto
<1>2. open \in Seq(KeyedSinks) /\ Len(open) \in Nat /\ DOMAIN open = 1..Len(open)
  BY <1>0 DEF TypeInv
<1>3. seen # <<>>
  BY <1>0, <1>1 DEF PlaceInv
<1>4. i \in DOMAIN open /\ open[i].key = Key
  <2>1. \E j \in DOMAIN open : open[j].key = Key
    BY <1>1 DEF FiledInv, IsOpen
  <2> QED BY <2>1 DEF SinkOf, IsOpen
<1>5. open[i] \in KeyedSinks
  BY <1>2, <1>4
<1>6. e.key = Key /\ e.rows = Append(open[i].rows, Run) /\ open[i].rows \in Seq(Nat)
  <2>1. open[i].rows \in Seq(1..MaxRuns) /\ 1..MaxRuns \subseteq Nat
    BY <1>5, OutputAssumption DEF KeyedSinks
  <2>2. open[i].rows \in Seq(Nat)
    BY <2>1, SeqMonotonic
  <2>3. e.key = open[i].key /\ e.rows = Append(open[i].rows, Run)
    BY <1>5 DEF KeyedSinks
  <2> QED BY <1>4, <2>2, <2>3
<1>7. OneEach(open)
  BY DEF FiledInv
<1>8. /\ OneEach(r)
      /\ \A j \in DOMAIN r : \E n \in DOMAIN open : r[j] = open[n] /\ open[n].key # Key
      /\ \A n \in DOMAIN open : n # i => \E j \in DOMAIN r : r[j] = open[n]
      /\ r \in Seq(KeyedSinks) /\ Len(r) \in Nat
  <2>1. i \in DOMAIN open /\ open \in Seq(KeyedSinks)
    BY <1>2, <1>4
  <2> HIDE DEF i
  <2>2. /\ OneEach(r)
        /\ \A j \in DOMAIN r : \E n \in DOMAIN open :
             n # i /\ r[j] = open[n] /\ open[n].key # open[i].key
        /\ \A n \in DOMAIN open : n # i => \E j \in DOMAIN r : r[j] = open[n]
    BY <1>7, <2>1, OthersStay
  <2>3. r \in Seq(KeyedSinks)
    BY <2>1, Removing
  <2> QED BY <1>4, <2>2, <2>3
<1> HIDE DEF e, r, i
<1>9. /\ DOMAIN open' = 1..(Len(r) + 1) /\ open'[Len(r) + 1] = e
      /\ \A j \in 1..Len(r) : open'[j] = r[j] /\ DOMAIN r = 1..Len(r)
  BY <1>1, <1>8
<1>10. OneEach(open')
  BY <1>6, <1>8, <1>9 DEF OneEach
<1>11. /\ InHand /\ ~InHand' /\ Written \in Nat /\ Written < Len(seen) /\ Len(seen) \in Nat
       /\ Written' = Written + 1 /\ Run = Written + 1 /\ Key = seen[Written + 1]
  <2>1. InHand /\ ~InHand'
    BY <1>1, <1>3 DEF InHand
  <2>2. Written' = Len(seen)
    BY <1>1, <2>1 DEF Written
  <2> QED BY <1>0, <1>3, <2>1, <2>2, WrittenIs DEF Run
<1>12. Key' = Key /\ Keyed' = Keyed /\ Strategy' = Strategy
  BY <1>1 DEF Key, Keyed, Strategy
<1>13. ASSUME NEW m \in Nat, m = Written', NEW k \in Keyed' PROVE Filed(k, m)'
  <2> DEFINE w == m - 1
  <2>1. w \in Nat /\ w = Written /\ w + 1 = m /\ w < Len(seen)
    BY <1>11, <1>13
  <2> HIDE DEF w
  <2>2. Filed(k, w)
    BY <1>1, <1>12, <1>13, <2>1 DEF FiledInv
  <2>3. /\ RunsOf(k, w) \in Seq(Nat)
        /\ RunsOf(k, w + 1) = RunsOf(k, w) \o (IF seen[w + 1] = k THEN <<w + 1>> ELSE <<>>)
    <3>1. seen \in Seq(Keyed)
      BY <1>0 DEF TypeInv
    <3> QED BY <2>1, <3>1, RunsOfNext
  <2>4. RunsOf(k, m) = RunsOf(k, w) \o (IF Key = k THEN <<Run>> ELSE <<>>)
    BY <1>11, <2>1, <2>3
  <2>5. RunsOf(k, m)' = RunsOf(k, m)
    BY <1>1, RunsOfKept
  <2>6. OutputOf(k)' = OutputOf(k) /\ OutputOf(k) \in Seq(Nat)
    BY <1>0, <1>1, <1>5, OutputMore DEF TypeInv
  <2>7. CASE k = Key
    <3>1. OutputOf(k) \o open[i].rows = RunsOf(k, w)
      BY <1>4, <2>2, <2>7 DEF Filed
    <3>2. Run \in Nat
      BY <1>11
    <3>3. OutputOf(k) \o Append(open[i].rows, Run) = (OutputOf(k) \o open[i].rows) \o <<Run>>
      <4>1. \A a, b \in Seq(Nat), x \in Nat : a \o Append(b, x) = (a \o b) \o <<x>>
        BY JoinMore
      <4>2. OutputOf(k) \in Seq(Nat) /\ open[i].rows \in Seq(Nat)
        BY <1>6, <2>6
      <4> QED BY <3>2, <4>1, <4>2, Zenon
    <3>4. OutputOf(k)' \o e.rows = RunsOf(k, m)'
      <4>1. RunsOf(k, m) = RunsOf(k, w) \o <<Run>>
        BY <2>4, <2>7
      <4>2. OutputOf(k)' \o e.rows = OutputOf(k) \o Append(open[i].rows, Run)
        BY <1>6, <2>6
      <4> QED BY <2>5, <3>1, <3>3, <4>1, <4>2
    <3>5. \A j \in DOMAIN open' : open'[j].key = k => open'[j] = e
      BY <1>8, <1>9, <2>7
    <3>6. IsOpen(k)'
      BY <1>6, <1>8, <1>9, <2>7 DEF IsOpen
    <3> QED BY <3>4, <3>5, <3>6 DEF Filed
  <2>8. CASE k # Key
    <3>1. RunsOf(k, m)' = RunsOf(k, w)
      BY <2>3, <2>4, <2>5, <2>8
    <3>2. ASSUME NEW j \in DOMAIN open', open'[j].key = k
          PROVE  OutputOf(k)' \o open'[j].rows = RunsOf(k, m)'
      <4>1. j \in DOMAIN r /\ open'[j] = r[j]
        BY <1>6, <1>9, <2>8, <3>2
      <4>2. PICK n \in DOMAIN open : r[j] = open[n]
        BY <1>8, <4>1
      <4> QED BY <2>2, <2>6, <3>1, <3>2, <4>1, <4>2 DEF Filed
    <3>3. ASSUME ~IsOpen(k)' PROVE OutputOf(k)' = RunsOf(k, m)'
      <4>1. ASSUME NEW n \in DOMAIN open, open[n].key = k PROVE FALSE
        <5>1. n # i
          BY <1>4, <2>8, <4>1
        <5>2. PICK j \in DOMAIN r : r[j] = open[n]
          BY <1>8, <5>1
        <5>3. j \in DOMAIN open' /\ open'[j] = open[n]
          BY <1>8, <1>9, <5>2
        <5> QED BY <3>3, <4>1, <5>3 DEF IsOpen
      <4> QED BY <2>2, <2>6, <3>1, <4>1 DEF Filed, IsOpen
    <3> QED BY <3>2, <3>3 DEF Filed
  <2> QED BY <2>7, <2>8
<1> QED BY <1>1, <1>10, <1>13 DEF FiledInv

(* A sink that is finished becomes an output of its partition. *)
LEMMA FiledFinish ==
  ASSUME Inv, FiledInv, NEW i \in DOMAIN open, NEW then, Finish(i, then),
         <<pc, then>> \in {<<"turnover", "open">>, <<"finishing", "finishing">>}
  PROVE  FiledInv'
<1>0. TypeInv /\ PlaceInv
  BY DEF Inv
<1> DEFINE sink == open[i]
<1>1. /\ sink \in KeyedSinks /\ open' = RemoveAt(open, i)
      /\ UNCHANGED <<job, seen>>
  BY <1>0, FinishFacts
<1>2. \/ completed' = Append(completed, sink) /\ pc' = then
      \/ completed' = completed /\ pc' = "aborting"
  BY DEF Finish, Goto, ReportFailed, AbortOthers
<1>3. pc \in {"turnover", "finishing"} /\ then = IF pc = "turnover" THEN "open" ELSE pc
  OBVIOUS
<1>4. open \in Seq(KeyedSinks) /\ completed \in Seq(KeyedSinks) /\ OneEach(open)
  BY <1>0 DEF TypeInv, FiledInv
<1>5. /\ OneEach(open')
      /\ \A j \in DOMAIN open' : \E m \in DOMAIN open :
           open'[j] = open[m] /\ open[m].key # sink.key
      /\ \A m \in DOMAIN open : m # i => \E j \in DOMAIN open' : open'[j] = open[m]
  BY <1>1, <1>4, OthersStay
<1>6. Key' = Key /\ Keyed' = Keyed /\ Strategy' = Strategy
  BY <1>1 DEF Key, Keyed, Strategy
<1>7. sink.rows \in Seq(Nat)
  <2>1. sink.rows \in Seq(1..MaxRuns) /\ 1..MaxRuns \subseteq Nat
    BY <1>1, OutputAssumption DEF KeyedSinks
  <2> QED BY <2>1, SeqMonotonic
<1> HIDE DEF sink
<1>8. CASE pc' = "aborting"
  BY <1>5, <1>8 DEF FiledInv
<1>9. CASE completed' = Append(completed, sink) /\ pc' = then
  <2>1. Written' = Written
    BY <1>1, <1>3, <1>9 DEF Written, InHand
  <2>2. ASSUME NEW m \in Nat, m = Written', NEW k \in Keyed' PROVE Filed(k, m)'
    <3>1. Filed(k, m)
      BY <1>3, <1>6, <2>1, <2>2 DEF FiledInv
    <3>2. RunsOf(k, m)' = RunsOf(k, m)
      BY <1>1, RunsOfKept
    <3>3. /\ OutputOf(k)' = OutputOf(k) \o (IF sink.key = k THEN sink.rows ELSE <<>>)
          /\ OutputOf(k) \in Seq(Nat)
      BY <1>1, <1>4, <1>9, OutputMore
    <3>4. CASE sink.key = k
      <4>1. OutputOf(k) \o sink.rows = RunsOf(k, m)
        BY <3>1, <3>4 DEF Filed, sink
      <4>2. \A j \in DOMAIN open' : open'[j].key # k
        BY <1>5, <3>4
      <4> QED BY <3>2, <3>3, <3>4, <4>1, <4>2 DEF Filed
    <3>5. CASE sink.key # k
      <4>1. OutputOf(k)' = OutputOf(k)
        BY <3>3, <3>5
      <4>2. ASSUME NEW j \in DOMAIN open', open'[j].key = k
            PROVE  OutputOf(k)' \o open'[j].rows = RunsOf(k, m)'
        <5>1. PICK n \in DOMAIN open : open'[j] = open[n]
          BY <1>5
        <5> QED BY <3>1, <3>2, <4>1, <4>2, <5>1 DEF Filed
      <4>3. ASSUME ~IsOpen(k)' PROVE OutputOf(k)' = RunsOf(k, m)'
        <5>1. ASSUME NEW n \in DOMAIN open, open[n].key = k PROVE FALSE
          <6>1. n # i
            BY <3>5, <5>1 DEF sink
          <6>2. PICK j \in DOMAIN open' : open'[j] = open[n]
            BY <1>5, <6>1
          <6> QED BY <4>3, <5>1, <6>2 DEF IsOpen
        <5> QED BY <3>1, <3>2, <4>1, <5>1 DEF Filed, IsOpen
      <4> QED BY <4>2, <4>3 DEF Filed
    <3> QED BY <3>4, <3>5
  <2>3. ASSUME pc' \in {"turnover", "open"} PROVE ~IsOpen(Key)'
    <3>1. pc = "turnover"
      BY <1>3, <1>9, <2>3
    <3>2. ~IsOpen(Key)
      BY <3>1 DEF FiledInv
    <3>3. \A j \in DOMAIN open' : open'[j].key # Key
      BY <1>5, <3>2 DEF IsOpen
    <3> QED BY <1>6, <3>3 DEF IsOpen
  <2>4. pc' # "write"
    BY <1>3, <1>9
  <2>5. pc = "turnover" => Strategy # "exact"
    BY <1>0 DEF PlaceInv
  <2> QED BY <1>3, <1>5, <1>6, <1>9, <2>2, <2>3, <2>4, <2>5 DEF FiledInv
<1> QED BY <1>2, <1>8, <1>9

(* Every step keeps what was written where it belongs. *)
LEMMA FiledStep == Inv /\ FiledInv /\ [Next]_vars => FiledInv'
<1> SUFFICES ASSUME Inv, FiledInv, [Next]_vars PROVE FiledInv'
  OBVIOUS
<1>0. TypeInv /\ PlaceInv
  BY DEF Inv
<1>1. CASE StreamEnds \/ StreamFails \/ OpenFails \/ WriteFails \/ Succeed \/ Fail
           \/ UNCHANGED vars
  <2>1. /\ UNCHANGED <<job, seen, open, completed>>
        /\ \/ pc' \in {"aborting", "failed", pc}
           \/ pc \in {"next", "finishing"} /\ pc' \in {"finishing", "ok"}
    BY <1>1 DEF StreamEnds, StreamFails, OpenFails, WriteFails, Succeed, Fail, Goto, vars
  <2> QED BY <1>0, <2>1, FiledStays
<1>2. CASE NextRun
  BY <1>2, FiledNextRun
<1>3. CASE OpenOk
  BY <1>3, FiledOpen
<1>4. CASE Write
  BY <1>4, FiledWrite
<1>5. CASE FinishVictim
  <2>1. pc = "turnover" /\ Finish(1, "open") /\ 1 \in DOMAIN open
    BY <1>0, <1>5, EmptySeq, LenProperties DEF FinishVictim, PlaceInv, TypeInv
  <2> QED BY <2>1, FiledFinish
<1>6. CASE FinishNext
  BY <1>6, FiledFinish DEF FinishNext
<1>7. CASE AbortNext
  <2>1. PICK i \in DOMAIN open : open' = RemoveAt(open, i)
    BY <1>7 DEF AbortNext
  <2>2. pc = "aborting" /\ pc' = "aborting"
    BY <1>7 DEF AbortNext
  <2>3. OneEach(open')
    BY <1>0, <2>1, OthersStay DEF TypeInv, FiledInv
  <2> QED BY <2>2, <2>3 DEF FiledInv
<1> QED BY <1>1, <1>2, <1>3, <1>4, <1>5, <1>6, <1>7 DEF Next

(* The runs of a partition are in its outputs and its open sink throughout. *)
LEMMA FiledHolds == Spec => []FiledInv
BY InvHolds, FiledInit, FiledStep, PTL DEF Spec

-----------------------------------------------------------------------------
(* The runs of a batch. *)

(* The rows from lo to hi of batch b. *)
Cut(b, lo, hi) == [i \in 1..(hi - lo + 1) |-> <<b, lo + i - 1>>]

(* Rows that follow one another are joined. *)
LEMMA CutJoin ==
  ASSUME NEW b \in Nat, NEW m \in Nat, NEW lo \in Nat, NEW hi \in Nat,
         1 <= lo, lo <= m + 1, m <= hi
  PROVE  /\ Cut(b, lo, m) \in Seq(Nat \X Nat)
         /\ Cut(b, lo, m) \o Cut(b, m + 1, hi) = Cut(b, lo, hi)
<1> DEFINE x == Cut(b, lo, m)
           y == Cut(b, m + 1, hi)
           z == Cut(b, lo, hi)
           p == m - lo + 1
           w == hi - m
<1>1. /\ x \in Seq(Nat \X Nat) /\ Len(x) = p
      /\ \A i \in 1..p : x[i] = <<b, lo + i - 1>>
  BY DEF Cut
<1>2. /\ y \in Seq(Nat \X Nat) /\ Len(y) = w
      /\ \A i \in 1..w : y[i] = <<b, m + i>>
  <2>1. hi - (m + 1) + 1 = w /\ w \in Nat
    OBVIOUS
  <2>2. \A i \in 1..w : (m + 1) + i - 1 = m + i /\ m + i \in Nat
    OBVIOUS
  <2>3. y = [i \in 1..w |-> <<b, (m + 1) + i - 1>>]
    BY <2>1 DEF Cut
  <2> QED BY <2>1, <2>2, <2>3
<1>3. /\ z \in Seq(Nat \X Nat) /\ Len(z) = p + w
      /\ \A i \in 1..(p + w) : z[i] = <<b, lo + i - 1>>
  <2>1. hi - lo + 1 = p + w /\ p + w \in Nat
    OBVIOUS
  <2>2. z = [i \in 1..(p + w) |-> <<b, lo + i - 1>>]
    BY <2>1 DEF Cut
  <2> QED BY <2>1, <2>2
<1>4. p \in Nat /\ w \in Nat /\ \A i \in Nat : m + (i - p) = lo + i - 1
  OBVIOUS
<1> HIDE DEF x, y, z, p, w
<1>5. /\ x \o y \in Seq(Nat \X Nat) /\ Len(x \o y) = p + w
      /\ \A i \in 1..(p + w) : (x \o y)[i] = IF i <= p THEN x[i] ELSE y[i - p]
  BY <1>1, <1>2, ConcatProperties
<1>6. \A i \in 1..(p + w) : (x \o y)[i] = z[i]
  <2> SUFFICES ASSUME NEW i \in 1..(p + w) PROVE (x \o y)[i] = z[i]
    OBVIOUS
  <2>1. CASE i <= p
    <3>1. i \in 1..p
      BY <1>4, <2>1
    <3> QED BY <1>1, <1>3, <1>5, <2>1, <3>1
  <2>2. CASE ~(i <= p)
    <3>1. i - p \in 1..w /\ m + (i - p) = lo + i - 1
      BY <1>4, <2>2
    <3>2. y[i - p] = <<b, lo + i - 1>>
      BY <1>2, <3>1
    <3> QED BY <1>3, <1>5, <2>2, <3>2
  <2> QED BY <2>1, <2>2
<1>7. x \o y = z
  BY <1>3, <1>5, <1>6, SeqEqual
<1> QED BY <1>1, <1>7 DEF x, y, z

(* Where a range that starts at a ends: it has equal rows, and behind it the
   next one starts. *)
LEMMA EndIs ==
  ASSUME NEW R, NEW batch \in Seq(R), NEW a \in Starts(batch)
  PROVE  /\ EndOf(batch, a) \in a..Len(batch)
         /\ EndOf(batch, a) = Len(batch) \/ EndOf(batch, a) + 1 \in Starts(batch)
         /\ \A i \in (a + 1)..EndOf(batch, a) : i \notin Starts(batch)
         /\ \A i \in a..EndOf(batch, a) : batch[i] = batch[a]
<1> DEFINE L == Len(batch)
           T == {e \in a..L : e = L \/ e + 1 \in Starts(batch)}
<1>1. L \in Nat /\ a \in 1..L
  BY DEF Starts
<1>2. T \subseteq Nat /\ L \in T
  BY <1>1
<1> HIDE DEF T
<1>3. PICK e \in T : \A y \in T : e <= y
  BY <1>2, LeastNumber
<1>4. e \in a..L /\ (e = L \/ e + 1 \in Starts(batch))
  BY <1>3 DEF T
<1>5. \A i \in (a + 1)..e : i \notin Starts(batch)
  <2> SUFFICES ASSUME NEW i \in (a + 1)..e, i \in Starts(batch) PROVE FALSE
    OBVIOUS
  <2>1. i - 1 \in a..L /\ (i - 1) + 1 = i /\ i - 1 < e
    BY <1>1, <1>4
  <2>2. i - 1 \in T
    BY <2>1 DEF T
  <2> QED BY <1>1, <1>3, <1>4, <2>1, <2>2
<1> DEFINE E == EndOf(batch, a)
<1>6. /\ E \in a..L /\ (E = L \/ E + 1 \in Starts(batch))
      /\ \A i \in (a + 1)..E : i \notin Starts(batch)
  BY <1>4, <1>5 DEF EndOf
<1> HIDE DEF E
<1> DEFINE P == {n \in Nat : a + n <= E => batch[a + n] = batch[a]}
<1>7. 0 \in P
  BY <1>1
<1>8. ASSUME NEW n \in Nat, n \in P PROVE n + 1 \in P
  <2> SUFFICES ASSUME a + (n + 1) <= E PROVE batch[a + (n + 1)] = batch[a]
    OBVIOUS
  <2>1. batch[a + n] = batch[a]
    BY <1>1, <1>6, <1>8
  <2>2. a + (n + 1) \in (a + 1)..E /\ a + (n + 1) \in 1..L /\ a + (n + 1) # 1
        /\ (a + (n + 1)) - 1 = a + n
    BY <1>1, <1>6
  <2>3. a + (n + 1) \notin Starts(batch)
    BY <1>6, <2>2
  <2>4. batch[a + (n + 1)] = batch[(a + (n + 1)) - 1]
    BY <2>2, <2>3 DEF Starts
  <2> QED BY <2>1, <2>2, <2>4
<1>9. \A n \in Nat : n \in P
  <2> HIDE DEF P
  <2> QED BY <1>7, <1>8, Inductive
<1>10. \A i \in a..E : batch[i] = batch[a]
  <2> SUFFICES ASSUME NEW i \in a..E PROVE batch[i] = batch[a]
    OBVIOUS
  <2>1. i - a \in Nat /\ a + (i - a) = i /\ i <= E
    BY <1>1, <1>6
  <2> QED BY <1>9, <2>1
<1> QED BY <1>6, <1>10 DEF E

(* The ranges rs are those of the batch from row f on, one after another. *)
Tiles(rs, batch, f) ==
  /\ rs \in Seq(Nat \X Nat) /\ f \in Nat
  /\ \A k \in 1..Len(rs) :
       /\ 1 <= rs[k][1] /\ rs[k][1] <= rs[k][2] /\ rs[k][2] <= Len(batch)
       /\ \A i \in rs[k][1]..rs[k][2] : batch[i] = batch[rs[k][1]]
       /\ rs[k][1] = IF k = 1 THEN f ELSE rs[k - 1][2] + 1
       /\ k = Len(rs) => rs[k][2] = Len(batch)
  /\ Len(rs) = 0 => f = Len(batch) + 1

(* The ranges of a batch are all of it. *)
LEMMA RangesTile ==
  ASSUME NEW R, NEW batch \in Seq(R)
  PROVE  Tiles(Ranges(batch), batch, 1)
<1> DEFINE L == Len(batch)
           s == [i \in DOMAIN batch |-> i]
           T == Starts(batch)
           from == Filter(s, LAMBDA i : i \in Starts(batch))
           rs == Ranges(batch)
<1>1. L \in Nat /\ DOMAIN batch = 1..L /\ s \in Seq(Nat) /\ Len(s) = L /\ DOMAIN s = 1..L
  OBVIOUS
<1>2. T \subseteq 1..L /\ (L > 0 => 1 \in T)
  BY DEF Starts
<1>3. rs = [k \in DOMAIN from |-> <<from[k], EndOf(batch, from[k])>>]
  BY DEF Ranges
<1>4. from = Filtered(s, T)
  <2>1. \A i \in DOMAIN s : s[i] \in Starts(batch) <=> i \in T
    OBVIOUS
  <2>2. [i \in DOMAIN s |-> IF s[i] \in Starts(batch) THEN <<s[i]>> ELSE <<>>]
          = [i \in DOMAIN s |-> IF i \in T THEN <<s[i]>> ELSE <<>>]
    BY <2>1
  <2> QED BY <2>2, Zenon DEF Filter, Filtered, Passed
<1> HIDE DEF from, T, rs
<1>5. PICK e : IsPick(e, s, T, from)
  BY <1>1, <1>4, FilterPicks
<1>6. /\ e \in Seq(1..L) /\ from = [k \in 1..Len(e) |-> e[k]]
      /\ \A j, k \in 1..Len(e) : j < k => e[j] < e[k]
      /\ \A i \in 1..L : i \in T <=> \E k \in 1..Len(e) : e[k] = i
  <2>1. e \in Seq(1..L) /\ DOMAIN e = 1..Len(e)
    BY <1>1, <1>5 DEF IsPick
  <2>2. \A k \in 1..Len(e) : e[k] \in 1..L /\ s[e[k]] = e[k]
    BY <1>1, <2>1
  <2>3. from = [k \in 1..Len(e) |-> s[e[k]]]
    BY <1>5 DEF IsPick
  <2>4. from = [k \in 1..Len(e) |-> e[k]]
    BY <2>2, <2>3
  <2> QED BY <1>1, <1>5, <2>1, <2>4 DEF IsPick
<1> HIDE DEF s
<1> DEFINE N == Len(e)
<1>7. N \in Nat /\ \A k \in 1..N : e[k] \in 1..L /\ e[k] \in T
  BY <1>6
<1>8. rs = [k \in 1..N |-> <<e[k], EndOf(batch, e[k])>>]
  BY <1>3, <1>6
<1>9. \A k \in 1..N :
        /\ EndOf(batch, e[k]) \in e[k]..L
        /\ EndOf(batch, e[k]) = L \/ EndOf(batch, e[k]) + 1 \in T
        /\ \A i \in (e[k] + 1)..EndOf(batch, e[k]) : i \notin T
        /\ \A i \in e[k]..EndOf(batch, e[k]) : batch[i] = batch[e[k]]
  <2> SUFFICES ASSUME NEW k \in 1..N
               PROVE  /\ EndOf(batch, e[k]) \in e[k]..L
                      /\ EndOf(batch, e[k]) = L \/ EndOf(batch, e[k]) + 1 \in T
                      /\ \A i \in (e[k] + 1)..EndOf(batch, e[k]) : i \notin T
                      /\ \A i \in e[k]..EndOf(batch, e[k]) : batch[i] = batch[e[k]]
    OBVIOUS
  <2>1. e[k] \in Starts(batch)
    BY <1>7 DEF T
  <2> DEFINE a == e[k]
  <2>2. a \in Starts(batch)
    BY <2>1
  <2> HIDE DEF a
  <2>3. /\ EndOf(batch, a) \in a..L
        /\ EndOf(batch, a) = L \/ EndOf(batch, a) + 1 \in T
        /\ \A i \in (a + 1)..EndOf(batch, a) : i \notin T
        /\ \A i \in a..EndOf(batch, a) : batch[i] = batch[a]
    BY <2>2, EndIs DEF T
  <2> QED BY <2>3 DEF a
<1> DEFINE d == [k \in 1..N |-> EndOf(batch, e[k])]
<1>10. /\ rs \in Seq(Nat \X Nat) /\ Len(rs) = N
       /\ \A k \in 1..N : rs[k][1] = e[k] /\ rs[k][2] = d[k] /\ d[k] \in Nat
  BY <1>1, <1>7, <1>8, <1>9
<1>11. \A k \in 1..N :
         /\ d[k] \in e[k]..L /\ (d[k] = L \/ d[k] + 1 \in T)
         /\ \A i \in (e[k] + 1)..d[k] : i \notin T
         /\ \A i \in e[k]..d[k] : batch[i] = batch[e[k]]
  BY <1>9
<1> HIDE DEF d
<1>0. \A k \in 1..N : /\ e[k] \in Nat /\ d[k] \in Nat /\ e[k] \in T
                     /\ 1 <= e[k] /\ e[k] <= d[k] /\ d[k] <= L
  BY <1>1, <1>7, <1>11
<1>12. \A k \in 1..N : k > 1 => e[k] = d[k - 1] + 1
  <2> SUFFICES ASSUME NEW k \in 1..N, k > 1 PROVE e[k] = d[k - 1] + 1
    OBVIOUS
  <2> DEFINE p == k - 1
  <2>1. p \in 1..N /\ p < k
    BY <1>7
  <2>2. e[p] < e[k]
    BY <1>6, <2>1
  <2>3. e[k] > d[p]
    <3>1. ASSUME e[k] <= d[p] PROVE FALSE
      <4>1. e[k] \in (e[p] + 1)..d[p]
        BY <1>0, <2>1, <2>2, <3>1
      <4>2. e[k] \notin T
        BY <1>11, <2>1, <4>1
      <4> QED BY <1>0, <4>2
    <3> QED BY <1>0, <2>1, <3>1
  <2>4. d[p] # L
    BY <1>0, <1>1, <2>1, <2>3
  <2>5. d[p] + 1 \in T /\ d[p] + 1 \in 1..L
    BY <1>1, <1>2, <1>11, <2>1, <2>4
  <2>6. PICK q \in 1..N : e[q] = d[p] + 1
    BY <1>6, <2>5
  <2>7. ~(q < p) /\ q # p
    <3>1. q < p => e[q] < e[p]
      BY <1>6, <2>1
    <3>2. e[p] <= d[p] /\ e[p] \in Nat /\ d[p] \in Nat
      BY <1>0, <2>1
    <3> QED BY <2>6, <3>1, <3>2
  <2>8. q >= k
    BY <1>7, <2>1, <2>7
  <2>9. q = k \/ e[k] < e[q]
    BY <1>6, <1>7, <2>8
  <2>10. e[k] \in Nat /\ d[p] \in Nat
    BY <1>0, <2>1
  <2> QED BY <2>3, <2>6, <2>9, <2>10
<1>13. N > 0 => e[1] = 1 /\ d[N] = L
  <2> SUFFICES ASSUME N > 0 PROVE e[1] = 1 /\ d[N] = L
    OBVIOUS
  <2>1. 1 \in 1..N /\ N \in 1..N
    BY <1>7
  <2>2. L > 0 /\ 1 \in T
    BY <1>1, <1>2, <1>7, <2>1
  <2>3. PICK q \in 1..N : e[q] = 1
    BY <1>1, <1>6, <2>2
  <2>4. q = 1 \/ e[1] < e[q]
    BY <1>6, <1>7, <2>1
  <2>5. e[1] = 1
    BY <1>7, <2>1, <2>3, <2>4
  <2>6. ASSUME d[N] # L PROVE FALSE
    <3>1. d[N] + 1 \in T /\ d[N] + 1 \in 1..L
      BY <1>1, <1>2, <1>11, <2>1, <2>6
    <3>2. PICK r \in 1..N : e[r] = d[N] + 1
      BY <1>6, <3>1
    <3>3. r = N \/ e[r] < e[N]
      BY <1>6, <1>7, <2>1
    <3>4. e[N] <= d[N] /\ e[N] \in Nat /\ d[N] \in Nat
      BY <1>0, <2>1
    <3> QED BY <3>2, <3>3, <3>4
  <2> QED BY <2>5, <2>6
<1>14. N = 0 => L = 0
  <2>1. ASSUME N = 0, L > 0 PROVE FALSE
    <3>1. 1 \in T /\ 1 \in 1..L
      BY <1>1, <1>2, <2>1
    <3> QED BY <1>6, <2>1, <3>1
  <2> QED BY <1>1, <2>1
<1>15. \A k \in 1..N :
        /\ 1 <= e[k] /\ e[k] <= d[k] /\ d[k] <= L
        /\ \A i \in e[k]..d[k] : batch[i] = batch[e[k]]
        /\ e[k] = IF k = 1 THEN 1 ELSE d[k - 1] + 1
        /\ k = N => d[k] = L
  BY <1>1, <1>7, <1>11, <1>12, <1>13
<1>16. \A k \in 1..N : k # 1 => k - 1 \in 1..N
  BY <1>7
<1> HIDE DEF N
<1>17. Len(rs) = 0 => 1 = L + 1
  BY <1>10, <1>14
<1>18. \A k \in 1..Len(rs) :
       /\ 1 <= rs[k][1] /\ rs[k][1] <= rs[k][2] /\ rs[k][2] <= L
       /\ \A i \in rs[k][1]..rs[k][2] : batch[i] = batch[rs[k][1]]
       /\ rs[k][1] = IF k = 1 THEN 1 ELSE rs[k - 1][2] + 1
       /\ k = Len(rs) => rs[k][2] = L
  <2> SUFFICES ASSUME NEW k \in 1..N
               PROVE  /\ 1 <= rs[k][1] /\ rs[k][1] <= rs[k][2] /\ rs[k][2] <= L
                      /\ \A i \in rs[k][1]..rs[k][2] : batch[i] = batch[rs[k][1]]
                      /\ rs[k][1] = IF k = 1 THEN 1 ELSE rs[k - 1][2] + 1
                      /\ k = N => rs[k][2] = L
    BY <1>10
  <2>1. rs[k][1] = e[k] /\ rs[k][2] = d[k]
    BY <1>10
  <2>2. k # 1 => rs[k - 1][2] = d[k - 1]
    BY <1>10, <1>16
  <2> QED BY <1>15, <2>1, <2>2
<1> QED BY <1>10, <1>17, <1>18 DEF Tiles, rs

(* A range is emitted and the others remain. *)
LEMMA TilesNext ==
  ASSUME NEW R, NEW batch \in Seq(R), NEW rs, NEW f, Tiles(rs, batch, f), rs # <<>>
  PROVE  /\ Head(rs)[1] = f /\ f \in 1..Head(rs)[2] /\ Head(rs)[2] \in 1..Len(batch)
         /\ \A i \in f..Head(rs)[2] : batch[i] = batch[f]
         /\ Tiles(Tail(rs), batch, Head(rs)[2] + 1)
<1> DEFINE q == Tail(rs)
           N == Len(rs)
           h == rs[1]
<1>1. rs \in Seq(Nat \X Nat) /\ N \in Nat /\ N # 0 /\ 1 \in 1..N /\ Head(rs) = h
      /\ Len(batch) \in Nat
  BY DEF Tiles
<1>2. /\ q \in Seq(Nat \X Nat) /\ Len(q) = N - 1
      /\ \A k \in 1..(N - 1) : q[k] = rs[k + 1]
  BY <1>1
<1>3. /\ h[1] = f /\ 1 <= h[1] /\ h[1] <= h[2] /\ h[2] <= Len(batch)
      /\ \A i \in h[1]..h[2] : batch[i] = batch[h[1]]
      /\ h[1] \in Nat /\ h[2] \in Nat /\ (N = 1 => h[2] = Len(batch))
  BY <1>1 DEF Tiles
<1>4. \A k \in 1..(N - 1) :
        /\ k + 1 \in 1..N /\ k + 1 # 1 /\ (k + 1) - 1 = k /\ (k = N - 1 <=> k + 1 = N)
        /\ k # 1 => k - 1 \in 1..(N - 1) /\ (k - 1) + 1 = k
  BY <1>1
<1> HIDE DEF q, h
<1>5. \A k \in 1..(N - 1) :
       /\ 1 <= q[k][1] /\ q[k][1] <= q[k][2] /\ q[k][2] <= Len(batch)
       /\ \A i \in q[k][1]..q[k][2] : batch[i] = batch[q[k][1]]
       /\ q[k][1] = rs[k][2] + 1
       /\ k = N - 1 => q[k][2] = Len(batch)
  <2> SUFFICES ASSUME NEW k \in 1..(N - 1)
               PROVE  /\ 1 <= q[k][1] /\ q[k][1] <= q[k][2] /\ q[k][2] <= Len(batch)
                      /\ \A i \in q[k][1]..q[k][2] : batch[i] = batch[q[k][1]]
                      /\ q[k][1] = rs[k][2] + 1
                      /\ k = N - 1 => q[k][2] = Len(batch)
    OBVIOUS
  <2> DEFINE j == k + 1
  <2>1. j \in 1..N /\ j # 1 /\ j - 1 = k /\ q[k] = rs[j] /\ (k = N - 1 <=> j = N)
    BY <1>2, <1>4
  <2> HIDE DEF j
  <2>2. /\ 1 <= rs[j][1] /\ rs[j][1] <= rs[j][2] /\ rs[j][2] <= Len(batch)
        /\ \A i \in rs[j][1]..rs[j][2] : batch[i] = batch[rs[j][1]]
        /\ rs[j][1] = rs[j - 1][2] + 1
        /\ j = N => rs[j][2] = Len(batch)
    BY <2>1 DEF Tiles
  <2> QED BY <2>1, <2>2
<1>6. \A k \in 1..(N - 1) : q[k][1] = IF k = 1 THEN h[2] + 1 ELSE q[k - 1][2] + 1
  <2> SUFFICES ASSUME NEW k \in 1..(N - 1)
               PROVE q[k][1] = IF k = 1 THEN h[2] + 1 ELSE q[k - 1][2] + 1
    OBVIOUS
  <2>1. q[k][1] = rs[k][2] + 1
    BY <1>5
  <2>2. CASE k = 1
    BY <2>1, <2>2 DEF h
  <2>3. CASE k # 1
    <3>1. q[k - 1] = rs[k]
      BY <1>2, <1>4, <2>3
    <3> QED BY <2>1, <2>3, <3>1
  <2> QED BY <2>2, <2>3
<1>7. N - 1 = 0 => h[2] + 1 = Len(batch) + 1
  <2>1. N \in Nat
    BY <1>1
  <2> HIDE DEF N
  <2>2. N - 1 = 0 => N = 1
    BY <2>1
  <2>3. N = 1 => h[2] = Len(batch)
    BY <1>3
  <2> QED BY <2>2, <2>3
<1>8. Tiles(q, batch, h[2] + 1)
  <2> DEFINE g == h[2] + 1
  <2>1. g \in Nat /\ (Len(q) = 0 => g = Len(batch) + 1)
    BY <1>1, <1>2, <1>3, <1>7
  <2>2. \A k \in 1..Len(q) : q[k][1] = IF k = 1 THEN g ELSE q[k - 1][2] + 1
    BY <1>2, <1>6
  <2> HIDE DEF g
  <2>3. Tiles(q, batch, g)
    BY <1>2, <1>5, <2>1, <2>2 DEF Tiles
  <2> QED BY <2>3 DEF g
<1> QED BY <1>1, <1>3, <1>8 DEF q

-----------------------------------------------------------------------------
(* The runs of the input, in order, are its rows. *)

RunRecords == [batch : Nat, first : Nat, last : Nat]

(* The rows of the runs r, of a batch of s, and of its first m batches. *)
RunRows(r) == FlattenSeq([n \in DOMAIN r |-> RowsOfRun(r[n])])
BatchRows(s, b) == [i \in DOMAIN s[b] |-> <<b, i>>]
RowsUpTo(s, m) == FlattenSeq([b \in 1..m |-> BatchRows(s, b)])

(* A run is of equal rows. *)
IsRun(s, run) ==
  /\ run.batch \in 1..Len(s)
  /\ run.first \in 1..run.last /\ run.last \in 1..Len(s[run.batch])
  /\ \A i \in run.first..run.last : s[run.batch][i] = s[run.batch][run.first]

(* The runs are the batches before the last one loaded and its rows before f,
   where its remaining ranges begin. *)
CutAt(f) ==
  /\ loaded = 0 => runs = <<>> /\ ranges = <<>>
  /\ loaded > 0 =>
       /\ Tiles(ranges, input[loaded], f)
       /\ RunRows(runs) = RowsUpTo(input, loaded - 1) \o Cut(loaded, 1, f - 1)

RunsInv ==
  /\ input \in Streams /\ loaded \in 0..Len(input)
  /\ runs \in Seq(RunRecords) /\ Len(runs) = Len(seen)
  /\ pc \in {"finishing", "ok"} => ranges = <<>> /\ loaded = Len(input)
  /\ Strategy = "exact" => ranges = <<>> /\ RunRows(runs) = RowsUpTo(input, loaded)
  /\ Strategy # "exact" =>
       /\ \A n \in 1..Len(runs) :
            IsRun(input, runs[n]) /\ seen[n] = KeyOf(input[runs[n].batch][runs[n].first])
       /\ \E f \in Nat : CutAt(f)

(* The rows of a run and of a batch are cut from a batch. *)
LEMMA RunIsCut ==
  /\ \A run \in RunRecords :
       RowsOfRun(run) = Cut(run.batch, run.first, run.last) /\ RowsOfRun(run) \in Seq(Nat \X Nat)
  /\ \A R : \A s \in Seq(Seq(R)) : \A b \in 1..Len(s) :
       BatchRows(s, b) = Cut(b, 1, Len(s[b])) /\ BatchRows(s, b) \in Seq(Nat \X Nat)
<1>1. ASSUME NEW run \in RunRecords
      PROVE  /\ RowsOfRun(run) = Cut(run.batch, run.first, run.last)
             /\ RowsOfRun(run) \in Seq(Nat \X Nat)
  <2>1. run.batch \in Nat /\ run.first \in Nat /\ run.last \in Nat
    BY DEF RunRecords
  <2> DEFINE w == run.last - run.first + 1
  <2>2. w \in Int /\ \A i \in 1..w : run.first + i - 1 \in Nat
    BY <2>1
  <2>3. RowsOfRun(run) = [i \in 1..w |-> <<run.batch, run.first + i - 1>>]
    BY DEF RowsOfRun
  <2> HIDE DEF w
  <2>4. [i \in 1..w |-> <<run.batch, run.first + i - 1>>] \in Seq(Nat \X Nat)
    <3>1. CASE w \in Nat
      BY <2>1, <2>2, <3>1
    <3>2. CASE w \notin Nat
      <4>1. 1..w = 1..0
        BY <2>2, <3>2
      <4> DEFINE v == [i \in 1..w |-> <<run.batch, run.first + i - 1>>]
      <4>2. v = <<>>
        BY <4>1
      <4> HIDE DEF v
      <4>3. v \in Seq(Nat \X Nat)
        BY <4>2
      <4> QED BY <4>3 DEF v
    <3> QED BY <3>1, <3>2
  <2> QED BY <2>3, <2>4 DEF Cut, RowsOfRun
<1>2. ASSUME NEW R, NEW s \in Seq(Seq(R)), NEW b \in 1..Len(s)
      PROVE  BatchRows(s, b) = Cut(b, 1, Len(s[b])) /\ BatchRows(s, b) \in Seq(Nat \X Nat)
  <2>1. s[b] \in Seq(R) /\ b \in Nat
    OBVIOUS
  <2> DEFINE w == Len(s[b])
  <2>2. w \in Nat /\ DOMAIN s[b] = 1..w
    BY <2>1
  <2> HIDE DEF w
  <2>3. w - 1 + 1 = w /\ \A i \in 1..w : 1 + i - 1 = i /\ i \in Nat
    BY <2>2
  <2>4. BatchRows(s, b) = [i \in 1..w |-> <<b, i>>]
    BY <2>2 DEF BatchRows
  <2>5. Cut(b, 1, w) = [i \in 1..w |-> <<b, i>>]
    BY <2>3 DEF Cut
  <2>6. [i \in 1..w |-> <<b, i>>] \in Seq(Nat \X Nat)
    BY <2>1, <2>2
  <2> QED BY <2>4, <2>5, <2>6 DEF w
<1> QED BY <1>1, <1>2

(* One run more. *)
LEMMA RunRowsMore ==
  ASSUME NEW r \in Seq(RunRecords), NEW run \in RunRecords
  PROVE  /\ RunRows(r) \in Seq(Nat \X Nat)
         /\ RunRows(Append(r, run)) = RunRows(r) \o RowsOfRun(run)
<1> DEFINE ss == [n \in DOMAIN r |-> RowsOfRun(r[n])]
           q == Append(r, run)
           tt == [n \in DOMAIN q |-> RowsOfRun(q[n])]
           D == Nat \X Nat
<1>1. /\ Len(r) \in Nat /\ DOMAIN r = 1..Len(r) /\ \A n \in 1..Len(r) : r[n] \in RunRecords
      /\ DOMAIN q = 1..(Len(r) + 1) /\ q[Len(r) + 1] = run
      /\ \A n \in 1..Len(r) : q[n] = r[n]
  OBVIOUS
<1> HIDE DEF q, D
<1>2. \A n \in 1..Len(r) : RowsOfRun(r[n]) \in Seq(D)
  BY <1>1, RunIsCut DEF D
<1>3. \A n \in 1..(Len(r) + 1) : RowsOfRun(q[n]) \in Seq(D)
  <2>1. RowsOfRun(run) \in Seq(D)
    BY RunIsCut DEF D
  <2>2. \A n \in 1..(Len(r) + 1) : n = Len(r) + 1 \/ n \in 1..Len(r)
    BY <1>1
  <2> QED BY <1>1, <1>2, <2>1, <2>2
<1>4. ss \in Seq(Seq(D)) /\ Len(ss) = Len(r)
  BY <1>1, <1>2
<1>5. tt \in Seq(Seq(D)) /\ Len(tt) = Len(r) + 1
  BY <1>1, <1>3
<1>6. tt[Len(r) + 1] = RowsOfRun(run) /\ \A n \in 1..Len(r) : tt[n] = ss[n]
  BY <1>1
<1>7. RunRows(r) = FlattenSeq(ss) /\ RunRows(q) = FlattenSeq(tt)
  BY DEF RunRows
<1> HIDE DEF ss, tt
<1>8. FlattenSeq(ss) \in Seq(D)
  BY <1>4, FlattenKeeps
<1>9. FlattenSeq(tt) = FlattenSeq(ss) \o tt[Len(r) + 1]
  BY <1>1, <1>4, <1>5, <1>6, FlattenLast
<1> QED BY <1>6, <1>7, <1>8, <1>9 DEF q, D

(* One batch more. *)
LEMMA RowsUpToNext ==
  ASSUME NEW R, NEW s \in Seq(Seq(R)), NEW m \in Nat, m < Len(s)
  PROVE  /\ RowsUpTo(s, m) \in Seq(Nat \X Nat)
         /\ RowsUpTo(s, m + 1) = RowsUpTo(s, m) \o BatchRows(s, m + 1)
<1> DEFINE ss == [b \in 1..m |-> BatchRows(s, b)]
           tt == [b \in 1..(m + 1) |-> BatchRows(s, b)]
           D == Nat \X Nat
<1>1. \A b \in 1..(m + 1) : b \in 1..Len(s)
  OBVIOUS
<1> HIDE DEF D
<1>2. \A b \in 1..(m + 1) : BatchRows(s, b) \in Seq(D)
  BY <1>1, RunIsCut DEF D
<1>3. /\ ss \in Seq(Seq(D)) /\ Len(ss) = m /\ tt \in Seq(Seq(D)) /\ Len(tt) = m + 1
  BY <1>2
<1>4. tt[m + 1] = BatchRows(s, m + 1) /\ \A b \in 1..m : tt[b] = ss[b]
  OBVIOUS
<1>5. RowsUpTo(s, m) = FlattenSeq(ss) /\ RowsUpTo(s, m + 1) = FlattenSeq(tt)
  BY DEF RowsUpTo
<1> HIDE DEF ss, tt
<1>6. FlattenSeq(ss) \in Seq(D)
  BY <1>3, FlattenKeeps
<1>7. FlattenSeq(tt) = FlattenSeq(ss) \o tt[m + 1]
  BY <1>3, <1>4, FlattenLast
<1> QED BY <1>4, <1>5, <1>6, <1>7 DEF D

(* A stream is of batches of rows. *)
LEMMA InputIs ==
  ASSUME RunsInv
  PROVE  /\ input \in Seq(Seq(Range(Rows))) /\ Len(input) \in Nat
         /\ loaded \in Nat /\ loaded <= Len(input)
         /\ \A b \in 1..Len(input) : input[b] \in Seq(Range(Rows))
<1>1. input \in Seq(Seq(Range(Rows)))
  BY RowsAssumption DEF RunsInv
<1> QED BY <1>1 DEF RunsInv

(* Nothing is read at first. *)
LEMMA RunsFirst == FileInit => RunsInv
<1> SUFFICES ASSUME FileInit PROVE RunsInv
  OBVIOUS
<1>1. /\ input \in Streams /\ loaded = 0 /\ ranges = <<>> /\ runs = <<>> /\ seen = <<>>
      /\ pc \in {"open", "next"}
  BY DEF FileInit, RunsInit, Init
<1>2. input \in Seq(Seq(Range(Rows)))
  BY <1>1, RowsAssumption
<1>3. RunRows(<<>>) = <<>> /\ RowsUpTo(input, 0) = <<>>
  <2>1. FlattenSeq(<<>>) = <<>>
    BY DEF FlattenSeq
  <2>2. [n \in DOMAIN <<>> |-> RowsOfRun(<<>>[n])] = <<>>
    OBVIOUS
  <2>3. [b \in 1..0 |-> BatchRows(input, b)] = <<>>
    OBVIOUS
  <2> QED BY <2>1, <2>2, <2>3, Zenon DEF RunRows, RowsUpTo
<1>4. Len(input) \in Nat /\ 0 \in 0..Len(input) /\ Len(runs) = 0 /\ Len(seen) = 0
      /\ runs \in Seq(RunRecords)
  BY <1>1, <1>2
<1>5. CutAt(0)
  BY <1>1 DEF CutAt
<1> QED BY <1>1, <1>3, <1>4, <1>5 DEF RunsInv

(* A step that reads nothing leaves the runs. *)
LEMMA RunsStay ==
  ASSUME RunsInv, UNCHANGED <<runVars, job, seen>>,
         pc' \in {"finishing", "ok"} =>
           pc \in {"finishing", "ok"} \/ (ranges = <<>> /\ loaded = Len(input))
  PROVE  RunsInv'
<1>1. UNCHANGED <<input, loaded, ranges, runs>> /\ Strategy' = Strategy
  BY DEF runVars, Strategy
<1>2. ASSUME NEW f \in Nat, CutAt(f) PROVE CutAt(f)'
  BY <1>1, <1>2 DEF CutAt
<1>3. (\E f \in Nat : CutAt(f)) => (\E f \in Nat : CutAt(f)')
  BY <1>2
<1> QED BY <1>1, <1>3 DEF RunsInv

(* The runs of the batches that were read to their end are their rows. *)
LEMMA BatchesDone ==
  ASSUME RunsInv, Strategy # "exact", ranges = <<>>
  PROVE  RunRows(runs) = RowsUpTo(input, loaded)
<1>0. /\ input \in Seq(Seq(Range(Rows))) /\ Len(input) \in Nat /\ loaded \in Nat
      /\ loaded <= Len(input)
      /\ \A b \in 1..Len(input) : input[b] \in Seq(Range(Rows))
  BY InputIs
<1>1. CASE loaded = 0
  <2>1. runs = <<>>
    BY <1>1 DEF RunsInv, CutAt
  <2>2. FlattenSeq(<<>>) = <<>>
    BY DEF FlattenSeq
  <2>3. [n \in DOMAIN <<>> |-> RowsOfRun(<<>>[n])] = <<>>
    OBVIOUS
  <2>4. [b \in 1..0 |-> BatchRows(input, b)] = <<>>
    OBVIOUS
  <2> QED BY <1>1, <2>1, <2>2, <2>3, <2>4, Zenon DEF RunRows, RowsUpTo
<1>2. CASE loaded # 0
  <2>1. PICK f \in Nat : CutAt(f)
    BY DEF RunsInv
  <2>2. Tiles(ranges, input[loaded], f)
        /\ RunRows(runs) = RowsUpTo(input, loaded - 1) \o Cut(loaded, 1, f - 1)
    BY <1>0, <1>2, <2>1 DEF CutAt
  <2>3. Len(ranges) = 0 /\ loaded \in 1..Len(input)
    BY <1>0, <1>2
  <2>4. f = Len(input[loaded]) + 1 /\ Len(input[loaded]) \in Nat
    BY <1>0, <2>2, <2>3 DEF Tiles
  <2>5. Cut(loaded, 1, f - 1) = BatchRows(input, loaded)
    <3>1. f - 1 = Len(input[loaded])
      BY <2>4
    <3>2. BatchRows(input, loaded) = Cut(loaded, 1, Len(input[loaded]))
      BY <1>0, <2>3, RunIsCut
    <3> QED BY <3>1, <3>2
  <2> DEFINE m == loaded - 1
  <2>6. m \in Nat /\ m < Len(input) /\ m + 1 = loaded
    BY <1>0, <2>3
  <2> HIDE DEF m
  <2>7. RowsUpTo(input, m + 1) = RowsUpTo(input, m) \o BatchRows(input, m + 1)
    BY <1>0, <2>6, RowsUpToNext
  <2> QED BY <2>2, <2>5, <2>6, <2>7 DEF m
<1> QED BY <1>1, <1>2

(* A batch is loaded when the one before is all runs. *)
LEMMA RunsLoad ==
  ASSUME RunsInv, LoadBatch
  PROVE  RunsInv'
<1>1. /\ pc = "next" /\ Strategy # "exact" /\ ranges = <<>> /\ loaded < Len(input)
      /\ loaded' = loaded + 1 /\ ranges' = Ranges(input[loaded + 1])
      /\ UNCHANGED <<input, runs, job, pc, seen>>
  BY DEF LoadBatch, Load, vars
<1>2. /\ input \in Seq(Seq(Range(Rows))) /\ Len(input) \in Nat /\ loaded \in Nat
      /\ \A b \in 1..Len(input) : input[b] \in Seq(Range(Rows))
  BY InputIs
<1>3. loaded + 1 \in 1..Len(input) /\ loaded + 1 \in Nat /\ (loaded + 1) - 1 = loaded
  BY <1>1, <1>2
<1>4. Tiles(ranges', input'[loaded'], 1)
  <2>1. input[loaded + 1] \in Seq(Range(Rows))
    BY <1>2, <1>3
  <2> QED BY <1>1, <2>1, RangesTile
<1>5. RunRows(runs) = RowsUpTo(input, loaded)
  BY <1>1, BatchesDone
<1>6. RunRows(runs') = RowsUpTo(input', loaded' - 1) \o Cut(loaded', 1, 1 - 1)
  <2>1. Cut(loaded + 1, 1, 0) = <<>>
    <3>1. 0 - 1 + 1 = 0
      OBVIOUS
    <3>2. Cut(loaded + 1, 1, 0) = [i \in 1..0 |-> <<loaded + 1, 1 + i - 1>>]
      BY <3>1 DEF Cut
    <3> QED BY <3>2
  <2>2. RowsUpTo(input, loaded) \in Seq(Nat \X Nat)
    BY <1>1, <1>2, RowsUpToNext
  <2>3. RowsUpTo(input, loaded) \o <<>> = RowsUpTo(input, loaded)
    BY <2>2, ConcatEmptySeq
  <2>4. 1 - 1 = 0
    OBVIOUS
  <2> QED BY <1>1, <1>3, <1>5, <2>1, <2>3, <2>4
<1>7. CutAt(1)'
  <2>1. loaded' # 0
    BY <1>1, <1>2
  <2> QED BY <1>4, <1>6, <2>1 DEF CutAt
<1>8. \E f \in Nat : CutAt(f)'
  BY <1>7
<1>9. loaded' \in 0..Len(input') /\ pc' = "next" /\ Strategy' = Strategy
  BY <1>1, <1>2 DEF Strategy
<1> QED BY <1>1, <1>8, <1>9 DEF RunsInv

(* A run is emitted: the rows of the next range. *)
LEMMA RunsEmit ==
  ASSUME TypeInv, RunsInv, TakeRun, Strategy # "exact"
  PROVE  RunsInv'
<1> DEFINE h == Head(ranges)
           run == [batch |-> loaded, first |-> h[1], last |-> h[2]]
<1>1. /\ ranges # <<>> /\ runs' = Append(runs, run) /\ ranges' = Tail(ranges)
      /\ UNCHANGED <<input, loaded, job>>
      /\ Last(seen') = KeyOf(ValuesOf(Last(runs')))
  BY DEF TakeRun, Emit, Slice, NextRun
<1>2. PICK k \in Keyed : /\ seen' = Append(seen, k)
                         /\ pc' \in {"write", "turnover", "open"}
  BY DEF TakeRun, NextRun, Goto
<1>3. PICK f \in Nat : CutAt(f)
  BY DEF RunsInv
<1>4. loaded # 0 /\ loaded \in 1..Len(input) /\ loaded \in Nat
      /\ input \in Seq(Seq(Range(Rows))) /\ input[loaded] \in Seq(Range(Rows))
  <2>1. loaded # 0
    BY <1>1, <1>3 DEF CutAt
  <2> QED BY <2>1, InputIs
<1>5. /\ Tiles(ranges, input[loaded], f)
      /\ RunRows(runs) = RowsUpTo(input, loaded - 1) \o Cut(loaded, 1, f - 1)
  BY <1>3, <1>4 DEF CutAt
<1>6. /\ h[1] = f /\ f \in 1..h[2] /\ h[2] \in 1..Len(input[loaded])
      /\ \A i \in f..h[2] : input[loaded][i] = input[loaded][f]
      /\ Tiles(Tail(ranges), input[loaded], h[2] + 1)
  BY <1>1, <1>4, <1>5, TilesNext
<1> HIDE DEF h
<1>7. h[2] \in Nat /\ f \in Nat /\ 1 <= f /\ f <= h[2] /\ Len(input[loaded]) \in Nat
  BY <1>4, <1>6
<1>8. /\ run \in RunRecords /\ run.batch = loaded /\ run.first = f /\ run.last = h[2]
  BY <1>4, <1>6, <1>7 DEF RunRecords
<1> HIDE DEF run
<1>9. IsRun(input, run)
  BY <1>4, <1>6, <1>8 DEF IsRun
<1>10. /\ runs \in Seq(RunRecords) /\ Len(runs) = Len(seen) /\ Len(seen) \in Nat
       /\ seen \in Seq(Keyed)
  BY DEF RunsInv, TypeInv
<1>11. /\ runs' \in Seq(RunRecords) /\ Len(runs') = Len(runs) + 1
       /\ runs'[Len(runs) + 1] = run /\ \A n \in 1..Len(runs) : runs'[n] = runs[n]
  BY <1>1, <1>8, <1>10, AppendProperties
<1>12. /\ Len(seen') = Len(runs) + 1 /\ seen'[Len(runs) + 1] = k
       /\ \A n \in 1..Len(runs) : seen'[n] = seen[n]
  BY <1>2, <1>10, AppendProperties
<1>13. k = KeyOf(input[run.batch][run.first])
  <2>1. Last(seen') = k /\ Last(runs') = run
    BY <1>11, <1>12 DEF Last
  <2> QED BY <1>1, <2>1 DEF ValuesOf
<1>14. ASSUME NEW n \in 1..Len(runs')
       PROVE  /\ IsRun(input', runs'[n])
              /\ seen'[n] = KeyOf(input'[runs'[n].batch][runs'[n].first])
  <2>1. CASE n \in 1..Len(runs)
    BY <1>1, <1>11, <1>12, <2>1 DEF RunsInv
  <2>2. CASE n = Len(runs) + 1
    BY <1>1, <1>9, <1>11, <1>12, <1>13, <2>2
  <2> QED BY <1>10, <1>11, <2>1, <2>2
<1>15. RunRows(runs') = RowsUpTo(input', loaded' - 1) \o Cut(loaded', 1, (h[2] + 1) - 1)
  <2>1. RunRows(runs') = RunRows(runs) \o RowsOfRun(run)
    BY <1>1, <1>8, <1>10, RunRowsMore
  <2>2. RowsOfRun(run) = Cut(loaded, f, h[2]) /\ RowsOfRun(run) \in Seq(Nat \X Nat)
    BY <1>8, RunIsCut
  <2> DEFINE g == f - 1
  <2>3. g \in Nat /\ g + 1 = f /\ 1 <= g + 1 /\ g <= h[2]
    BY <1>7
  <2> HIDE DEF g
  <2>4. /\ Cut(loaded, 1, g) \in Seq(Nat \X Nat)
        /\ Cut(loaded, 1, g) \o Cut(loaded, f, h[2]) = Cut(loaded, 1, h[2])
    <3>1. \A b, c, lo, hi \in Nat : 1 <= lo /\ lo <= c + 1 /\ c <= hi =>
            /\ Cut(b, lo, c) \in Seq(Nat \X Nat)
            /\ Cut(b, lo, c) \o Cut(b, c + 1, hi) = Cut(b, lo, hi)
      BY CutJoin
    <3> DEFINE hi == h[2]
    <3>2. hi \in Nat /\ g <= hi
      BY <1>7, <2>3
    <3> HIDE DEF hi
    <3>3. /\ Cut(loaded, 1, g) \in Seq(Nat \X Nat)
          /\ Cut(loaded, 1, g) \o Cut(loaded, g + 1, hi) = Cut(loaded, 1, hi)
      <4>1. 1 \in Nat /\ 1 <= 1 /\ loaded \in Nat /\ g \in Nat /\ 1 <= g + 1
        BY <1>4, <2>3
      <4> QED BY <3>1, <3>2, <4>1, Zenon
    <3> QED BY <2>3, <3>3 DEF hi
  <2> DEFINE m == loaded - 1
  <2>5. m \in Nat /\ m < Len(input)
    BY <1>4, InputIs
  <2> HIDE DEF m
  <2>6. RowsUpTo(input, m) \in Seq(Nat \X Nat)
    BY <1>4, <2>5, RowsUpToNext
  <2>7. (RowsUpTo(input, m) \o Cut(loaded, 1, g)) \o Cut(loaded, f, h[2])
          = RowsUpTo(input, m) \o (Cut(loaded, 1, g) \o Cut(loaded, f, h[2]))
    <3> DEFINE D == Nat \X Nat
    <3>1. Cut(loaded, f, h[2]) \in Seq(D) /\ Cut(loaded, 1, g) \in Seq(D)
          /\ RowsUpTo(input, m) \in Seq(D)
      BY <2>2, <2>4, <2>6
    <3> HIDE DEF D
    <3>2. \A a, b, c \in Seq(D) : (a \o b) \o c = a \o (b \o c)
      BY ConcatAssociative
    <3> QED BY <3>1, <3>2, Zenon
  <2>8. (h[2] + 1) - 1 = h[2]
    BY <1>7
  <2>9. RunRows(runs) = RowsUpTo(input, m) \o Cut(loaded, 1, g)
    BY <1>5 DEF m, g
  <2>10. RunRows(runs') = RowsUpTo(input, m) \o Cut(loaded, 1, h[2])
    BY <2>1, <2>2, <2>4, <2>7, <2>9
  <2> QED BY <1>1, <2>8, <2>10 DEF m
<1>16. PICK g \in Nat : g = h[2] + 1
  BY <1>7
<1>17. CutAt(g)'
  <2>1. Tiles(ranges', input'[loaded'], g)
    BY <1>1, <1>6, <1>16
  <2>2. RunRows(runs') = RowsUpTo(input', loaded' - 1) \o Cut(loaded', 1, g - 1)
    BY <1>15, <1>16
  <2>3. loaded' # 0
    BY <1>1, <1>4
  <2> QED BY <2>1, <2>2, <2>3 DEF CutAt
<1>18. /\ input' \in Streams /\ loaded' \in 0..Len(input') /\ Strategy' = Strategy
       /\ Len(runs') = Len(seen') /\ pc' \notin {"finishing", "ok"}
  BY <1>1, <1>2, <1>11, <1>12 DEF RunsInv, Strategy
<1> QED BY <1>11, <1>14, <1>17, <1>18 DEF RunsInv

(* An exact target is given the batches. *)
LEMMA RunsBatch ==
  ASSUME TypeInv, RunsInv, TakeRun, Strategy = "exact"
  PROVE  RunsInv'
<1> DEFINE run == [batch |-> loaded + 1, first |-> 1, last |-> Len(input[loaded + 1])]
<1>1. /\ loaded < Len(input) /\ loaded' = loaded + 1 /\ runs' = Append(runs, run)
      /\ UNCHANGED <<input, ranges, job>>
  BY DEF TakeRun, EmitBatch, NextRun
<1>2. PICK k \in Keyed : /\ seen' = Append(seen, k)
                         /\ pc' \in {"write", "turnover", "open"}
  BY DEF TakeRun, NextRun, Goto
<1>3. /\ input \in Seq(Seq(Range(Rows))) /\ Len(input) \in Nat /\ loaded \in Nat
      /\ loaded + 1 \in 1..Len(input) /\ input[loaded + 1] \in Seq(Range(Rows))
  BY <1>1, InputIs
<1>4. /\ run \in RunRecords /\ run.batch = loaded + 1 /\ run.first = 1
      /\ run.last = Len(input[loaded + 1])
  BY <1>3 DEF RunRecords
<1> HIDE DEF run
<1>5. /\ runs \in Seq(RunRecords) /\ Len(runs) = Len(seen) /\ seen \in Seq(Keyed)
      /\ ranges = <<>> /\ RunRows(runs) = RowsUpTo(input, loaded)
  BY DEF RunsInv, TypeInv
<1>6. runs' \in Seq(RunRecords) /\ Len(runs') = Len(runs) + 1
  BY <1>1, <1>4, <1>5, AppendProperties
<1>7. Len(seen') = Len(seen) + 1
  BY <1>2, <1>5, AppendProperties
<1>8. RunRows(runs') = RunRows(runs) \o RowsOfRun(run)
  BY <1>1, <1>4, <1>5, RunRowsMore
<1>9. RowsOfRun(run) = Cut(loaded + 1, 1, Len(input[loaded + 1]))
  BY <1>4, RunIsCut
<1>10. BatchRows(input, loaded + 1) = Cut(loaded + 1, 1, Len(input[loaded + 1]))
  BY <1>3, RunIsCut
<1>11. RowsUpTo(input, loaded + 1) = RowsUpTo(input, loaded) \o BatchRows(input, loaded + 1)
  BY <1>1, <1>3, RowsUpToNext
<1>12. RunRows(runs') = RowsUpTo(input', loaded')
  BY <1>1, <1>5, <1>8, <1>9, <1>10, <1>11
<1>13. Strategy' = Strategy /\ loaded' \in 0..Len(input')
  BY <1>1, <1>3 DEF Strategy
<1> QED BY <1>1, <1>2, <1>5, <1>6, <1>7, <1>12, <1>13 DEF RunsInv

(* Every step keeps what the runs are. *)
LEMMA RunsStep == TypeInv /\ RunsInv /\ [FileNext]_<<vars, runVars>> => RunsInv'
<1> SUFFICES ASSUME TypeInv, RunsInv, [FileNext]_<<vars, runVars>> PROVE RunsInv'
  OBVIOUS
<1>1. CASE LoadBatch
  BY <1>1, RunsLoad
<1>2. CASE TakeRun
  BY <1>2, RunsEmit, RunsBatch
<1>3. CASE Drained /\ StreamEnds /\ UNCHANGED runVars
  BY <1>3, RunsStay DEF Drained, StreamEnds
<1>4. CASE StreamFails /\ UNCHANGED runVars
  BY <1>4, RunsStay DEF StreamFails, Goto
<1>5. CASE Others /\ UNCHANGED runVars
  <2>1. UNCHANGED <<job, seen>>
    BY <1>5 DEF Others, OpenRendered, OpenOk, OpenFails, Write, WriteFails, FinishVictim,
       FinishNext, Finish, Succeed, AbortNext, Fail
  <2>2. pc' \in {"finishing", "ok"} => pc \in {"finishing", "ok"}
    BY <1>5 DEF Others, OpenRendered, OpenOk, OpenFails, Write, WriteFails, FinishVictim,
       FinishNext, Finish, Succeed, AbortNext, Fail, Goto, AbortOthers
  <2> QED BY <1>5, <2>1, <2>2, RunsStay
<1>6. CASE UNCHANGED <<vars, runVars>>
  BY <1>6, RunsStay DEF vars
<1> QED BY <1>1, <1>2, <1>3, <1>4, <1>5, <1>6 DEF FileNext

(* The outputs of FileOutput are those of PartitionedOutput. *)
LEMMA FileImplements == FileSpec => Spec
<1>1. FileInit => Init
  BY DEF FileInit
<1>2. [FileNext]_<<vars, runVars>> => [Next]_vars
  BY DEF FileNext, LoadBatch, TakeRun, Others, OpenRendered, Next, vars
<1> QED BY <1>1, <1>2, PTL DEF FileSpec, Spec

(* All of it holds throughout. *)
LEMMA FileHolds == FileSpec => [](Inv /\ FiledInv /\ RunsInv)
<1>1. FileSpec => [](Inv /\ FiledInv)
  BY FileImplements, InvHolds, FiledHolds, PTL
<1>2. Inv => TypeInv
  BY DEF Inv
<1> QED BY <1>1, <1>2, RunsFirst, RunsStep, PTL DEF FileSpec

-----------------------------------------------------------------------------
(* A key tells the values of a partition. *)

(* Sequences that are equal when joined, and as long, are equal. *)
LEMMA SplitSame ==
  ASSUME NEW S, NEW x \in Seq(S), NEW y \in Seq(S), NEW a \in Seq(S), NEW b \in Seq(S),
         Len(x) = Len(y), x \o a = y \o b
  PROVE  x = y /\ a = b
<1>1. /\ Len(x \o a) = Len(x) + Len(a) /\ Len(y \o b) = Len(y) + Len(b)
      /\ \A i \in 1..(Len(x) + Len(a)) :
           (x \o a)[i] = IF i <= Len(x) THEN x[i] ELSE a[i - Len(x)]
      /\ \A i \in 1..(Len(y) + Len(b)) :
           (y \o b)[i] = IF i <= Len(y) THEN y[i] ELSE b[i - Len(y)]
  BY ConcatProperties
<1>2. Len(x) \in Nat /\ Len(a) \in Nat /\ Len(b) \in Nat /\ Len(a) = Len(b)
  BY <1>1
<1>3. \A i \in 1..Len(x) : x[i] = y[i]
  <2> SUFFICES ASSUME NEW i \in 1..Len(x) PROVE x[i] = y[i]
    OBVIOUS
  <2>1. i \in 1..(Len(x) + Len(a)) /\ i \in 1..(Len(y) + Len(b)) /\ i <= Len(x)
    BY <1>2
  <2> QED BY <1>1, <2>1
<1>4. \A i \in 1..Len(a) : a[i] = b[i]
  <2> SUFFICES ASSUME NEW i \in 1..Len(a) PROVE a[i] = b[i]
    OBVIOUS
  <2> DEFINE j == Len(x) + i
  <2>1. /\ j \in 1..(Len(x) + Len(a)) /\ j \in 1..(Len(y) + Len(b)) /\ ~(j <= Len(x))
        /\ j - Len(x) = i /\ j - Len(y) = i
    BY <1>2
  <2> HIDE DEF j
  <2> QED BY <1>1, <2>1
<1> QED BY <1>2, <1>3, <1>4, SeqEqual

(* Two values that a key does not tell apart. *)
SameText(v, w) ==
  /\ v = Null <=> w = Null
  /\ v # Null => v.text = w.text

(* The characters of a key: those of the values, and its own. *)
KeyCharacters == [c : STRING \cup {"!", "length", ":", ","}, n : Nat]

(* The characters that are used, and those of a text. *)
LEMMA KeyCharacter ==
  /\ \A n \in Nat : /\ Character("!", n) \in KeyCharacters
                    /\ Character("length", n) \in KeyCharacters
                    /\ Character(":", n) \in KeyCharacters
                    /\ Character(",", n) \in KeyCharacters
  /\ \A v \in ColumnValues : v # Null => v.text \in Seq(KeyCharacters)
<1>1. \A c \in {"!", "length", ":", ","} : \A n \in Nat : Character(c, n) \in KeyCharacters
  BY DEF Character, KeyCharacters
<1>2. ASSUME NEW v \in ColumnValues, v # Null PROVE v.text \in Seq(KeyCharacters)
  <2> DEFINE t == v.text
  <2>1. t \in Seq(Characters)
    BY <1>2 DEF ColumnValues
  <2>2. \A x \in Characters : x \in KeyCharacters
    BY DEF Characters, KeyCharacters
  <2> HIDE DEF t
  <2>3. Len(t) \in Nat /\ \A i \in 1..Len(t) : t[i] \in KeyCharacters
    BY <2>1, <2>2
  <2>4. t = [i \in 1..Len(t) |-> t[i]]
    BY <2>1
  <2>5. t \in Seq(KeyCharacters)
    BY <2>3, <2>4
  <2> QED BY <2>5 DEF t
<1> QED BY <1>1, <1>2

(* The part of a value in a key. *)
LEMMA KeyPartIs ==
  ASSUME NEW v \in ColumnValues
  PROVE  /\ KeyPart(v) \in Seq(KeyCharacters) /\ Len(KeyPart(v)) # 0
         /\ v = Null => KeyPart(v) = NullMark /\ KeyPart(v)[1] = Character("!", 0)
         /\ v # Null => /\ v.text \in Seq(KeyCharacters)
                        /\ KeyPart(v)[1] = Character("length", Len(v.text))
                        /\ Len(KeyPart(v)) = Len(v.text) + 2
<1>2. CASE v = Null
  <2>1. KeyPart(v) = <<Character("!", 0)>>
    BY <1>2 DEF KeyPart, NullMark
  <2>2. Character("!", 0) \in KeyCharacters
    BY KeyCharacter
  <2> DEFINE c == Character("!", 0)
  <2>3. KeyPart(v) = <<c>> /\ c \in KeyCharacters
    BY <2>1, <2>2
  <2> HIDE DEF c
  <2>4. KeyPart(v) \in Seq(KeyCharacters) /\ Len(KeyPart(v)) = 1 /\ KeyPart(v)[1] = c
    BY <2>3
  <2> QED BY <1>2, <2>1, <2>4 DEF NullMark, c
<1>3. CASE v # Null
  <2>1. v.text \in Seq(KeyCharacters) /\ Len(v.text) \in Nat
    <3>1. v.text \in Seq(KeyCharacters)
      BY <1>3, KeyCharacter
    <3> QED BY <3>1, LenProperties
  <2> DEFINE c == Character("length", Len(v.text))
             d == Character(":", 0)
             t == v.text
  <2>2. c \in KeyCharacters /\ d \in KeyCharacters
    BY <2>1, KeyCharacter
  <2>3. KeyPart(v) = <<c, d>> \o t
    BY <1>3 DEF KeyPart
  <2> HIDE DEF c, d, t
  <2>4. <<c, d>> \in Seq(KeyCharacters) /\ Len(<<c, d>>) = 2 /\ <<c, d>>[1] = c
    BY <2>2
  <2>5. t \in Seq(KeyCharacters) /\ Len(t) \in Nat
    BY <2>1 DEF t
  <2> DEFINE p == <<c, d>>
  <2>6. p \in Seq(KeyCharacters) /\ Len(p) = 2 /\ p[1] = c
    BY <2>4
  <2>7. KeyPart(v) = p \o t
    BY <2>3
  <2> HIDE DEF p
  <2>8. /\ p \o t \in Seq(KeyCharacters) /\ Len(p \o t) = Len(p) + Len(t)
        /\ \A i \in 1..(Len(p) + Len(t)) :
             (p \o t)[i] = IF i <= Len(p) THEN p[i] ELSE t[i - Len(p)]
    BY <2>5, <2>6, ConcatProperties
  <2>9. 1 \in 1..(Len(p) + Len(t)) /\ 1 <= Len(p) /\ Len(p) + Len(t) = Len(t) + 2
    BY <2>5, <2>6
  <2>10. (p \o t)[1] = c
    BY <2>6, <2>8, <2>9
  <2>11. Len(p \o t) # 0
    BY <2>5, <2>8, <2>9
  <2>12. /\ KeyPart(v) \in Seq(KeyCharacters) /\ Len(KeyPart(v)) # 0
         /\ KeyPart(v)[1] = c /\ Len(KeyPart(v)) = Len(t) + 2
    BY <2>7, <2>8, <2>9, <2>10, <2>11
  <2> QED BY <1>3, <2>1, <2>12 DEF c, t
<1> QED BY <1>2, <1>3

(* The parts of two values are read back, whatever follows them. *)
LEMMA KeyPartTells ==
  ASSUME NEW v \in ColumnValues, NEW w \in ColumnValues,
         NEW a \in Seq(KeyCharacters), NEW b \in Seq(KeyCharacters),
         KeyPart(v) \o a = KeyPart(w) \o b
  PROVE  SameText(v, w) /\ a = b
<1> DEFINE x == KeyPart(v)
           y == KeyPart(w)
<1>1. x \in Seq(KeyCharacters) /\ y \in Seq(KeyCharacters) /\ Len(x) # 0 /\ Len(y) # 0
  BY KeyPartIs
<1>2. x[1] = y[1]
  <2> HIDE DEF x, y
  <2>1. (x \o a)[1] = x[1] /\ (y \o b)[1] = y[1]
    BY <1>1
  <2>2. x \o a = y \o b
    BY DEF x, y
  <2> QED BY <2>1, <2>2
<1>3. v = Null <=> w = Null
  <2>1. \A n \in Nat : Character("!", 0) # Character("length", n)
    BY DEF Character
  <2>2. ASSUME v = Null, w # Null PROVE FALSE
    BY <1>2, <2>1, <2>2, KeyPartIs
  <2>3. ASSUME w = Null, v # Null PROVE FALSE
    BY <1>2, <2>1, <2>3, KeyPartIs
  <2> QED BY <2>2, <2>3
<1>4. Len(x) = Len(y)
  <2>1. CASE v = Null
    BY <1>3, <2>1, KeyPartIs
  <2>2. CASE v # Null
    <3>1. \A m, n : Character("length", m) = Character("length", n) => m = n
      BY DEF Character
    <3>2. Len(v.text) = Len(w.text)
      BY <1>2, <1>3, <2>2, <3>1, KeyPartIs
    <3>3. Len(x) = Len(v.text) + 2 /\ Len(y) = Len(w.text) + 2
      BY <1>3, <2>2, KeyPartIs
    <3> QED BY <3>2, <3>3
  <2> QED BY <2>1, <2>2
<1>5. x = y /\ a = b
  <2>1. x \o a = y \o b
    OBVIOUS
  <2> HIDE DEF x, y
  <2> QED BY <1>1, <1>4, <2>1, SplitSame
<1>6. ASSUME v # Null PROVE v.text = w.text
  <2> DEFINE p == <<Character("length", Len(v.text)), Character(":", 0)>>
             q == <<Character("length", Len(w.text)), Character(":", 0)>>
  <2>1. v.text \in Seq(KeyCharacters) /\ w.text \in Seq(KeyCharacters)
    BY <1>3, <1>6, KeyPartIs
  <2>2. p \in Seq(KeyCharacters) /\ q \in Seq(KeyCharacters) /\ Len(p) = Len(q)
    <3> DEFINE c == Character("length", Len(v.text))
               d == Character("length", Len(w.text))
               e == Character(":", 0)
    <3>1. c \in KeyCharacters /\ d \in KeyCharacters /\ e \in KeyCharacters
      <4>1. Len(v.text) \in Nat /\ Len(w.text) \in Nat
        BY <2>1, LenProperties
      <4> QED BY <4>1, KeyCharacter
    <3>2. p = <<c, e>> /\ q = <<d, e>>
      OBVIOUS
    <3> HIDE DEF c, d, e, p, q
    <3>3. /\ <<c, e>> \in Seq(KeyCharacters) /\ <<d, e>> \in Seq(KeyCharacters)
          /\ Len(<<c, e>>) = 2 /\ Len(<<d, e>>) = 2
      BY <3>1
    <3> QED BY <3>2, <3>3
  <2>3. x = p \o v.text /\ y = q \o w.text
    BY <1>3, <1>6 DEF KeyPart
  <2>4. p \o v.text = q \o w.text
    BY <1>5, <2>3
  <2> HIDE DEF p, q
  <2> QED BY <2>1, <2>2, <2>4, SplitSame
<1> QED BY <1>3, <1>5, <1>6 DEF SameText

(* The part of column i, and of the first m columns. *)
Separator(i) == IF i = 1 THEN <<>> ELSE <<Character(",", 0)>>
KeyParts(r, m) == FlattenSeq([i \in 1..m |-> Separator(i) \o KeyPart(r[i])])

(* One column more. *)
LEMMA KeyPartsNext ==
  ASSUME NEW n \in Nat, NEW r \in [1..n -> ColumnValues], NEW m \in Nat, m < n
  PROVE  /\ KeyParts(r, m) \in Seq(KeyCharacters)
         /\ Separator(m + 1) \in Seq(KeyCharacters) /\ KeyPart(r[m + 1]) \in Seq(KeyCharacters)
         /\ KeyParts(r, m + 1) = KeyParts(r, m) \o (Separator(m + 1) \o KeyPart(r[m + 1]))
<1> DEFINE X(i) == Separator(i) \o KeyPart(r[i])
           ss == [i \in 1..m |-> X(i)]
           tt == [i \in 1..(m + 1) |-> X(i)]
<1>1. \A i \in Nat : Separator(i) \in Seq(KeyCharacters)
  <2> DEFINE c == Character(",", 0)
  <2>1. c \in KeyCharacters
    BY KeyCharacter
  <2>2. \A i : Separator(i) = IF i = 1 THEN <<>> ELSE <<c>>
    BY DEF Separator
  <2> HIDE DEF c
  <2>3. <<c>> \in Seq(KeyCharacters) /\ <<>> \in Seq(KeyCharacters)
    BY <2>1
  <2> QED BY <2>2, <2>3
<1>2. \A i \in 1..(m + 1) : KeyPart(r[i]) \in Seq(KeyCharacters)
  <2>1. \A i \in 1..(m + 1) : r[i] \in ColumnValues
    OBVIOUS
  <2> QED BY <2>1, KeyPartIs
<1>3. \A i \in 1..(m + 1) : X(i) \in Seq(KeyCharacters)
  BY <1>1, <1>2, ConcatProperties
<1>4. m + 1 \in 1..(m + 1) /\ m + 1 \in Nat
  OBVIOUS
<1>5. KeyParts(r, m) = FlattenSeq(ss) /\ KeyParts(r, m + 1) = FlattenSeq(tt)
  BY DEF KeyParts
<1>6. X(m + 1) = Separator(m + 1) \o KeyPart(r[m + 1])
  OBVIOUS
<1> HIDE DEF X
<1>7. /\ ss \in Seq(Seq(KeyCharacters)) /\ Len(ss) = m
      /\ tt \in Seq(Seq(KeyCharacters)) /\ Len(tt) = m + 1
      /\ tt[m + 1] = X(m + 1) /\ \A i \in 1..m : tt[i] = ss[i]
  BY <1>3, <1>4
<1> HIDE DEF ss, tt
<1>8. FlattenSeq(ss) \in Seq(KeyCharacters)
  BY <1>7, FlattenKeeps
<1>9. FlattenSeq(tt) = FlattenSeq(ss) \o tt[m + 1]
  BY <1>7, FlattenLast
<1> QED BY <1>1, <1>2, <1>4, <1>5, <1>6, <1>7, <1>8, <1>9

(* Whatever follows the keys of the first k columns of r and of s, they are told
   apart. *)
Told(r, s, k) ==
  \A x, y \in Seq(KeyCharacters) : KeyParts(r, k) \o x = KeyParts(s, k) \o y =>
    x = y /\ \A i \in 1..k : SameText(r[i], s[i])

(* There is nothing to tell before the first column. *)
LEMMA ToldAtFirst == \A r, s : Told(r, s, 0)
<1> SUFFICES ASSUME NEW r, NEW s, NEW x \in Seq(KeyCharacters), NEW y \in Seq(KeyCharacters),
                    KeyParts(r, 0) \o x = KeyParts(s, 0) \o y
             PROVE  x = y /\ \A i \in 1..0 : SameText(r[i], s[i])
  BY Zenon DEF Told
<1>1. KeyParts(r, 0) = <<>> /\ KeyParts(s, 0) = <<>>
  <2>1. FlattenSeq(<<>>) = <<>>
    BY DEF FlattenSeq
  <2>2. \A q : [i \in 1..0 |-> Separator(i) \o KeyPart(q[i])] = <<>>
    OBVIOUS
  <2> QED BY <2>1, <2>2, Zenon DEF KeyParts
<1>2. <<>> \o x = x /\ <<>> \o y = y
  BY ConcatEmptySeq
<1> QED BY <1>1, <1>2

(* The separator and the length of the next value tell where it ends. *)
LEMMA ToldNext ==
  ASSUME NEW n \in Nat, NEW r \in [1..n -> ColumnValues], NEW s \in [1..n -> ColumnValues],
         NEW k \in Nat, k < n, Told(r, s, k)
  PROVE  Told(r, s, k + 1)
<1>0. SUFFICES ASSUME NEW x \in Seq(KeyCharacters), NEW y \in Seq(KeyCharacters),
                      KeyParts(r, k + 1) \o x = KeyParts(s, k + 1) \o y
               PROVE  x = y /\ \A i \in 1..(k + 1) : SameText(r[i], s[i])
  BY Zenon DEF Told
<1> DEFINE C == Seq(KeyCharacters)
           c == Separator(k + 1)
           f == KeyPart(r[k + 1])
           g == KeyPart(s[k + 1])
           u == KeyParts(r, k)
           v == KeyParts(s, k)
<1>1. /\ u \in C /\ c \in C /\ f \in C /\ KeyParts(r, k + 1) = u \o (c \o f)
      /\ v \in C /\ g \in C /\ KeyParts(s, k + 1) = v \o (c \o g)
  BY KeyPartsNext
<1>2. k + 1 \in 1..n
  OBVIOUS
<1>3. r[k + 1] \in ColumnValues /\ s[k + 1] \in ColumnValues
  BY <1>2
<1>4. (u \o (c \o f)) \o x = (v \o (c \o g)) \o y
  BY <1>0, <1>1, Zenon
<1>12. \A p, q \in C : p \o q \in C
  BY ConcatProperties
<1>13. \A p, q, w \in C : (p \o q) \o w = p \o (q \o w)
  BY ConcatAssociative
<1>14. x \in C /\ y \in C
  BY <1>0
<1>5. /\ f \o x \in C /\ c \o (f \o x) \in C
      /\ (u \o (c \o f)) \o x = u \o (c \o (f \o x))
  <2> HIDE DEF C, c, f, g, u, v
  <2>1. u \in C /\ c \in C /\ f \in C /\ x \in C
    BY <1>1, <1>14
  <2>2. c \o f \in C /\ f \o x \in C
    BY <1>12, <2>1, Zenon
  <2>3. c \o (f \o x) \in C
    BY <1>12, <2>1, <2>2, Zenon
  <2>4. (u \o (c \o f)) \o x = u \o ((c \o f) \o x)
    BY <1>13, <2>1, <2>2, Zenon
  <2>5. (c \o f) \o x = c \o (f \o x)
    BY <1>13, <2>1, Zenon
  <2> QED BY <2>2, <2>3, <2>4, <2>5, Zenon
<1>6. /\ g \o y \in C /\ c \o (g \o y) \in C
      /\ (v \o (c \o g)) \o y = v \o (c \o (g \o y))
  <2> HIDE DEF C, c, f, g, u, v
  <2>1. v \in C /\ c \in C /\ g \in C /\ y \in C
    BY <1>1, <1>14
  <2>2. c \o g \in C /\ g \o y \in C
    BY <1>12, <2>1, Zenon
  <2>3. c \o (g \o y) \in C
    BY <1>12, <2>1, <2>2, Zenon
  <2>4. (v \o (c \o g)) \o y = v \o ((c \o g) \o y)
    BY <1>13, <2>1, <2>2, Zenon
  <2>5. (c \o g) \o y = c \o (g \o y)
    BY <1>13, <2>1, Zenon
  <2> QED BY <2>2, <2>3, <2>4, <2>5, Zenon
<1>7. u \o (c \o (f \o x)) = v \o (c \o (g \o y))
  BY <1>4, <1>5, <1>6, Zenon
<1>8. c \o (f \o x) = c \o (g \o y) /\ \A i \in 1..k : SameText(r[i], s[i])
  BY <1>5, <1>6, <1>7, Zenon DEF Told
<1>9. f \o x = g \o y
  <2> HIDE DEF c, f, g, u, v
  <2> DEFINE p == f \o x
             q == g \o y
  <2>1. p \in C /\ q \in C /\ c \in C /\ c \o p = c \o q
    BY <1>1, <1>5, <1>6, <1>8, Zenon
  <2> HIDE DEF p, q
  <2>2. p = q
    BY <2>1, SplitSame
  <2> QED BY <2>2 DEF p, q
<1>10. SameText(r[k + 1], s[k + 1]) /\ x = y
  <2> DEFINE a == r[k + 1]
             b == s[k + 1]
  <2>2. a \in ColumnValues /\ b \in ColumnValues
    BY <1>3
  <2>3. KeyPart(a) \o x = KeyPart(b) \o y
    BY <1>9, Zenon
  <2> HIDE DEF a, b
  <2>4. x \in Seq(KeyCharacters) /\ y \in Seq(KeyCharacters)
    BY <1>0
  <2> HIDE DEF c, f, g, u, v
  <2>5. SameText(a, b) /\ x = y
    BY <2>2, <2>3, <2>4, KeyPartTells
  <2> QED BY <2>5 DEF a, b
<1>11. \A i \in 1..(k + 1) : i \in 1..k \/ i = k + 1
  OBVIOUS
<1> QED BY <1>8, <1>10, <1>11, Zenon

(* All columns of a row are told. *)
LEMMA KeyPartsTell ==
  ASSUME NEW n \in Nat, NEW r \in [1..n -> ColumnValues], NEW s \in [1..n -> ColumnValues]
  PROVE  Told(r, s, n)
<1> DEFINE P == {k \in Nat : k <= n => Told(r, s, k)}
<1>1. 0 \in P
  BY ToldAtFirst
<1>2. ASSUME NEW k \in Nat, k \in P PROVE k + 1 \in P
  <2>1. ASSUME k + 1 <= n PROVE Told(r, s, k + 1)
    <3>1. k < n /\ k <= n
      BY <2>1
    <3>2. Told(r, s, k)
      BY <1>2, <3>1
    <3> QED BY <3>1, <3>2, ToldNext
  <2> QED BY <2>1
<1> HIDE DEF P
<1>3. Nat \subseteq P
  BY <1>1, <1>2, Inductive
<1>4. n \in P
  BY <1>3
<1> QED BY <1>4 DEF P

(* A row is a function of the columns. *)
LEMMA RowIs ==
  ASSUME NEW row \in Range(Rows)
  PROVE  /\ Len(By) \in Nat /\ DOMAIN By = 1..Len(By)
         /\ row \in [1..Len(By) -> ColumnValues]
         /\ PartitionKey(row) = KeyParts(row, Len(By))
<1>1. By \in Seq(STRING) /\ Rows \in Seq([DOMAIN By -> ColumnValues])
  BY RowsAssumption
<1>2. Len(By) \in Nat /\ DOMAIN By = 1..Len(By)
  BY <1>1
<1>3. PICK i \in DOMAIN Rows : row = Rows[i]
  BY DEF Range
<1>4. row \in [DOMAIN By -> ColumnValues]
  BY <1>1, <1>3
<1>5. DOMAIN row = 1..Len(By)
  BY <1>2, <1>4
<1>6. PartitionKey(row) = KeyParts(row, Len(By))
  BY <1>5 DEF PartitionKey, KeyParts, Separator
<1> QED BY <1>2, <1>4, <1>6

(* A key tells a row, whatever separators its values have. *)
LEMMA KeysTell ==
  ASSUME NEW r \in Range(Rows), NEW s \in Range(Rows), PartitionKey(r) = PartitionKey(s)
  PROVE  r = s
<1> DEFINE n == Len(By)
<1>1. /\ n \in Nat /\ DOMAIN By = 1..n
      /\ r \in [1..n -> ColumnValues] /\ s \in [1..n -> ColumnValues]
      /\ KeyParts(r, n) = KeyParts(s, n)
  BY RowIs
<1> HIDE DEF n
<1>2. <<>> \in Seq(KeyCharacters) /\ KeyParts(r, n) \o <<>> = KeyParts(s, n) \o <<>>
  <2>1. <<>> \in Seq(KeyCharacters)
    OBVIOUS
  <2> QED BY <1>1, <2>1, Zenon
<1>3. \A i \in 1..n : SameText(r[i], s[i])
  <2>1. Told(r, s, n)
    BY <1>1, KeyPartsTell
  <2> QED BY <1>2, <2>1, Zenon DEF Told
<1>4. ASSUME NEW i \in 1..n PROVE r[i] = s[i]
  <2>1. SameText(r[i], s[i])
    BY <1>3
  <2>2. r[i] # Null /\ s[i] # Null /\ r[i].text = s[i].text => r[i] = s[i]
    <3>1. \A a, b \in Range(Rows), c \in DOMAIN By :
            a[c] # Null /\ b[c] # Null /\ a[c].text = b[c].text => a[c] = b[c]
      BY RowsAssumption
    <3>2. i \in DOMAIN By
      BY <1>1
    <3> QED BY <3>1, <3>2
  <2> QED BY <2>1, <2>2 DEF SameText
<1> QED BY <1>1, <1>4

(* The first of a set of numbers is one of them. *)
LEMMA FirstIs ==
  ASSUME NEW S, S \subseteq Nat, S # {}
  PROVE  First(S) \in S
<1>1. \E i \in S : \A j \in S : i <= j
  BY LeastNumber
<1> QED BY <1>1 DEF First

(* A partition and a target are known by a row that has them. *)
LEMMA KeyIs ==
  ASSUME NEW row \in Range(Rows)
  PROVE  /\ KeyOf(row) \in DOMAIN Rows /\ Rows[KeyOf(row)] = row
         /\ \A t : /\ PathOf(t, row) \in DOMAIN Rows
                   /\ TargetOf(t, Rows[PathOf(t, row)]) = TargetOf(t, row)
<1>1. PICK i \in DOMAIN Rows : row = Rows[i]
  BY DEF Range
<1>2. DOMAIN Rows \subseteq Nat
  BY RowsAssumption
<1>3. SameKey(row) \subseteq Nat /\ i \in SameKey(row)
  BY <1>1, <1>2 DEF SameKey
<1>4. KeyOf(row) \in SameKey(row)
  BY <1>3, FirstIs DEF KeyOf
<1>5. KeyOf(row) \in DOMAIN Rows /\ PartitionKey(Rows[KeyOf(row)]) = PartitionKey(row)
  BY <1>4 DEF SameKey
<1>6. Rows[KeyOf(row)] \in Range(Rows)
  BY <1>5 DEF Range
<1>7. Rows[KeyOf(row)] = row
  BY <1>5, <1>6, KeysTell
<1>8. ASSUME NEW t
      PROVE  /\ PathOf(t, row) \in DOMAIN Rows
             /\ TargetOf(t, Rows[PathOf(t, row)]) = TargetOf(t, row)
  <2>1. SameTarget(t, row) \subseteq Nat /\ i \in SameTarget(t, row)
    BY <1>1, <1>2 DEF SameTarget
  <2>2. PathOf(t, row) \in SameTarget(t, row)
    BY <2>1, FirstIs DEF PathOf
  <2> QED BY <2>2 DEF SameTarget
<1> QED BY <1>5, <1>7, <1>8

-----------------------------------------------------------------------------
(* The outputs of a partition are where its target is. *)

AtHome(sink) == sink.target[1] = job.path[sink.key]

(* No sink is open when the command has succeeded. *)
HomeInv ==
  /\ pc = "ok" => open = <<>>
  /\ \A i \in DOMAIN open : AtHome(open[i])
  /\ \A i \in DOMAIN completed : AtHome(completed[i])

(* What is open after a step was open, or its target is that of its partition. *)
LEMMA HomeKept ==
  ASSUME HomeInv, job' = job, pc' = "ok" => open' = <<>>,
         \A j \in DOMAIN open' :
           \/ open'[j].target[1] = job.path[open'[j].key]
           \/ \E m \in DOMAIN open : /\ open'[j].target = open[m].target
                                     /\ open'[j].key = open[m].key,
         \A j \in DOMAIN completed' :
           \/ j \in DOMAIN completed /\ completed'[j] = completed[j]
           \/ \E m \in DOMAIN open : completed'[j] = open[m]
  PROVE  HomeInv'
<1>1. ASSUME NEW j \in DOMAIN open' PROVE AtHome(open[j])'
  BY <1>1 DEF HomeInv, AtHome
<1>2. ASSUME NEW j \in DOMAIN completed' PROVE AtHome(completed[j])'
  BY <1>2 DEF HomeInv, AtHome
<1> QED BY <1>1, <1>2 DEF HomeInv

(* A sink is finished. *)
LEMMA HomeFinish ==
  ASSUME TypeInv, HomeInv, NEW i \in DOMAIN open, NEW then, then # "ok", Finish(i, then)
  PROVE  HomeInv'
<1>1. /\ open[i] \in KeyedSinks /\ open' = RemoveAt(open, i)
      /\ pc' \in {then, "aborting"} /\ UNCHANGED job
  BY FinishFacts
<1>2. completed' = Append(completed, open[i]) \/ completed' = completed
  BY DEF Finish, ReportFailed
<1>3. \A j \in DOMAIN open' : \E m \in DOMAIN open : open'[j] = open[m]
  BY <1>1, TakenOut DEF TypeInv
<1>4. completed \in Seq(KeyedSinks)
  BY DEF TypeInv
<1>5. \A j \in DOMAIN completed' :
        (j \in DOMAIN completed /\ completed'[j] = completed[j]) \/ completed'[j] = open[i]
  <2> DEFINE e == open[i]
  <2>1. e \in KeyedSinks /\ (completed' = Append(completed, e) \/ completed' = completed)
    BY <1>1, <1>2
  <2> HIDE DEF e
  <2>2. \A j \in DOMAIN completed' :
          (j \in DOMAIN completed /\ completed'[j] = completed[j]) \/ completed'[j] = e
    BY <1>4, <2>1
  <2> QED BY <2>2 DEF e
<1> QED BY <1>1, <1>3, <1>5, HomeKept

(* Every step keeps the outputs where they belong. *)
LEMMA HomeStep == Inv /\ HomeInv /\ [Next]_vars => HomeInv'
<1> SUFFICES ASSUME Inv, HomeInv, [Next]_vars PROVE HomeInv'
  OBVIOUS
<1>0. TypeInv /\ PlaceInv
  BY DEF Inv
<1>1. CASE \/ NextRun \/ StreamEnds \/ StreamFails \/ OpenFails \/ WriteFails
           \/ Succeed \/ Fail \/ UNCHANGED vars
  <2>1. UNCHANGED <<job, open, completed>> /\ (pc' = "ok" => open' = <<>>)
    BY <1>1 DEF NextRun, StreamEnds, StreamFails, OpenFails, WriteFails, Succeed,
       Fail, Goto, vars, HomeInv
  <2> QED BY <2>1, HomeKept
<1>2. CASE OpenOk
  <2> DEFINE sink == [key |-> Key, target |-> Target(Key), rows |-> <<>>]
  <2>1. /\ open' = Append(open, sink) /\ pc' # "ok"
        /\ UNCHANGED <<job, completed>>
    BY <1>2 DEF OpenOk, Goto
  <2>2. sink.target[1] = job.path[sink.key]
    BY DEF Target
  <2> HIDE DEF sink
  <2>3. ASSUME NEW j \in DOMAIN open', ~(j \in DOMAIN open /\ open'[j] = open[j])
        PROVE  open'[j] = sink
    BY <1>0, <2>1, <2>3 DEF TypeInv
  <2>4. \A j \in DOMAIN open' :
          \/ open'[j].target[1] = job.path[open'[j].key]
          \/ \E m \in DOMAIN open : /\ open'[j].target = open[m].target
                                    /\ open'[j].key = open[m].key
    BY <2>2, <2>3
  <2> QED BY <2>1, <2>4, HomeKept
<1>3. CASE Write
  <2> DEFINE i == SinkOf
             e == [open[i] EXCEPT !.rows = Append(@, Run)]
             r == RemoveAt(open, i)
  <2>1. /\ pc = "write" /\ pc' = "next" /\ open' = Append(r, e)
        /\ UNCHANGED <<job, completed>>
    BY <1>3 DEF Write, Goto
  <2>2. open \in Seq(KeyedSinks) /\ Len(open) \in Nat /\ DOMAIN open = 1..Len(open)
    BY <1>0 DEF TypeInv
  <2>3. i \in DOMAIN open
    <3>1. Len(open) \in DOMAIN open
      BY <1>0, <2>1, <2>2, EmptySeq DEF PlaceInv
    <3> QED BY <3>1 DEF SinkOf, IsOpen
  <2>4. open[i] \in KeyedSinks
    BY <2>2, <2>3
  <2>5. e.target = open[i].target /\ e.key = open[i].key
    BY <2>4 DEF KeyedSinks
  <2>6. r \in Seq(KeyedSinks) /\ \A j \in DOMAIN r : \E m \in DOMAIN open : r[j] = open[m]
    <3>1. open \in Seq(KeyedSinks) /\ i \in DOMAIN open
      BY <2>2, <2>3
    <3> HIDE DEF i
    <3> QED BY <3>1, Removing, TakenOut
  <2> HIDE DEF i, e, r
  <2>7. \A j \in DOMAIN open' : (j \in DOMAIN r /\ open'[j] = r[j]) \/ open'[j] = e
    BY <2>1, <2>6
  <2>8. \A j \in DOMAIN open' : \E m \in DOMAIN open : /\ open'[j].target = open[m].target
                                                       /\ open'[j].key = open[m].key
    BY <2>3, <2>5, <2>6, <2>7
  <2> QED BY <2>1, <2>8, HomeKept
<1>4. CASE FinishVictim
  <2>1. pc = "turnover" /\ Finish(1, "open") /\ 1 \in DOMAIN open
    BY <1>0, <1>4, EmptySeq, LenProperties DEF FinishVictim, PlaceInv, TypeInv
  <2> QED BY <1>0, <2>1, HomeFinish
<1>5. CASE FinishNext
  BY <1>0, <1>5, HomeFinish DEF FinishNext
<1>6. CASE AbortNext
  <2>1. PICK i \in DOMAIN open : open' = RemoveAt(open, i)
    BY <1>6 DEF AbortNext
  <2>2. pc = "aborting" /\ pc' = pc /\ UNCHANGED <<job, completed>>
    BY <1>6 DEF AbortNext
  <2>3. \A j \in DOMAIN open' : \E m \in DOMAIN open : open'[j] = open[m]
    BY <1>0, <2>1, TakenOut DEF TypeInv
  <2> QED BY <2>2, <2>3, HomeKept
<1> QED BY <1>1, <1>2, <1>3, <1>4, <1>5, <1>6 DEF Next

(* The outputs of a partition are at its target throughout. *)
LEMMA HomeHolds == Spec => []HomeInv
<1>1. Init => HomeInv
  <2> SUFFICES ASSUME Init PROVE HomeInv
    OBVIOUS
  <2>1. open = <<>> /\ completed = <<>>
    BY DEF Init
  <2>2. DOMAIN open = {} /\ DOMAIN completed = {}
    BY <2>1
  <2> QED BY <2>1, <2>2 DEF HomeInv
<1> QED BY <1>1, HomeStep, InvHolds, PTL DEF Spec

-----------------------------------------------------------------------------
(* The rows of a partition. *)

(* Of the rows in s those that have the values of row. *)
Having(row, s) == {i \in DOMAIN s : input[s[i][1]][s[i][2]] = row}
Picked(row, s) == Filtered(s, Having(row, s))

(* A filter that nothing passes. *)
LEMMA FilterNone ==
  ASSUME NEW S, NEW s \in Seq(S), NEW T, \A i \in 1..Len(s) : i \notin T
  PROVE  Filtered(s, T) = <<>>
<1>1. PICK e : IsPick(e, s, T, Filtered(s, T))
  BY FilterPicks
<1>2. /\ e \in Seq(DOMAIN s) /\ Filtered(s, T) = [k \in 1..Len(e) |-> s[e[k]]]
      /\ \A i \in DOMAIN s : i \in T <=> \E k \in DOMAIN e : e[k] = i
  BY <1>1 DEF IsPick
<1>3. Len(e) = 0
  <2> SUFFICES ASSUME Len(e) # 0 PROVE FALSE
    OBVIOUS
  <2>1. 1 \in DOMAIN e /\ e[1] \in DOMAIN s
    BY <1>2
  <2>2. e[1] \in T
    BY <1>2, <2>1
  <2> QED BY <2>1, <2>2
<1> QED BY <1>2, <1>3

(* The filter of the property. *)
LEMMA RowsWithIs == \A row : RowsWith(row) = Picked(row, AllRows)
<1> SUFFICES ASSUME NEW row PROVE RowsWith(row) = Picked(row, AllRows)
  OBVIOUS
<1> DEFINE s == AllRows
           x == [i \in DOMAIN s |->
                  IF input[s[i][1]][s[i][2]] = row THEN <<s[i]>> ELSE <<>>]
           y == [i \in DOMAIN s |-> IF i \in Having(row, s) THEN <<s[i]>> ELSE <<>>]
<1>1. RowsWith(row) = FlattenSeq(x) /\ Picked(row, s) = FlattenSeq(y)
  BY DEF RowsWith, Filter, Picked, Filtered, Passed
<1>2. \A i \in DOMAIN s : i \in Having(row, s) <=> input[s[i][1]][s[i][2]] = row
  BY DEF Having
<1> HIDE DEF s
<1>3. x = y
  BY <1>2
<1> HIDE DEF x, y
<1> QED BY <1>1, <1>3 DEF s

(* The rows of two sequences, one after the other. *)
LEMMA PickedJoin ==
  ASSUME NEW row, NEW D, NEW s \in Seq(D), NEW t \in Seq(D)
  PROVE  /\ Picked(row, s \o t) = Picked(row, s) \o Picked(row, t)
         /\ Picked(row, s) \in Seq(D)
<1>1. /\ s \o t \in Seq(D) /\ Len(s \o t) = Len(s) + Len(t)
      /\ \A i \in 1..(Len(s) + Len(t)) :
           (s \o t)[i] = IF i <= Len(s) THEN s[i] ELSE t[i - Len(s)]
  BY ConcatProperties
<1>2. /\ Len(s) \in Nat /\ Len(t) \in Nat /\ DOMAIN s = 1..Len(s) /\ DOMAIN t = 1..Len(t)
      /\ DOMAIN (s \o t) = 1..(Len(s) + Len(t))
  BY <1>1
<1> DEFINE u == s \o t
           Has(e) == input[e[1]][e[2]] = row
<1>3. /\ \A i \in 1..Len(s) : i \in Having(row, s) <=> Has(s[i])
      /\ \A i \in 1..Len(t) : i \in Having(row, t) <=> Has(t[i])
      /\ \A i \in 1..(Len(s) + Len(t)) : i \in Having(row, u) <=> Has(u[i])
  BY <1>2 DEF Having
<1>4. /\ \A i \in 1..Len(s) : i \in 1..(Len(s) + Len(t)) /\ u[i] = s[i]
      /\ \A i \in 1..Len(t) : Len(s) + i \in 1..(Len(s) + Len(t)) /\ u[Len(s) + i] = t[i]
  <2>1. \A i \in 1..Len(s) : i \in 1..(Len(s) + Len(t)) /\ i <= Len(s)
    BY <1>2
  <2>2. \A i \in 1..Len(t) : /\ Len(s) + i \in 1..(Len(s) + Len(t))
                             /\ ~(Len(s) + i <= Len(s)) /\ (Len(s) + i) - Len(s) = i
    BY <1>2
  <2> QED BY <1>1, <2>1, <2>2
<1> HIDE DEF u, Has
<1>5. \A i \in 1..Len(s) : i \in Having(row, u) <=> i \in Having(row, s)
  BY <1>3, <1>4
<1>6. \A i \in 1..Len(t) : Len(s) + i \in Having(row, u) <=> i \in Having(row, t)
  BY <1>3, <1>4
<1>7. Filtered(s \o t, Having(row, u)) = Filtered(s, Having(row, s)) \o Filtered(t, Having(row, t))
  <2> DEFINE T == Having(row, u)
             Q == Having(row, s)
             P == Having(row, t)
  <2>1. /\ \A i \in 1..Len(s) : i \in T <=> i \in Q
        /\ \A i \in 1..Len(t) : Len(s) + i \in T <=> i \in P
    BY <1>5, <1>6
  <2> HIDE DEF T, Q, P
  <2>2. Filtered(s \o t, T) = Filtered(s, Q) \o Filtered(t, P)
    BY <2>1, FilterJoin
  <2> QED BY <2>2 DEF T, Q, P
<1>8. Filtered(s, Having(row, s)) \in Seq(D)
  <2>1. Passed(s, Having(row, s)) \in Seq(Seq(D))
    BY PassedType
  <2> QED BY <2>1, FlattenKeeps DEF Filtered
<1> QED BY <1>7, <1>8 DEF Picked, u

(* The rows of runs by their numbers, and one number more. *)
LEMMA RowsOfRunsMore ==
  ASSUME runs \in Seq(RunRecords), NEW q \in Seq(1..Len(runs)), NEW n \in 1..Len(runs)
  PROVE  RowsOfRuns(Append(q, n)) = RowsOfRuns(q) \o RowsOfRun(runs[n])
<1> DEFINE D == Nat \X Nat
           X(i) == RowsOfRun(runs[i])
           ss == [i \in DOMAIN q |-> X(q[i])]
           p == Append(q, n)
           tt == [i \in DOMAIN p |-> X(p[i])]
<1>1. \A i \in 1..Len(runs) : X(i) \in Seq(D)
  BY RunIsCut
<1>2. RowsOfRuns(q) = FlattenSeq(ss) /\ RowsOfRuns(p) = FlattenSeq(tt)
  BY DEF RowsOfRuns
<1> HIDE DEF D, X
<1>3. /\ Len(q) \in Nat /\ DOMAIN q = 1..Len(q) /\ DOMAIN p = 1..(Len(q) + 1)
      /\ p[Len(q) + 1] = n /\ \A i \in 1..Len(q) : p[i] = q[i] /\ q[i] \in 1..Len(runs)
  OBVIOUS
<1> HIDE DEF p
<1>4. \A i \in 1..Len(q) : X(q[i]) \in Seq(D)
  BY <1>1, <1>3
<1>5. \A i \in 1..(Len(q) + 1) : X(p[i]) \in Seq(D)
  <2>1. \A i \in 1..(Len(q) + 1) : i \in 1..Len(q) \/ i = Len(q) + 1
    BY <1>3
  <2> QED BY <1>1, <1>3, <2>1
<1>6. ss \in Seq(Seq(D)) /\ Len(ss) = Len(q)
  BY <1>3, <1>4
<1>7. tt \in Seq(Seq(D)) /\ Len(tt) = Len(q) + 1
  BY <1>3, <1>5
<1>8. tt[Len(q) + 1] = X(n) /\ \A i \in 1..Len(q) : tt[i] = ss[i]
  BY <1>3
<1> HIDE DEF ss, tt
<1>9. FlattenSeq(tt) = FlattenSeq(ss) \o tt[Len(q) + 1]
  BY <1>3, <1>6, <1>7, <1>8, FlattenLast
<1> QED BY <1>2, <1>8, <1>9 DEF X, p

(* The rows of the first m runs. *)
FirstRows(m) == FlattenSeq([n \in 1..m |-> RowsOfRun(runs[n])])

(* One run more. *)
LEMMA FirstRowsNext ==
  ASSUME runs \in Seq(RunRecords), NEW m \in Nat, m < Len(runs)
  PROVE  /\ FirstRows(m) \in Seq(Nat \X Nat) /\ runs[m + 1] \in RunRecords
         /\ RowsOfRun(runs[m + 1]) \in Seq(Nat \X Nat)
         /\ FirstRows(m + 1) = FirstRows(m) \o RowsOfRun(runs[m + 1])
<1> DEFINE D == Nat \X Nat
           X(n) == RowsOfRun(runs[n])
           ss == [n \in 1..m |-> X(n)]
           tt == [n \in 1..(m + 1) |-> X(n)]
<1>1. \A n \in 1..(m + 1) : runs[n] \in RunRecords
  OBVIOUS
<1>2. \A n \in 1..(m + 1) : X(n) \in Seq(D)
  BY <1>1, RunIsCut
<1>3. FirstRows(m) = FlattenSeq(ss) /\ FirstRows(m + 1) = FlattenSeq(tt)
  BY DEF FirstRows
<1>4. m + 1 \in 1..(m + 1)
  OBVIOUS
<1> HIDE DEF D, X
<1>5. ss \in Seq(Seq(D)) /\ Len(ss) = m /\ tt \in Seq(Seq(D)) /\ Len(tt) = m + 1
  BY <1>2
<1>6. tt[m + 1] = X(m + 1) /\ \A n \in 1..m : tt[n] = ss[n]
  BY <1>4
<1> HIDE DEF ss, tt
<1>7. FlattenSeq(tt) = FlattenSeq(ss) \o tt[m + 1]
  BY <1>5, <1>6, FlattenLast
<1>8. FlattenSeq(ss) \in Seq(D)
  BY <1>5, FlattenKeeps
<1>9. X(m + 1) \in Seq(D)
  BY <1>2, <1>4
<1> QED BY <1>1, <1>3, <1>4, <1>6, <1>7, <1>8, <1>9 DEF X, D

(* The rows of a run are all of one partition. *)
LEMMA RunAlike ==
  ASSUME RunsInv, Strategy # "exact", NEW n \in 1..Len(runs), NEW row \in Range(Rows)
  PROVE  Picked(row, RowsOfRun(runs[n])) = IF seen[n] = KeyOf(row) THEN RowsOfRun(runs[n])
                                                                   ELSE <<>>
<1> DEFINE run == runs[n]
           s == RowsOfRun(run)
           v == input[run.batch][run.first]
<1>1. /\ run \in RunRecords /\ IsRun(input, run) /\ seen[n] = KeyOf(v)
  BY DEF RunsInv
<1>2. run.batch \in 1..Len(input) /\ run.first \in Nat /\ run.last \in Nat
      /\ run.first <= run.last /\ run.first \in 1..run.last
      /\ run.last \in 1..Len(input[run.batch])
      /\ \A i \in run.first..run.last : input[run.batch][i] = v
  BY <1>1 DEF RunRecords, IsRun
<1>3. v \in Range(Rows)
  <2>1. input[run.batch] \in Seq(Range(Rows))
    BY <1>2, InputIs
  <2> DEFINE b == input[run.batch]
             f == run.first
             l == run.last
  <2>2. b \in Seq(Range(Rows)) /\ f \in 1..l /\ l \in 1..Len(b)
    BY <1>2, <2>1
  <2> HIDE DEF b, f, l
  <2>3. f \in 1..Len(b) /\ b[f] \in Range(Rows)
    BY <2>2
  <2> QED BY <2>3 DEF b, f
<1>4. seen[n] = KeyOf(row) <=> v = row
  BY <1>1, <1>3, KeyIs
<1>5. s \in Seq(Nat \X Nat)
  BY <1>1, RunIsCut
<1>6. /\ Len(s) \in Nat /\ DOMAIN s = 1..Len(s)
      /\ \A i \in 1..Len(s) : input[s[i][1]][s[i][2]] = v
  <2> DEFINE w == run.last - run.first + 1
  <2>1. w \in Nat /\ \A i \in 1..w : run.first + i - 1 \in run.first..run.last
    BY <1>2
  <2>2. s = [i \in 1..w |-> <<run.batch, run.first + i - 1>>]
    BY DEF RowsOfRun
  <2> HIDE DEF w, s
  <2>3. DOMAIN s = 1..w /\ Len(s) = w
    BY <2>1, <2>2
  <2>4. \A i \in 1..w : s[i][1] = run.batch /\ s[i][2] = run.first + i - 1
    BY <2>2
  <2> HIDE DEF run, v
  <2> QED BY <1>2, <2>1, <2>3, <2>4
<1> HIDE DEF s, v, run
<1>7. CASE v = row
  <2>1. 1..Len(s) \subseteq Having(row, s)
    BY <1>6, <1>7 DEF Having
  <2>2. Picked(row, s) = s
    BY <1>5, <2>1, FilterAll DEF Picked
  <2> QED BY <1>4, <1>7, <2>2 DEF s, run
<1>8. CASE v # row
  <2>1. \A i \in 1..Len(s) : i \notin Having(row, s)
    BY <1>6, <1>8 DEF Having
  <2>2. Picked(row, s) = <<>>
    BY <1>5, <2>1, FilterNone DEF Picked
  <2> QED BY <1>4, <1>8, <2>2 DEF s, run
<1> QED BY <1>7, <1>8

(* The runs of a partition have the rows with its values. *)
RunsPick(row, m) ==
  /\ RunsOf(KeyOf(row), m) \in Seq(1..Len(runs))
  /\ RowsOfRuns(RunsOf(KeyOf(row), m)) = Picked(row, FirstRows(m))

(* A run more has rows of one partition. *)
LEMMA RunsPickNext ==
  ASSUME TypeInv, RunsInv, Strategy # "exact", NEW row \in Range(Rows),
         NEW m \in Nat, m < Len(runs), RunsPick(row, m)
  PROVE  RunsPick(row, m + 1)
<1> DEFINE D == Nat \X Nat
           k == KeyOf(row)
           q == RunsOf(k, m)
           r == RowsOfRun(runs[m + 1])
           f == FirstRows(m)
<1>1. /\ runs \in Seq(RunRecords) /\ Len(runs) = Len(seen) /\ Len(runs) \in Nat
      /\ m + 1 \in 1..Len(runs)
  BY DEF RunsInv
<1>2. f \in Seq(D) /\ r \in Seq(D) /\ FirstRows(m + 1) = f \o r
  BY <1>1, FirstRowsNext
<1>3. Picked(row, f \o r) = Picked(row, f) \o Picked(row, r) /\ Picked(row, f) \in Seq(D)
  <2> HIDE DEF D, f, r
  <2> QED BY <1>2, PickedJoin
<1>4. Picked(row, r) = IF seen[m + 1] = k THEN r ELSE <<>>
  BY <1>1, RunAlike
<1>5. q \in Seq(1..Len(runs)) /\ RowsOfRuns(q) = Picked(row, f)
  BY DEF RunsPick
<1>6. RunsOf(k, m + 1) = q \o (IF seen[m + 1] = k THEN <<m + 1>> ELSE <<>>)
  <2>1. seen \in Seq(Keyed) /\ m < Len(seen)
    BY <1>1 DEF TypeInv
  <2> HIDE DEF k
  <2> QED BY <2>1, RunsOfNext
<1> HIDE DEF D, k, q, r, f
<1>7. CASE seen[m + 1] = k
  <2>1. RunsOf(k, m + 1) = Append(q, m + 1) /\ Append(q, m + 1) \in Seq(1..Len(runs))
    <3>1. q \o <<m + 1>> = Append(q, m + 1)
      BY <1>1, <1>5, AppendIsConcat
    <3> QED BY <1>1, <1>5, <1>6, <1>7, <3>1
  <2>2. RowsOfRuns(Append(q, m + 1)) = RowsOfRuns(q) \o r
    BY <1>1, <1>5, RowsOfRunsMore DEF r
  <2>3. Picked(row, FirstRows(m + 1)) = Picked(row, f) \o r
    BY <1>2, <1>3, <1>4, <1>7
  <2> QED BY <1>5, <2>1, <2>2, <2>3 DEF RunsPick, k
<1>8. CASE seen[m + 1] # k
  <2>1. RunsOf(k, m + 1) = q
    BY <1>5, <1>6, <1>8, ConcatEmptySeq
  <2>2. Picked(row, FirstRows(m + 1)) = Picked(row, f)
    <3>1. Picked(row, f) \o <<>> = Picked(row, f)
      BY <1>3, ConcatEmptySeq
    <3> QED BY <1>2, <1>3, <1>4, <1>8, <3>1
  <2> QED BY <1>5, <2>1, <2>2 DEF RunsPick, k
<1> QED BY <1>7, <1>8

(* So it is with all runs. *)
LEMMA RunsPickAll ==
  ASSUME TypeInv, RunsInv, Strategy # "exact", NEW row \in Range(Rows)
  PROVE  RunsPick(row, Len(runs))
<1> DEFINE N == Len(runs)
           P == {m \in Nat : m <= N => RunsPick(row, m)}
<1>1. N \in Nat
  BY DEF RunsInv
<1>2. RunsPick(row, 0)
  <2>1. FlattenSeq(<<>>) = <<>>
    BY DEF FlattenSeq
  <2>2. RunsOf(KeyOf(row), 0) = <<>> /\ FirstRows(0) = <<>>
    <3>1. [n \in 1..0 |-> IF seen[n] = KeyOf(row) THEN <<n>> ELSE <<>>] = <<>>
      OBVIOUS
    <3>2. [n \in 1..0 |-> RowsOfRun(runs[n])] = <<>>
      OBVIOUS
    <3> QED BY <2>1, <3>1, <3>2, Zenon DEF RunsOf, FirstRows
  <2>3. RowsOfRuns(<<>>) = <<>>
    <3>1. [i \in DOMAIN <<>> |-> RowsOfRun(runs[<<>>[i]])] = <<>>
      OBVIOUS
    <3> QED BY <2>1, <3>1, Zenon DEF RowsOfRuns
  <2>4. Picked(row, <<>>) = <<>>
    <3>1. <<>> \in Seq(Nat) /\ \A i \in 1..Len(<<>>) : FALSE
      OBVIOUS
    <3> QED BY <3>1, FilterNone DEF Picked
  <2>5. <<>> \in Seq(1..Len(runs))
    OBVIOUS
  <2> QED BY <2>2, <2>3, <2>4, <2>5 DEF RunsPick
<1>3. ASSUME NEW m \in Nat, m \in P PROVE m + 1 \in P
  <2>1. ASSUME m + 1 <= N PROVE RunsPick(row, m + 1)
    <3>1. m < N /\ m <= N
      BY <1>1, <2>1
    <3> QED BY <1>3, <3>1, RunsPickNext
  <2> QED BY <2>1
<1> HIDE DEF P
<1>4. 0 \in P
  BY <1>2 DEF P
<1>5. Nat \subseteq P
  BY <1>3, <1>4, Inductive
<1> QED BY <1>1, <1>5 DEF P

(* When the stream has ended the runs are all rows of the input. *)
LEMMA RunsAreAll ==
  ASSUME RunsInv, ranges = <<>>, loaded = Len(input)
  PROVE  RunRows(runs) = AllRows /\ FirstRows(Len(runs)) = RunRows(runs)
<1>1. RunRows(runs) = RowsUpTo(input, loaded)
  BY BatchesDone DEF RunsInv
<1>2. DOMAIN input = 1..Len(input)
  BY InputIs
<1>3. RowsUpTo(input, Len(input)) = AllRows
  BY <1>2 DEF RowsUpTo, AllRows, BatchRows
<1>4. DOMAIN runs = 1..Len(runs)
  BY DEF RunsInv
<1>5. FirstRows(Len(runs)) = RunRows(runs)
  BY <1>4 DEF FirstRows, RunRows
<1> QED BY <1>1, <1>3, <1>5

(* The runs of an exact output are all runs. *)
LEMMA ExactRuns ==
  ASSUME TypeInv, RunsInv, Strategy = "exact", NEW k \in Keyed
  PROVE  RowsOfRuns(RunsOf(k, Len(seen))) = RunRows(runs)
<1> DEFINE N == Len(seen)
           s == [n \in 1..N |-> n]
           T == {n \in 1..N : seen[n] = k}
<1>1. seen \in Seq(Keyed) /\ N \in Nat /\ Len(runs) = N /\ runs \in Seq(RunRecords)
  BY DEF TypeInv, RunsInv
<1>2. \A n \in 1..N : seen[n] = k
  <2>1. \A j \in Keyed : j = k
    BY JobFacts DEF TypeInv
  <2> QED BY <1>1, <2>1
<1> HIDE DEF N
<1>3. RunsOf(k, N) = Filtered(s, T)
  <2> DEFINE x == [n \in 1..N |-> IF seen[n] = k THEN <<n>> ELSE <<>>]
             y == [i \in DOMAIN s |-> IF i \in T THEN <<s[i]>> ELSE <<>>]
  <2>1. RunsOf(k, N) = FlattenSeq(x) /\ Filtered(s, T) = FlattenSeq(y)
    BY DEF RunsOf, Filtered, Passed
  <2>2. x = y
    OBVIOUS
  <2> HIDE DEF x, y
  <2> QED BY <2>1, <2>2
<1>4. Filtered(s, T) = s
  <2>1. s \in Seq(Nat) /\ Len(s) = N
    BY <1>1
  <2>2. 1..N \subseteq T
    BY <1>2
  <2> HIDE DEF s, T
  <2> QED BY <2>1, <2>2, FilterAll
<1>5. RowsOfRuns(s) = RunRows(runs)
  <2> DEFINE x == [i \in DOMAIN s |-> RowsOfRun(runs[s[i]])]
             y == [n \in DOMAIN runs |-> RowsOfRun(runs[n])]
  <2>1. DOMAIN runs = 1..N
    BY <1>1
  <2>2. x = y
    BY <2>1
  <2>3. RowsOfRuns(s) = FlattenSeq(x) /\ RunRows(runs) = FlattenSeq(y)
    BY DEF RowsOfRuns, RunRows
  <2> HIDE DEF x, y
  <2> QED BY <2>2, <2>3
<1> HIDE DEF s, T
<1> QED BY <1>3, <1>4, <1>5 DEF N

(* A partition is known by one of its rows. *)
LEMMA KeysAre ==
  ASSUME job \in Jobs, Strategy # "exact", NEW row \in Range(Rows)
  PROVE  /\ KeyOf(row) \in Keyed
         /\ TargetOf(Template, Rows[job.path[KeyOf(row)]]) = TargetOf(Template, row)
<1>1. job.path = [k \in Keys |-> PathOf(job.template, Rows[k])]
  BY RowsAssumption DEF Strategy
<1>2. KeyOf(row) \in Keys
  BY RowsAssumption
<1>3. Rows[KeyOf(row)] = row
  BY KeyIs
<1>4. job.path[KeyOf(row)] = PathOf(job.template, row)
  BY <1>1, <1>2, <1>3
<1>5. TargetOf(Template, Rows[PathOf(Template, row)]) = TargetOf(Template, row)
  BY KeyIs
<1> QED BY <1>1, <1>2, <1>4, <1>5 DEF Keyed, Template

(* However the rows are cut into batches, whatever separators their values have
   and in which order the partitions come, a command that succeeds has put each
   row into the outputs of its partition, once and in order
   (PartitionRunStream::poll_next, partition_key and the partitioned writers),
   where the template renders the values that the report names. *)
THEOREM RowsArrive == FileSpec => []RowsReachTheirFiles
<1>1. Inv /\ FiledInv /\ RunsInv /\ HomeInv => RowsReachTheirFiles
  <2> SUFFICES ASSUME Inv, FiledInv, RunsInv, HomeInv, pc = "ok"
               PROVE  /\ Strategy = "exact" => RowsOfRuns(OutputOf(Key)) = AllRows
                      /\ Strategy # "exact" => \A row \in Range(Rows) :
                           /\ RowsOfRuns(OutputOf(KeyOf(row))) = RowsWith(row)
                           /\ \A o \in Range(completed) : o.key = KeyOf(row) =>
                                /\ TargetOf(Template, Rows[o.target[1]]) = TargetOf(Template, row)
                                /\ PartitionFields(Rows[o.key]) = PartitionFields(row)
    BY DEF RowsReachTheirFiles
  <2>1. TypeInv /\ open = <<>>
    BY DEF Inv, HomeInv
  <2>2. \A k \in Keyed : OutputOf(k) = RunsOf(k, Len(seen))
    <3>1. Written = Len(seen) /\ Len(seen) \in Nat
      BY <2>1 DEF Written, InHand, TypeInv
    <3>2. \A k \in Keyed : Filed(k, Len(seen))
      BY <3>1 DEF FiledInv
    <3>3. \A k : ~IsOpen(k)
      BY <2>1 DEF IsOpen
    <3> QED BY <3>2, <3>3 DEF Filed
  <2>3. RunRows(runs) = AllRows /\ FirstRows(Len(runs)) = RunRows(runs)
    BY RunsAreAll DEF RunsInv
  <2>4. ASSUME Strategy = "exact" PROVE RowsOfRuns(OutputOf(Key)) = AllRows
    <3>1. Key \in Keyed
      BY <2>1, TargetFacts
    <3> QED BY <2>1, <2>2, <2>3, <2>4, <3>1, ExactRuns
  <2>5. ASSUME Strategy # "exact", NEW row \in Range(Rows)
        PROVE  RowsOfRuns(OutputOf(KeyOf(row))) = RowsWith(row)
    <3>1. OutputOf(KeyOf(row)) = RunsOf(KeyOf(row), Len(seen))
      BY <2>1, <2>2, <2>5, KeysAre DEF TypeInv
    <3>2. RunsPick(row, Len(runs)) /\ Len(runs) = Len(seen)
      BY <2>1, <2>5, RunsPickAll DEF RunsInv
    <3> QED BY <2>3, <3>1, <3>2, RowsWithIs DEF RunsPick
  <2>6. ASSUME Strategy # "exact", NEW row \in Range(Rows), NEW o \in Range(completed),
               o.key = KeyOf(row)
        PROVE  /\ TargetOf(Template, Rows[o.target[1]]) = TargetOf(Template, row)
               /\ PartitionFields(Rows[o.key]) = PartitionFields(row)
    <3>1. o.target[1] = job.path[KeyOf(row)]
      BY <2>6 DEF HomeInv, AtHome, Range
    <3>2. TargetOf(Template, Rows[job.path[KeyOf(row)]]) = TargetOf(Template, row)
      BY <2>1, <2>6, KeysAre DEF TypeInv
    <3>3. Rows[o.key] = row
      BY <2>6, KeyIs
    <3> QED BY <3>1, <3>2, <3>3
  <2> QED BY <2>4, <2>5, <2>6
<1>2. FileSpec => [](Inv /\ FiledInv /\ RunsInv)
  BY FileHolds
<1>3. FileSpec => []HomeInv
  BY FileImplements, HomeHolds, PTL
<1> QED BY <1>1, <1>2, <1>3, PTL

-----------------------------------------------------------------------------
(* The targets of partitions have the shape of their template. *)

(* The characters of a target: those of the values, and its own. *)
Units == [c : STRING \cup {"/", "%", "N", "__HIVE_DEFAULT_PARTITION__"}, n : Nat]

(* What happens to one character. *)
Escape(u) == IF u.n > 0 \/ u.c \in HiveEncoded THEN Encode(u) ELSE u
Protect(u) == IF u.n > 0 \/ u.c = "%" THEN Encode(u) ELSE u
Decode(u) == IF u.n > 0 THEN [u EXCEPT !.n = @ - 1] ELSE u

(* The characters that are used, and those of a text. *)
LEMMA UnitIs ==
  /\ Slash \in Units /\ Plain("N") \in Units /\ Default \in Seq(Units)
  /\ Len(Default) = 1 /\ Default[1] # Slash /\ Default[1].n = 0
  /\ Seq(Characters) \subseteq Seq(Units)
<1>1. /\ Slash \in Units /\ Plain("N") \in Units /\ Plain("__HIVE_DEFAULT_PARTITION__") \in Units
      /\ Plain("__HIVE_DEFAULT_PARTITION__") # Slash /\ Plain("__HIVE_DEFAULT_PARTITION__").n = 0
  BY DEF Slash, Plain, Units
<1> DEFINE d == Plain("__HIVE_DEFAULT_PARTITION__")
<1>2. Default = <<d>> /\ d \in Units /\ d # Slash /\ d.n = 0
  BY <1>1 DEF Default
<1> HIDE DEF d
<1>3. <<d>> \in Seq(Units) /\ Len(<<d>>) = 1 /\ <<d>>[1] = d
  BY <1>2
<1>4. Default \in Seq(Units) /\ Len(Default) = 1 /\ Default[1] = d
  BY <1>2, <1>3
<1>5. \A x \in Characters : x \in Units
  BY DEF Characters, Units
<1>6. ASSUME NEW t \in Seq(Characters) PROVE t \in Seq(Units)
  <2>1. Len(t) \in Nat /\ \A i \in 1..Len(t) : t[i] \in Units
    BY <1>5
  <2>2. t = [i \in 1..Len(t) |-> t[i]]
    OBVIOUS
  <2> QED BY <2>1, <2>2
<1> QED BY <1>1, <1>2, <1>4, <1>6

(* Each step takes characters to characters, and makes no separator but by
   decoding. *)
LEMMA EachUnit ==
  ASSUME NEW u \in Units
  PROVE  /\ Escape(u) \in Units /\ Escape(u) # Slash /\ Protect(u) \in Units /\ Decode(u) \in Units
         /\ Decode(Protect(u)) = u
         /\ \A v \in Units : Escape(u) = Escape(v) => u = v
         /\ Escape(u).n = 0 => Escape(u) = u
<1>1. u = [c |-> u.c, n |-> u.n] /\ u.n \in Nat /\ u.c \in STRING \cup {"/", "%", "N", "__HIVE_DEFAULT_PARTITION__"}
  BY DEF Units
<1>2. Encode(u) = [c |-> u.c, n |-> u.n + 1] /\ Encode(u) \in Units
  BY <1>1 DEF Encode, Units
<1>3. u.n > 0 => [u EXCEPT !.n = @ - 1] = [c |-> u.c, n |-> u.n - 1] /\ [u EXCEPT !.n = @ - 1] \in Units
  BY <1>1 DEF Units
<1>4. Escape(u) \in Units /\ Protect(u) \in Units /\ Decode(u) \in Units
  BY <1>2, <1>3 DEF Escape, Protect, Decode
<1>5. Escape(u) # Slash
  BY <1>1, <1>2, RowsAssumption DEF Escape, Slash, Plain
<1>6. Decode(Protect(u)) = u
  <2>1. CASE u.n > 0 \/ u.c = "%"
    <3>1. Protect(u) = [c |-> u.c, n |-> u.n + 1]
      BY <2>1, <1>2 DEF Protect
    <3>2. Decode([c |-> u.c, n |-> u.n + 1]) = [c |-> u.c, n |-> u.n]
      BY <1>1 DEF Decode
    <3> QED BY <1>1, <3>1, <3>2
  <2>2. CASE ~(u.n > 0 \/ u.c = "%")
    BY <2>2 DEF Protect, Decode
  <2> QED BY <2>1, <2>2
<1>7. ASSUME NEW v \in Units, Escape(u) = Escape(v) PROVE u = v
  <2>1. v = [c |-> v.c, n |-> v.n] /\ v.n \in Nat
    BY DEF Units
  <2>2. Encode(v) = [c |-> v.c, n |-> v.n + 1]
    BY <2>1 DEF Encode
  <2> QED BY <1>1, <1>2, <1>7, <2>1, <2>2 DEF Escape
<1>8. Escape(u).n = 0 => Escape(u) = u
  BY <1>1, <1>2 DEF Escape
<1> QED BY <1>4, <1>5, <1>6, <1>7, <1>8

(* A text, character by character. *)
LEMMA EachText ==
  ASSUME NEW x \in Seq(Units)
  PROVE  /\ Decoded(x) \in Seq(Units) /\ Len(Decoded(x)) = Len(x)
         /\ \A i \in 1..Len(x) : Decoded(x)[i] = Decode(x[i])
         /\ Decoded(Protected(x)) = x /\ Protected(x) \in Seq(Units)
         /\ x # <<>> => /\ HiveEscaped(x) \in Seq(Units) /\ Len(HiveEscaped(x)) = Len(x)
                        /\ \A i \in 1..Len(x) : HiveEscaped(x)[i] = Escape(x[i])
<1>1. Len(x) \in Nat /\ DOMAIN x = 1..Len(x) /\ \A i \in 1..Len(x) : x[i] \in Units
  OBVIOUS
<1>2. /\ Decoded(x) = [i \in 1..Len(x) |-> Decode(x[i])]
      /\ Protected(x) = [i \in 1..Len(x) |-> Protect(x[i])]
      /\ x # <<>> => HiveEscaped(x) = [i \in 1..Len(x) |-> Escape(x[i])]
  BY <1>1 DEF Decoded, Protected, HiveEscaped, OnEach, Decode, Protect, Escape
<1>3. \A i \in 1..Len(x) : Decode(x[i]) \in Units /\ Protect(x[i]) \in Units /\ Escape(x[i]) \in Units
  BY <1>1, EachUnit
<1>4. Decoded(x) \in Seq(Units) /\ Len(Decoded(x)) = Len(x)
  BY <1>1, <1>2, <1>3
<1>5. Protected(x) \in Seq(Units) /\ Len(Protected(x)) = Len(x)
  BY <1>1, <1>2, <1>3
<1>6. x # <<>> => HiveEscaped(x) \in Seq(Units) /\ Len(HiveEscaped(x)) = Len(x)
  BY <1>1, <1>2, <1>3
<1>7. Decoded(Protected(x)) = x
  <2> DEFINE p == Protected(x)
  <2>1. p \in Seq(Units) /\ Len(p) = Len(x) /\ DOMAIN p = 1..Len(x)
    BY <1>5
  <2>2. Decoded(p) = [i \in 1..Len(x) |-> Decode(p[i])]
    BY <2>1 DEF Decoded, OnEach, Decode
  <2>3. \A i \in 1..Len(x) : p[i] = Protect(x[i])
    BY <1>2
  <2> HIDE DEF p
  <2>4. \A i \in 1..Len(x) : Decode(p[i]) = x[i]
    BY <1>1, <2>3, EachUnit
  <2>5. x = [i \in 1..Len(x) |-> x[i]]
    BY <1>1
  <2>6. Decoded(p) = x
    BY <2>2, <2>4, <2>5
  <2> QED BY <2>6 DEF p
<1> QED BY <1>2, <1>4, <1>5, <1>6, <1>7

(* What is decoded together was decoded apart. *)
LEMMA DecodedJoin ==
  ASSUME NEW x \in Seq(Units), NEW y \in Seq(Units)
  PROVE  Decoded(x \o y) = Decoded(x) \o Decoded(y)
<1> DEFINE p == Decoded(x)
           q == Decoded(y)
           w == x \o y
           z == Decoded(w)
<1>1. /\ w \in Seq(Units) /\ Len(w) = Len(x) + Len(y)
      /\ \A i \in 1..(Len(x) + Len(y)) : w[i] = IF i <= Len(x) THEN x[i] ELSE y[i - Len(x)]
  BY ConcatProperties
<1>2. /\ p \in Seq(Units) /\ Len(p) = Len(x) /\ \A i \in 1..Len(x) : p[i] = Decode(x[i])
      /\ q \in Seq(Units) /\ Len(q) = Len(y) /\ \A i \in 1..Len(y) : q[i] = Decode(y[i])
  BY EachText
<1> HIDE DEF p, q, w
<1>3. z \in Seq(Units) /\ Len(z) = Len(w) /\ \A i \in 1..Len(w) : z[i] = Decode(w[i])
  <2>1. \A s \in Seq(Units) : /\ Decoded(s) \in Seq(Units) /\ Len(Decoded(s)) = Len(s)
                              /\ \A i \in 1..Len(s) : Decoded(s)[i] = Decode(s[i])
    BY EachText
  <2>2. w \in Seq(Units)
    BY <1>1
  <2> QED BY <2>1, <2>2
<1> HIDE DEF z
<1>4. /\ p \o q \in Seq(Units) /\ Len(p \o q) = Len(p) + Len(q)
      /\ \A i \in 1..(Len(p) + Len(q)) :
           (p \o q)[i] = IF i <= Len(p) THEN p[i] ELSE q[i - Len(p)]
  <2>1. p \in Seq(Units) /\ q \in Seq(Units)
    BY <1>2
  <2> QED BY <2>1, ConcatProperties
<1>5. Len(x) \in Nat /\ Len(y) \in Nat
  OBVIOUS
<1> DEFINE r == p \o q
<1>6. /\ r \in Seq(Units) /\ Len(r) = Len(x) + Len(y)
      /\ \A i \in 1..(Len(x) + Len(y)) : r[i] = IF i <= Len(x) THEN p[i] ELSE q[i - Len(x)]
  BY <1>2, <1>4
<1> HIDE DEF r
<1>7. ASSUME NEW i \in 1..(Len(x) + Len(y)) PROVE z[i] = r[i]
  <2>1. CASE i <= Len(x)
    BY <1>1, <1>2, <1>3, <1>5, <1>6, <2>1
  <2>2. CASE ~(i <= Len(x))
    <3>1. i - Len(x) \in 1..Len(y)
      BY <1>5, <2>2
    <3> QED BY <1>1, <1>2, <1>3, <1>5, <1>6, <2>2, <3>1
  <2> QED BY <2>1, <2>2
<1>8. z = r
  BY <1>1, <1>3, <1>5, <1>6, <1>7, SeqEqual
<1> QED BY <1>8 DEF z, r, p, q, w

DecodedAll(ss) == [i \in DOMAIN ss |-> Decoded(ss[i])]

(* A sequence of texts is decoded text by text. *)
LEMMA DecodedFlat ==
  ASSUME NEW ss \in Seq(Seq(Units))
  PROVE  /\ DecodedAll(ss) \in Seq(Seq(Units)) /\ Len(DecodedAll(ss)) = Len(ss)
         /\ Decoded(FlattenSeq(ss)) = FlattenSeq(DecodedAll(ss))
<1> DEFINE P == {n \in Nat : \A tt \in Seq(Seq(Units)) : Len(tt) = n =>
                   Decoded(FlattenSeq(tt)) = FlattenSeq(DecodedAll(tt))}
<1>1. ASSUME NEW tt \in Seq(Seq(Units))
      PROVE  /\ DecodedAll(tt) \in Seq(Seq(Units)) /\ Len(DecodedAll(tt)) = Len(tt)
             /\ \A i \in 1..Len(tt) : DecodedAll(tt)[i] = Decoded(tt[i])
  <2>1. Len(tt) \in Nat /\ DOMAIN tt = 1..Len(tt) /\ \A i \in 1..Len(tt) : Decoded(tt[i]) \in Seq(Units)
    BY EachText
  <2>2. DecodedAll(tt) = [i \in 1..Len(tt) |-> Decoded(tt[i])]
    BY <2>1 DEF DecodedAll
  <2> QED BY <2>1, <2>2
<1>2. 0 \in P
  <2> SUFFICES ASSUME NEW tt \in Seq(Seq(Units)), Len(tt) = 0
               PROVE  Decoded(FlattenSeq(tt)) = FlattenSeq(DecodedAll(tt))
    OBVIOUS
  <2>1. tt = <<>> /\ DecodedAll(tt) = <<>>
    <3>1. DecodedAll(tt) \in Seq(Seq(Units)) /\ Len(DecodedAll(tt)) = 0
      BY <1>1
    <3> HIDE DEF DecodedAll
    <3> QED BY <3>1, EmptySeq
  <2>2. FlattenSeq(<<>>) = <<>>
    <3> DEFINE e == <<>>
    <3>1. e = <<>> /\ FlattenSeq(e) = e
      BY DEF FlattenSeq
    <3> QED BY <3>1
  <2>3. Decoded(<<>>) = <<>>
    <3>1. <<>> \in Seq(Units) /\ Len(<<>>) = 0
      OBVIOUS
    <3>2. Decoded(<<>>) \in Seq(Units) /\ Len(Decoded(<<>>)) = 0
      BY <3>1, EachText
    <3> QED BY <3>2, EmptySeq
  <2> QED BY <2>1, <2>2, <2>3
<1>3. ASSUME NEW n \in Nat, n \in P PROVE n + 1 \in P
  <2> SUFFICES ASSUME NEW tt \in Seq(Seq(Units)), Len(tt) = n + 1
               PROVE  Decoded(FlattenSeq(tt)) = FlattenSeq(DecodedAll(tt))
    OBVIOUS
  <2> DEFINE uu == SubSeq(tt, 1, n)
             l == tt[n + 1]
  <2>1. uu \in Seq(Seq(Units)) /\ Len(uu) = n /\ l \in Seq(Units) /\ \A i \in 1..n : tt[i] = uu[i]
    BY FrontAndLast
  <2> HIDE DEF uu, l
  <2>2. FlattenSeq(tt) = FlattenSeq(uu) \o l
    BY <2>1, FlattenLast DEF l
  <2>3. Decoded(FlattenSeq(uu)) = FlattenSeq(DecodedAll(uu))
    BY <1>3, <2>1
  <2> DEFINE dt == DecodedAll(tt)
             du == DecodedAll(uu)
  <2>4. /\ dt \in Seq(Seq(Units)) /\ Len(dt) = n + 1 /\ \A i \in 1..(n + 1) : dt[i] = Decoded(tt[i])
        /\ du \in Seq(Seq(Units)) /\ Len(du) = n /\ \A i \in 1..n : du[i] = Decoded(uu[i])
    BY <1>1, <2>1
  <2> HIDE DEF dt, du
  <2>5. (\A i \in 1..n : dt[i] = du[i]) /\ dt[n + 1] = Decoded(l)
    BY <2>1, <2>4 DEF l
  <2>6. FlattenSeq(dt) = FlattenSeq(du) \o Decoded(l)
    <3>1. FlattenSeq(dt) = FlattenSeq(du) \o dt[n + 1]
      BY <2>4, <2>5, FlattenLast
    <3> QED BY <2>5, <3>1
  <2>7. FlattenSeq(uu) \in Seq(Units)
    BY <2>1, FlattenKeeps
  <2>8. Decoded(FlattenSeq(uu) \o l) = Decoded(FlattenSeq(uu)) \o Decoded(l)
    BY <2>1, <2>7, DecodedJoin
  <2>9. FlattenSeq(dt) = Decoded(FlattenSeq(uu)) \o Decoded(l)
    BY <2>3, <2>6 DEF du
  <2>10. Decoded(FlattenSeq(tt)) = Decoded(FlattenSeq(uu)) \o Decoded(l)
    BY <2>2, <2>8
  <2>11. Decoded(FlattenSeq(tt)) = FlattenSeq(dt)
    BY <2>9, <2>10
  <2> QED BY <2>11 DEF dt
<1>4. Len(ss) \in Nat /\ Len(ss) \in P
  <2>1. Nat \subseteq P
    <3> HIDE DEF P
    <3> QED BY <1>2, <1>3, Inductive
  <2> QED BY <2>1
<1> QED BY <1>1, <1>4

(* What a template has at each part when its path is complete. *)
Shown(t, values) ==
  [i \in DOMAIN t.parts |->
     LET part == t.parts[i]
     IN IF part.kind = "text" THEN IF t.url THEN Decoded(part.text) ELSE part.text
        ELSE IF part.raw THEN Raw(values[part.name]) ELSE HiveEscaped(values[part.name])]

(* The parts of a template, and the texts it is given. *)
Shaped(t) ==
  /\ Len(t.parts) \in Nat /\ DOMAIN t.parts = 1..Len(t.parts) /\ t.url \in BOOLEAN
  /\ \A i \in 1..Len(t.parts) :
       /\ t.parts[i].kind = "text" => t.parts[i].text \in Seq(Units)
       /\ t.parts[i].kind # "text" => i \in Interpolations(t)
  /\ Interpolations(t) \subseteq 1..Len(t.parts)
  /\ \A i \in Interpolations(t) : t.parts[i].kind # "text" /\ t.parts[i].raw \in BOOLEAN
Given(t, values) ==
  /\ Shaped(t)
  /\ \A i \in Interpolations(t) : values[t.parts[i].name] \in Seq(Units)

(* A template is such a one. *)
LEMMA PartsAre ==
  ASSUME NEW t \in TargetTemplates
  PROVE  /\ Shaped(t)
         /\ \A i \in 1..Len(t.parts) : t.parts[i].kind = "text" => t.parts[i] \in TextParts
<1> DEFINE P == TextParts \cup ColumnParts
           s == t.parts
<1>1. s \in Seq(P) /\ t.url \in BOOLEAN
  BY DEF TargetTemplates
<1> HIDE DEF P, s
<1>2. Len(s) \in Nat /\ DOMAIN s = 1..Len(s) /\ \A i \in 1..Len(s) : s[i] \in P
  BY <1>1
<1>3. \A p \in P : /\ p.kind = "text" => p.text \in Seq(Characters)
                   /\ p.kind # "text" => p.raw \in BOOLEAN
                   /\ p.kind = "text" => p \in TextParts
  BY DEF P, TextParts, ColumnParts
<1>4. Interpolations(t) = {i \in 1..Len(s) : s[i].kind # "text"}
  BY <1>2 DEF s, Interpolations
<1>5. Seq(Characters) \subseteq Seq(Units)
  BY UnitIs
<1>6. ASSUME NEW i \in 1..Len(s)
      PROVE  /\ s[i].kind = "text" => s[i].text \in Seq(Units)
             /\ s[i].kind # "text" => i \in Interpolations(t) /\ s[i].raw \in BOOLEAN
             /\ s[i].kind = "text" => s[i] \in TextParts
  BY <1>2, <1>3, <1>4, <1>5
<1>7. /\ \A i \in 1..Len(s) : /\ s[i].kind = "text" => s[i].text \in Seq(Units)
                              /\ s[i].kind # "text" => i \in Interpolations(t)
                              /\ s[i].kind = "text" => s[i] \in TextParts
      /\ Interpolations(t) \subseteq 1..Len(s)
      /\ \A i \in Interpolations(t) : s[i].kind # "text" /\ s[i].raw \in BOOLEAN
  BY <1>4, <1>6
<1> QED BY <1>1, <1>2, <1>7 DEF s, Shaped

(* A path is its parts one after another; what is interpolated passes the
   decoding of a URL as it is. *)
LEMMA PathIs ==
  ASSUME NEW t, NEW values, Given(t, values)
  PROVE  /\ Shown(t, values) \in Seq(Seq(Units)) /\ Len(Shown(t, values)) = Len(t.parts)
         /\ ObjectPath(t, values) = FlattenSeq(Shown(t, values))
         /\ ObjectPath(t, values) \in Seq(Units)
<1> DEFINE n == Len(t.parts)
           r == [i \in DOMAIN t.parts |-> RenderedPart(t, t.parts[i], values)]
           s == Shown(t, values)
           shown(i) == IF t.parts[i].raw THEN Raw(values[t.parts[i].name])
                                        ELSE HiveEscaped(values[t.parts[i].name])
<1>1. n \in Nat /\ DOMAIN t.parts = 1..n
  BY DEF Given, Shaped
<1>2. /\ r = [i \in 1..n |-> RenderedPart(t, t.parts[i], values)]
      /\ s = [i \in 1..n |-> IF t.parts[i].kind = "text"
                             THEN IF t.url THEN Decoded(t.parts[i].text) ELSE t.parts[i].text
                             ELSE shown(i)]
  BY <1>1 DEF Shown
<1>3. ASSUME NEW i \in 1..n, t.parts[i].kind # "text" PROVE shown(i) \in Seq(Units)
  <2>1. values[t.parts[i].name] \in Seq(Units)
    BY <1>3 DEF Given, Shaped
  <2> DEFINE x == values[t.parts[i].name]
  <2>2. x \in Seq(Units)
    BY <2>1
  <2> HIDE DEF x
  <2>3. HiveEscaped(x) \in Seq(Units)
    <3>1. x = <<>> => HiveEscaped(x) = Default
      BY DEF HiveEscaped
    <3> QED BY <2>2, <3>1, EachText, UnitIs
  <2>4. Raw(x) \in Seq(Units)
    BY <2>2, UnitIs DEF Raw
  <2> QED BY <2>3, <2>4 DEF x
<1>4. ASSUME NEW i \in 1..n
      PROVE  /\ r[i] \in Seq(Units) /\ s[i] \in Seq(Units)
             /\ s[i] = IF t.url THEN Decoded(r[i]) ELSE r[i]
  <2>1. CASE t.parts[i].kind = "text"
    <3>1. r[i] = t.parts[i].text /\ s[i] = IF t.url THEN Decoded(t.parts[i].text) ELSE t.parts[i].text
      BY <1>2, <2>1 DEF RenderedPart
    <3>2. t.parts[i].text \in Seq(Units)
      BY <2>1 DEF Given, Shaped
    <3> QED BY <3>1, <3>2, EachText
  <2>2. CASE t.parts[i].kind # "text"
    <3>1. s[i] = shown(i) /\ r[i] = IF t.url THEN Protected(shown(i)) ELSE shown(i)
      BY <1>2, <2>2 DEF RenderedPart, Interpolated
    <3>2. shown(i) \in Seq(Units)
      BY <1>3, <2>2
    <3> HIDE DEF shown
    <3> QED BY <3>1, <3>2, EachText
  <2> QED BY <2>1, <2>2
<1> HIDE DEF shown
<1>5. r \in Seq(Seq(Units)) /\ s \in Seq(Seq(Units)) /\ Len(r) = n /\ Len(s) = n
  <2>1. /\ r = [i \in 1..n |-> r[i]] /\ s = [i \in 1..n |-> s[i]]
        /\ \A i \in 1..n : r[i] \in Seq(Units) /\ s[i] \in Seq(Units)
    <3>1. r = [i \in 1..n |-> r[i]]
      BY <1>1
    <3>2. s = [i \in 1..n |-> s[i]]
      BY <1>1 DEF Shown
    <3> HIDE DEF r, s, n
    <3> QED BY <3>1, <3>2, <1>4
  <2> HIDE DEF r, s, n
  <2>2. n \in Nat
    BY <1>1
  <2>3. r \in [1..n -> Seq(Units)] /\ s \in [1..n -> Seq(Units)]
    BY <2>1
  <2> QED BY <2>2, <2>3
<1>6. FlattenSeq(r) \in Seq(Units) /\ FlattenSeq(s) \in Seq(Units)
  BY <1>5, FlattenKeeps
<1>7. ObjectPath(t, values) = IF t.url THEN Decoded(FlattenSeq(r)) ELSE FlattenSeq(r)
  BY DEF ObjectPath
<1> HIDE DEF r, s
<1>8. CASE t.url
  <2>1. /\ DecodedAll(r) \in Seq(Seq(Units)) /\ Len(DecodedAll(r)) = n
        /\ Decoded(FlattenSeq(r)) = FlattenSeq(DecodedAll(r))
    BY <1>5, DecodedFlat
  <2>2. \A i \in 1..n : DecodedAll(r)[i] = s[i]
    BY <1>4, <1>5, <1>8 DEF DecodedAll
  <2>3. DecodedAll(r) = s
    BY <1>5, <2>1, <2>2, SeqEqual
  <2> QED BY <1>5, <1>6, <1>7, <1>8, <2>1, <2>3 DEF s
<1>9. CASE ~t.url
  <2>1. \A i \in 1..n : r[i] = s[i]
    BY <1>4, <1>9
  <2>2. r = s
    BY <1>5, <2>1, SeqEqual
  <2> QED BY <1>5, <1>6, <1>7, <1>9, <2>2 DEF s
<1> QED BY <1>8, <1>9

(* A URL and the bare path of the same text. *)
LEMMA BareIs ==
  ASSUME NEW t \in TargetTemplates, NEW values, Given(t, values), t.url
  PROVE  ObjectPath(AsBare(t), values) = ObjectPath(t, values)
<1> DEFINE n == Len(t.parts)
           bare == [i \in DOMAIN t.parts |-> BarePart(t.parts[i])]
<1>1. n \in Nat /\ DOMAIN t.parts = 1..n /\ Interpolations(t) \subseteq 1..n
  BY DEF Given, Shaped
<1>2. AsBare(t).url = FALSE /\ AsBare(t).parts = bare
  <2> DEFINE P == Seq(TextParts \cup ColumnParts)
  <2>1. t \in [url : BOOLEAN, absolute : BOOLEAN, fragment : BOOLEAN,
               bracesOutsidePath : BOOLEAN, parts : P]
    BY DEF TargetTemplates
  <2>2. AsBare(t) = [t EXCEPT !.url = FALSE, !.parts = bare]
    BY DEF AsBare
  <2> HIDE DEF P, bare
  <2> QED BY <2>1, <2>2
<1>3. bare = [i \in 1..n |-> BarePart(t.parts[i])]
  BY <1>1
<1> DEFINE b == AsBare(t)
<1>4. ASSUME NEW i \in 1..n, t.parts[i].kind = "text"
      PROVE  b.parts[i].kind = "text" /\ b.parts[i].text = Decoded(t.parts[i].text)
  <2>1. b.parts[i] = [t.parts[i] EXCEPT !.text = Decoded(t.parts[i].text)]
    BY <1>2, <1>3, <1>4 DEF BarePart
  <2>2. t.parts[i] \in TextParts
    BY <1>4, PartsAre
  <2> DEFINE p == t.parts[i]
             d == Decoded(p.text)
  <2>3. b.parts[i] = [p EXCEPT !.text = d] /\ p \in TextParts
    BY <2>1, <2>2
  <2> HIDE DEF p, d
  <2>4. [p EXCEPT !.text = d].kind = "text" /\ [p EXCEPT !.text = d].text = d
    BY <2>3 DEF TextParts
  <2> QED BY <2>3, <2>4 DEF p, d
<1>5. \A i \in 1..n : t.parts[i].kind # "text" => b.parts[i] = t.parts[i]
  BY <1>2, <1>3 DEF BarePart
<1>6. DOMAIN b.parts = 1..n /\ Len(b.parts) = n /\ b.url = FALSE
  BY <1>1, <1>2, <1>3
<1> HIDE DEF b, n
<1>7. Interpolations(b) = Interpolations(t)
  BY <1>1, <1>4, <1>5, <1>6 DEF Interpolations
<1>8. \A i \in Interpolations(t) : i \in 1..n /\ t.parts[i].kind # "text" /\ b.parts[i] = t.parts[i]
  BY <1>1, <1>5 DEF Interpolations
<1>9. Given(b, values)
  <2>1. \A i \in 1..n : t.parts[i].kind = "text" => Decoded(t.parts[i].text) \in Seq(Units)
    BY EachText DEF Given, Shaped, n
  <2>2. \A i \in 1..n : /\ b.parts[i].kind = "text" => b.parts[i].text \in Seq(Units)
                        /\ b.parts[i].kind # "text" => i \in Interpolations(t)
    BY <1>4, <1>5, <2>1 DEF Given, Shaped, n
  <2>3. \A i \in Interpolations(t) : /\ b.parts[i].kind # "text" /\ b.parts[i].raw \in BOOLEAN
                                     /\ values[b.parts[i].name] \in Seq(Units)
    BY <1>8 DEF Given, Shaped
  <2> QED BY <1>1, <1>6, <1>7, <2>2, <2>3 DEF Given, Shaped
<1>10. Shown(b, values) = Shown(t, values)
  <2>1. DOMAIN Shown(b, values) = 1..n /\ DOMAIN Shown(t, values) = 1..n
    BY <1>1, <1>6 DEF Shown
  <2>2. ASSUME NEW i \in 1..n PROVE Shown(b, values)[i] = Shown(t, values)[i]
    BY <1>1, <1>4, <1>5, <1>6 DEF Shown
  <2> QED BY <1>1, <1>6, <2>2 DEF Shown
<1> QED BY <1>9, <1>10, PathIs DEF b

(* The separators of a path, and how many there are. *)
SlashAt(p) == {i \in 1..Len(p) : p[i] = Slash}
Slashes(p) == Len(Filtered(p, SlashAt(p)))

(* How many a filter keeps depends on the places only. *)
LEMMA FilterLen ==
  ASSUME NEW D, NEW E, NEW T
  PROVE  \A n \in Nat : \A s \in Seq(D), t \in Seq(E) : Len(s) = n /\ Len(t) = n =>
           /\ Len(Filtered(s, T)) = Len(Filtered(t, T))
           /\ Filtered(s, T) \in Seq(D) /\ Filtered(t, T) \in Seq(E)
<1> DEFINE P == {n \in Nat : \A s \in Seq(D), t \in Seq(E) : Len(s) = n /\ Len(t) = n =>
                   Len(Filtered(s, T)) = Len(Filtered(t, T))}
<1>1. \A S : \A s \in Seq(S) : Filtered(s, T) \in Seq(S)
  <2> SUFFICES ASSUME NEW S, NEW s \in Seq(S) PROVE Filtered(s, T) \in Seq(S)
    OBVIOUS
  <2>1. Passed(s, T) \in Seq(Seq(S))
    BY PassedType
  <2> QED BY <2>1, FlattenKeeps DEF Filtered
<1>2. 0 \in P
  <2> SUFFICES ASSUME NEW s \in Seq(D), NEW t \in Seq(E), Len(s) = 0, Len(t) = 0
               PROVE  Len(Filtered(s, T)) = Len(Filtered(t, T))
    OBVIOUS
  <2>1. s = t
    OBVIOUS
  <2> QED BY <2>1
<1>3. ASSUME NEW n \in Nat, n \in P PROVE n + 1 \in P
  <2> SUFFICES ASSUME NEW s \in Seq(D), NEW t \in Seq(E), Len(s) = n + 1, Len(t) = n + 1
               PROVE  Len(Filtered(s, T)) = Len(Filtered(t, T))
    OBVIOUS
  <2> DEFINE a == SubSeq(s, 1, n)
             b == SubSeq(t, 1, n)
             x == s[n + 1]
             y == t[n + 1]
  <2>1. a \in Seq(D) /\ Len(a) = n /\ x \in D /\ s = Append(a, x)
    BY FrontAndLast
  <2>2. b \in Seq(E) /\ Len(b) = n /\ y \in E /\ t = Append(b, y)
    BY FrontAndLast
  <2> HIDE DEF a, b, x, y
  <2>3. Len(Filtered(a, T)) = Len(Filtered(b, T))
    BY <1>3, <2>1, <2>2
  <2>4. Filtered(s, T) = IF n + 1 \in T THEN Append(Filtered(a, T), x) ELSE Filtered(a, T)
    <3>1. \A i \in 1..Len(a) : i \in T <=> i \in T
      OBVIOUS
    <3>2. Filtered(Append(a, x), T)
            = IF Len(a) + 1 \in T THEN Append(Filtered(a, T), x) ELSE Filtered(a, T)
      BY <2>1, <3>1, FilterAppend
    <3> QED BY <2>1, <3>2
  <2>5. Filtered(t, T) = IF n + 1 \in T THEN Append(Filtered(b, T), y) ELSE Filtered(b, T)
    <3>1. \A i \in 1..Len(b) : i \in T <=> i \in T
      OBVIOUS
    <3>2. Filtered(Append(b, y), T)
            = IF Len(b) + 1 \in T THEN Append(Filtered(b, T), y) ELSE Filtered(b, T)
      BY <2>2, <3>1, FilterAppend
    <3> QED BY <2>2, <3>2
  <2>6. Filtered(a, T) \in Seq(D) /\ Filtered(b, T) \in Seq(E)
    BY <1>1, <2>1, <2>2
  <2> DEFINE fa == Filtered(a, T)
             fb == Filtered(b, T)
  <2>7. fa \in Seq(D) /\ fb \in Seq(E) /\ Len(fa) = Len(fb)
    BY <2>3, <2>6
  <2> HIDE DEF fa, fb
  <2>8. Len(Append(fa, x)) = Len(fa) + 1 /\ Len(Append(fb, y)) = Len(fb) + 1
    BY <2>1, <2>2, <2>7
  <2> QED BY <2>4, <2>5, <2>7, <2>8 DEF fa, fb
<1>4. Nat \subseteq P
  <2> HIDE DEF P
  <2> QED BY <1>2, <1>3, Inductive
<1> QED BY <1>1, <1>4

(* The separators of a path of two parts. *)
LEMMA SlashesJoin ==
  ASSUME NEW x \in Seq(Units), NEW y \in Seq(Units)
  PROVE  Slashes(x \o y) = Slashes(x) + Slashes(y) /\ Slashes(x) \in Nat
<1> DEFINE w == x \o y
<1>1. /\ w \in Seq(Units) /\ Len(w) = Len(x) + Len(y)
      /\ \A i \in 1..(Len(x) + Len(y)) : w[i] = IF i <= Len(x) THEN x[i] ELSE y[i - Len(x)]
  BY ConcatProperties
<1> HIDE DEF w
<1>2. Len(x) \in Nat /\ Len(y) \in Nat
  OBVIOUS
<1>3. \A i \in 1..Len(x) : i \in SlashAt(w) <=> i \in SlashAt(x)
  <2> SUFFICES ASSUME NEW i \in 1..Len(x) PROVE i \in SlashAt(w) <=> i \in SlashAt(x)
    OBVIOUS
  <2>1. i \in 1..(Len(x) + Len(y)) /\ i <= Len(x)
    BY <1>2
  <2>2. i \in 1..Len(w) /\ w[i] = x[i]
    BY <1>1, <1>2, <2>1
  <2> QED BY <2>2 DEF SlashAt
<1>4. \A i \in 1..Len(y) : Len(x) + i \in SlashAt(w) <=> i \in SlashAt(y)
  <2> SUFFICES ASSUME NEW i \in 1..Len(y) PROVE Len(x) + i \in SlashAt(w) <=> i \in SlashAt(y)
    OBVIOUS
  <2> DEFINE j == Len(x) + i
  <2>1. j \in 1..(Len(x) + Len(y)) /\ ~(j <= Len(x)) /\ j - Len(x) = i
    BY <1>2
  <2> HIDE DEF j
  <2>2. j \in SlashAt(w) <=> i \in SlashAt(y)
    BY <1>1, <2>1 DEF SlashAt
  <2> QED BY <2>2 DEF j
<1>5. Filtered(w, SlashAt(w)) = Filtered(x, SlashAt(x)) \o Filtered(y, SlashAt(y))
  <2>1. Filtered(x \o y, SlashAt(w)) = Filtered(x, SlashAt(x)) \o Filtered(y, SlashAt(y))
    BY <1>3, <1>4, FilterJoin
  <2> QED BY <2>1 DEF w
<1>6. Filtered(x, SlashAt(x)) \in Seq(Units) /\ Filtered(y, SlashAt(y)) \in Seq(Units)
  <2>1. /\ Passed(x, SlashAt(x)) \in Seq(Seq(Units))
        /\ Passed(y, SlashAt(y)) \in Seq(Seq(Units))
    BY PassedType
  <2> QED BY <2>1, FlattenKeeps DEF Filtered
<1> DEFINE fx == Filtered(x, SlashAt(x))
           fy == Filtered(y, SlashAt(y))
<1>7. Filtered(w, SlashAt(w)) = fx \o fy /\ fx \in Seq(Units) /\ fy \in Seq(Units)
  BY <1>5, <1>6
<1> HIDE DEF fx, fy
<1>8. Len(fx \o fy) = Len(fx) + Len(fy) /\ Len(fx) \in Nat
  BY <1>7
<1> QED BY <1>7, <1>8 DEF Slashes, fx, fy, w

(* A text without separators. *)
LEMMA SlashesNone ==
  ASSUME NEW x \in Seq(Units), SlashAt(x) = {}
  PROVE  Slashes(x) = 0
<1> DEFINE f == Filtered(x, {})
<1>1. PICK e : IsPick(e, x, {}, f)
  BY FilterPicks
<1>2. e \in Seq(DOMAIN x) /\ f = [k \in 1..Len(e) |-> x[e[k]]] /\ DOMAIN e = {}
  <2>1. \A k \in DOMAIN e : e[k] \in DOMAIN x
    BY <1>1 DEF IsPick
  <2> QED BY <1>1, <2>1 DEF IsPick
<1>3. Len(e) = 0
  BY <1>2
<1>4. Len(f) = 0
  BY <1>2, <1>3
<1> QED BY <1>4 DEF Slashes

(* Paths whose parts have as many separators have as many. *)
LEMMA SlashesFlat ==
  ASSUME NEW ss \in Seq(Seq(Units)), NEW tt \in Seq(Seq(Units)), Len(ss) = Len(tt),
         \A i \in 1..Len(ss) : Slashes(ss[i]) = Slashes(tt[i])
  PROVE  Slashes(FlattenSeq(ss)) = Slashes(FlattenSeq(tt))
<1> DEFINE Alike(s, t) == \A i \in 1..Len(s) : Slashes(s[i]) = Slashes(t[i])
           P == {n \in Nat : \A s, t \in Seq(Seq(Units)) :
                   Len(s) = n /\ Len(t) = n /\ Alike(s, t) =>
                     Slashes(FlattenSeq(s)) = Slashes(FlattenSeq(t))}
<1>1. 0 \in P
  <2> SUFFICES ASSUME NEW s \in Seq(Seq(Units)), NEW t \in Seq(Seq(Units)), Len(s) = 0, Len(t) = 0
               PROVE  Slashes(FlattenSeq(s)) = Slashes(FlattenSeq(t))
    OBVIOUS
  <2>1. s = t
    OBVIOUS
  <2> QED BY <2>1
<1>2. ASSUME NEW n \in Nat, n \in P PROVE n + 1 \in P
  <2> SUFFICES ASSUME NEW s \in Seq(Seq(Units)), NEW t \in Seq(Seq(Units)),
                      Len(s) = n + 1, Len(t) = n + 1, Alike(s, t)
               PROVE  Slashes(FlattenSeq(s)) = Slashes(FlattenSeq(t))
    OBVIOUS
  <2> DEFINE a == SubSeq(s, 1, n)
             b == SubSeq(t, 1, n)
             x == s[n + 1]
             y == t[n + 1]
  <2>1. a \in Seq(Seq(Units)) /\ Len(a) = n /\ x \in Seq(Units) /\ \A i \in 1..n : s[i] = a[i]
    BY FrontAndLast
  <2>2. b \in Seq(Seq(Units)) /\ Len(b) = n /\ y \in Seq(Units) /\ \A i \in 1..n : t[i] = b[i]
    BY FrontAndLast
  <2>3. Slashes(x) = Slashes(y)
    OBVIOUS
  <2> HIDE DEF a, b
  <2>4. Alike(a, b)
    BY <2>1, <2>2
  <2>5. Slashes(FlattenSeq(a)) = Slashes(FlattenSeq(b))
    BY <1>2, <2>1, <2>2, <2>4
  <2>6. FlattenSeq(s) = FlattenSeq(a) \o x
    BY <2>1, FlattenLast
  <2>7. FlattenSeq(t) = FlattenSeq(b) \o y
    BY <2>2, FlattenLast
  <2>8. FlattenSeq(a) \in Seq(Units) /\ FlattenSeq(b) \in Seq(Units)
    BY <2>1, <2>2, FlattenKeeps
  <2> HIDE DEF x, y
  <2> DEFINE fa == FlattenSeq(a)
             fb == FlattenSeq(b)
  <2>9. fa \in Seq(Units) /\ fb \in Seq(Units) /\ Slashes(fa) = Slashes(fb)
    BY <2>5, <2>8
  <2> HIDE DEF fa, fb
  <2>10. Slashes(fa \o x) = Slashes(fa) + Slashes(x)
    BY <2>1, <2>9, SlashesJoin
  <2>11. Slashes(fb \o y) = Slashes(fb) + Slashes(y)
    BY <2>2, <2>9, SlashesJoin
  <2>12. Slashes(fa \o x) = Slashes(fb \o y)
    BY <2>3, <2>9, <2>10, <2>11
  <2> QED BY <2>6, <2>7, <2>12 DEF fa, fb
<1>3. Nat \subseteq P
  <2> HIDE DEF P
  <2> QED BY <1>1, <1>2, Inductive
<1>4. Len(ss) \in P
  BY <1>3
<1> QED BY <1>4

(* Where the segments of a path end. *)
Numbers(n) == [i \in 1..n |-> i]
EndAt(p) == SlashAt(p) \cup {Len(p) + 1}
Ends(p) == Filtered(Numbers(Len(p) + 1), EndAt(p))
FirstAt(e, k) == IF k = 1 THEN 1 ELSE e[k - 1] + 1

(* They end at the separators, and at the end. *)
LEMMA EndsAre ==
  ASSUME NEW p \in Seq(Units)
  PROVE  /\ Len(Ends(p)) \in Nat \ {0} /\ Len(Ends(p)) = Slashes(p) + 1
         /\ DOMAIN Ends(p) = 1..Len(Ends(p))
         /\ \A k \in 1..Len(Ends(p)) : Ends(p)[k] \in 1..(Len(p) + 1) /\ Ends(p)[k] \in EndAt(p)
         /\ \A j, k \in 1..Len(Ends(p)) : j < k => Ends(p)[j] < Ends(p)[k]
         /\ \A i \in EndAt(p) : \E k \in 1..Len(Ends(p)) : Ends(p)[k] = i
         /\ Ends(p)[Len(Ends(p))] = Len(p) + 1
<1> DEFINE n == Len(p)
           s == Numbers(n + 1)
           T == EndAt(p)
           r == Ends(p)
<1>1. n \in Nat /\ n + 1 \in Nat
  OBVIOUS
<1>2. s \in Seq(Nat) /\ Len(s) = n + 1 /\ DOMAIN s = 1..(n + 1) /\ \A i \in 1..(n + 1) : s[i] = i
  BY <1>1 DEF Numbers
<1>3. T \subseteq 1..(n + 1) /\ n + 1 \in T /\ \A i \in 1..n : i \in T <=> i \in SlashAt(p)
  BY <1>1 DEF EndAt, SlashAt
<1>4. r = Filtered(s, T)
  BY DEF Ends
<1> HIDE DEF s, T, r, n
<1>5. PICK e : IsPick(e, s, T, r)
  BY <1>2, <1>4, FilterPicks
<1>6. e \in Seq(1..(n + 1)) /\ r = [k \in 1..Len(e) |-> s[e[k]]]
  BY <1>2, <1>5 DEF IsPick
<1>7. Len(e) \in Nat /\ \A k \in 1..Len(e) : e[k] \in 1..(n + 1)
  <2> DEFINE R == 1..(n + 1)
  <2>1. e \in Seq(R)
    BY <1>6
  <2> HIDE DEF R
  <2>2. Len(e) \in Nat /\ \A k \in 1..Len(e) : e[k] \in R
    BY <2>1
  <2> QED BY <2>2 DEF R
<1>8. Len(r) = Len(e) /\ DOMAIN r = 1..Len(e) /\ \A k \in 1..Len(e) : r[k] = e[k]
  <2>1. \A k \in 1..Len(e) : s[e[k]] = e[k]
    BY <1>2, <1>7
  <2> HIDE DEF IsPick
  <2> QED BY <1>6, <1>7, <2>1
<1>9. \A j, k \in 1..Len(r) : j < k => r[j] < r[k]
  <2>1. DOMAIN e = 1..Len(r) /\ \A k \in 1..Len(r) : r[k] = e[k]
    BY <1>6, <1>8
  <2>2. \A j, k \in DOMAIN e : j < k => e[j] < e[k]
    BY <1>5 DEF IsPick
  <2> QED BY <2>1, <2>2
<1>10. \A i \in 1..(n + 1) : i \in T <=> \E k \in 1..Len(r) : r[k] = i
  <2>1. \A i \in 1..(n + 1) : i \in T <=> \E k \in DOMAIN e : e[k] = i
    BY <1>2, <1>5 DEF IsPick
  <2>2. DOMAIN e = 1..Len(r) /\ \A k \in 1..Len(r) : r[k] = e[k]
    BY <1>6, <1>8
  <2> QED BY <2>1, <2>2
<1>11. PICK l \in 1..Len(r) : r[l] = n + 1
  BY <1>1, <1>3, <1>10
<1>12. Len(r) \in Nat \ {0} /\ r[Len(r)] = n + 1
  <2>1. Len(r) \in Nat \ {0} /\ r[Len(r)] \in 1..(n + 1)
    BY <1>7, <1>8, <1>11
  <2>2. l < Len(r) => r[l] < r[Len(r)]
    BY <1>9, <2>1
  <2> QED BY <1>1, <1>11, <2>1, <2>2
<1>13. Len(r) = Slashes(p) + 1
  <2> DEFINE a == Numbers(n)
  <2>1. a \in Seq(Nat) /\ Len(a) = n /\ s = Append(a, n + 1)
    <3>1. a \in Seq(Nat) /\ Len(a) = n /\ \A i \in 1..n : a[i] = i
      BY <1>1 DEF Numbers
    <3> HIDE DEF a
    <3>2. Append(a, n + 1) \in Seq(Nat) /\ Len(Append(a, n + 1)) = n + 1
          /\ \A i \in 1..(n + 1) : Append(a, n + 1)[i] = i
      BY <1>1, <3>1
    <3> QED BY <1>2, <3>1, <3>2, SeqEqual
  <2> HIDE DEF a
  <2>2. Filtered(Append(a, n + 1), T)
          = IF Len(a) + 1 \in T THEN Append(Filtered(a, SlashAt(p)), n + 1)
            ELSE Filtered(a, SlashAt(p))
    <3>1. \A i \in 1..Len(a) : i \in T <=> i \in SlashAt(p)
      BY <1>3, <2>1
    <3>2. n + 1 \in Nat
      BY <1>1
    <3> DEFINE m == n + 1
               Q == SlashAt(p)
    <3>3. m \in Nat /\ a \in Seq(Nat) /\ \A i \in 1..Len(a) : i \in T <=> i \in Q
      BY <2>1, <3>1, <3>2
    <3> HIDE DEF m, Q
    <3>4. Filtered(Append(a, m), T)
            = IF Len(a) + 1 \in T THEN Append(Filtered(a, Q), m) ELSE Filtered(a, Q)
      BY <3>3, FilterAppend
    <3> QED BY <3>4 DEF m, Q
  <2>3. r = Append(Filtered(a, SlashAt(p)), n + 1)
    BY <1>3, <1>4, <2>1, <2>2
  <2>4. /\ Len(Filtered(a, SlashAt(p))) = Len(Filtered(p, SlashAt(p)))
        /\ Filtered(a, SlashAt(p)) \in Seq(Nat)
    <3>1. Len(p) = n
      BY DEF n
    <3> DEFINE Q == SlashAt(p)
    <3> HIDE DEF Q
    <3>2. \A m \in Nat : \A x \in Seq(Nat), y \in Seq(Units) : Len(x) = m /\ Len(y) = m =>
            /\ Len(Filtered(x, Q)) = Len(Filtered(y, Q))
            /\ Filtered(x, Q) \in Seq(Nat) /\ Filtered(y, Q) \in Seq(Units)
      BY FilterLen, Zenon
    <3>3. Len(Filtered(a, Q)) = Len(Filtered(p, Q)) /\ Filtered(a, Q) \in Seq(Nat)
      BY <1>1, <2>1, <3>1, <3>2
    <3> QED BY <3>3 DEF Q
  <2> DEFINE f == Filtered(a, SlashAt(p))
  <2>5. r = Append(f, n + 1) /\ f \in Seq(Nat) /\ Len(f) = Slashes(p)
    BY <2>3, <2>4 DEF Slashes
  <2> HIDE DEF f
  <2> QED BY <1>1, <2>5
<1>14. \A k \in 1..Len(r) : r[k] \in 1..(n + 1) /\ r[k] \in T
  BY <1>7, <1>8, <1>10
<1> QED BY <1>3, <1>8, <1>9, <1>10, <1>12, <1>13, <1>14 DEF r, T, n

(* The segments are what is between. *)
LEMMA SegmentsAre ==
  ASSUME NEW p \in Seq(Units)
  PROVE  /\ Len(Segments(p)) = Slashes(p) + 1 /\ Len(Segments(p)) = Len(Ends(p))
         /\ \A k \in 1..Len(Ends(p)) :
              Segments(p)[k] = SubSeq(p, FirstAt(Ends(p), k), Ends(p)[k] - 1)
<1> DEFINE n == Len(p)
           s == [i \in 1..(n + 1) |-> i]
           e == Filter(s, LAMBDA i : i = n + 1 \/ p[i] = Slash)
<1>1. n \in Nat
  OBVIOUS
<1>2. [i \in DOMAIN s |-> IF s[i] = n + 1 \/ p[s[i]] = Slash THEN <<s[i]>> ELSE <<>>]
        = Passed(Numbers(n + 1), EndAt(p))
  <2>1. \A i \in 1..(n + 1) : (i = n + 1 \/ p[i] = Slash) <=> i \in EndAt(p)
    BY <1>1 DEF EndAt, SlashAt
  <2>2. /\ DOMAIN s = 1..(n + 1) /\ \A i \in 1..(n + 1) : s[i] = i
        /\ Numbers(n + 1) = s
    BY DEF Numbers
  <2> HIDE DEF s
  <2> QED BY <2>1, <2>2 DEF Passed
<1>3. e = Ends(p)
  <2>1. e = FlattenSeq([i \in DOMAIN s |->
                          IF s[i] = n + 1 \/ p[s[i]] = Slash THEN <<s[i]>> ELSE <<>>])
    BY DEF Filter
  <2> HIDE DEF e, s
  <2>2. Ends(p) = FlattenSeq(Passed(Numbers(n + 1), EndAt(p)))
    BY DEF Ends, Filtered
  <2> QED BY <1>2, <2>1, <2>2
<1>4. Segments(p) = [k \in DOMAIN e |-> SubSeq(p, IF k = 1 THEN 1 ELSE e[k - 1] + 1, e[k] - 1)]
  BY DEF Segments
<1> HIDE DEF e, s, n
<1>5. Segments(p) = [k \in 1..Len(Ends(p)) |-> SubSeq(p, FirstAt(Ends(p), k), Ends(p)[k] - 1)]
  <2>1. DOMAIN e = 1..Len(Ends(p))
    BY <1>3, EndsAre
  <2> QED BY <1>3, <1>4, <2>1 DEF FirstAt
<1>6. Len(Ends(p)) \in Nat /\ Len(Ends(p)) = Slashes(p) + 1
  BY EndsAre
<1>7. Len(Segments(p)) = Len(Ends(p))
  <2> DEFINE m == Len(Ends(p))
             f == [k \in 1..m |-> SubSeq(p, FirstAt(Ends(p), k), Ends(p)[k] - 1)]
  <2>1. m \in Nat /\ DOMAIN f = 1..m
    BY <1>6
  <2> HIDE DEF f, m
  <2>2. f = [k \in 1..m |-> f[k]]
    BY DEF f
  <2> QED BY <1>5, <2>1, <2>2 DEF f, m
<1>8. \A k \in 1..Len(Ends(p)) :
        Segments(p)[k] = SubSeq(p, FirstAt(Ends(p), k), Ends(p)[k] - 1)
  BY <1>5
<1> QED BY <1>6, <1>7, <1>8

(* A piece of a path. *)
LEMMA PieceOf ==
  ASSUME NEW p \in Seq(Units), NEW a \in Nat \ {0}, NEW b \in Nat, a <= b, b <= Len(p) + 1
  PROVE  /\ Len(SubSeq(p, a, b - 1)) = b - a
         /\ \A i \in a..(b - 1) : SubSeq(p, a, b - 1)[i - a + 1] = p[i]
<1>1. Len(p) \in Nat /\ b - 1 \in Int /\ b - 1 <= Len(p)
  OBVIOUS
<1>2. SubSeq(p, a, b - 1) = [i \in 1..(b - 1 - a + 1) |-> p[a + i - 1]]
  BY <1>1
<1> DEFINE f == [i \in 1..(b - a) |-> p[a + i - 1]]
<1>3. SubSeq(p, a, b - 1) = f
  <2>1. b - 1 - a + 1 = b - a
    OBVIOUS
  <2> QED BY <1>2, <2>1
<1>4. b - a \in Nat /\ Len(f) = b - a
  <2>1. b - a \in Nat
    OBVIOUS
  <2> QED BY <2>1
<1>5. ASSUME NEW i \in a..(b - 1) PROVE f[i - a + 1] = p[i]
  <2>1. i - a + 1 \in 1..(b - a) /\ a + (i - a + 1) - 1 = i
    OBVIOUS
  <2> QED BY <2>1
<1> QED BY <1>3, <1>4, <1>5

(* Each segment begins where the one before it has ended. *)
LEMMA SegmentAt ==
  ASSUME NEW p \in Seq(Units), NEW k \in 1..Len(Ends(p))
  PROVE  /\ FirstAt(Ends(p), k) \in Nat \ {0} /\ Ends(p)[k] \in Nat
         /\ FirstAt(Ends(p), k) <= Ends(p)[k]
         /\ Len(Segments(p)[k]) = Ends(p)[k] - FirstAt(Ends(p), k)
         /\ \A i \in FirstAt(Ends(p), k)..(Ends(p)[k] - 1) :
              p[i] = Segments(p)[k][i - FirstAt(Ends(p), k) + 1]
<1> DEFINE e == Ends(p)
           a == FirstAt(e, k)
           b == e[k]
<1>1. /\ Len(e) \in Nat \ {0} /\ Len(p) \in Nat
      /\ \A l \in 1..Len(e) : e[l] \in 1..(Len(p) + 1)
      /\ \A j, l \in 1..Len(e) : j < l => e[j] < e[l]
  BY EndsAre
<1>2. k \in 1..Len(e) /\ Segments(p)[k] = SubSeq(p, a, b - 1)
  BY SegmentsAre
<1> HIDE DEF e
<1>3. a \in Nat \ {0} /\ b \in Nat /\ a <= b /\ b <= Len(p) + 1
  <2>1. CASE k = 1
    BY <1>1, <1>2, <2>1 DEF FirstAt
  <2>2. CASE k # 1
    <3>1. k - 1 \in 1..Len(e) /\ k - 1 < k
      BY <1>1, <1>2, <2>2
    <3>2. e[k - 1] < e[k] /\ e[k - 1] \in 1..(Len(p) + 1) /\ e[k] \in 1..(Len(p) + 1)
      BY <1>1, <1>2, <3>1
    <3> QED BY <1>1, <2>2, <3>2 DEF FirstAt
  <2> QED BY <2>1, <2>2
<1> HIDE DEF a, b
<1>4. /\ Len(SubSeq(p, a, b - 1)) = b - a
      /\ \A i \in a..(b - 1) : SubSeq(p, a, b - 1)[i - a + 1] = p[i]
  BY <1>3, PieceOf
<1> QED BY <1>2, <1>3, <1>4 DEF a, b, e

(* The segments tell the path. *)
LEMMA SegmentsTell ==
  ASSUME NEW p \in Seq(Units), NEW q \in Seq(Units), Segments(p) = Segments(q)
  PROVE  p = q
<1> DEFINE e == Ends(p)
           d == Ends(q)
           m == Len(e)
<1>1. m \in Nat \ {0} /\ Len(d) = m
  BY EndsAre, SegmentsAre
<1>2. /\ \A k \in 1..m : e[k] \in 1..(Len(p) + 1) /\ e[k] \in EndAt(p)
      /\ \A k \in 1..m : d[k] \in 1..(Len(q) + 1) /\ d[k] \in EndAt(q)
      /\ e[m] = Len(p) + 1 /\ d[m] = Len(q) + 1
  BY <1>1, EndsAre
<1>3. ASSUME NEW k \in 1..m
      PROVE  /\ FirstAt(e, k) \in Nat \ {0} /\ e[k] \in Nat /\ FirstAt(e, k) <= e[k]
             /\ Len(Segments(p)[k]) = e[k] - FirstAt(e, k)
             /\ \A i \in FirstAt(e, k)..(e[k] - 1) : p[i] = Segments(p)[k][i - FirstAt(e, k) + 1]
  BY SegmentAt
<1>4. ASSUME NEW k \in 1..m
      PROVE  /\ FirstAt(d, k) \in Nat \ {0} /\ d[k] \in Nat /\ FirstAt(d, k) <= d[k]
             /\ Len(Segments(p)[k]) = d[k] - FirstAt(d, k)
             /\ \A i \in FirstAt(d, k)..(d[k] - 1) : q[i] = Segments(p)[k][i - FirstAt(d, k) + 1]
  <2>1. k \in 1..Len(Ends(q))
    BY <1>1
  <2>2. /\ FirstAt(d, k) \in Nat \ {0} /\ d[k] \in Nat /\ FirstAt(d, k) <= d[k]
        /\ Len(Segments(q)[k]) = d[k] - FirstAt(d, k)
        /\ \A i \in FirstAt(d, k)..(d[k] - 1) : q[i] = Segments(q)[k][i - FirstAt(d, k) + 1]
    BY <2>1, SegmentAt
  <2> HIDE DEF d
  <2> QED BY <2>2
<1> HIDE DEF e, d, m
<1> DEFINE P == {k \in Nat : k \in 1..m => e[k] = d[k]}
<1>5. 0 \in P
  OBVIOUS
<1>6. ASSUME NEW n \in Nat, n \in P PROVE n + 1 \in P
  <2> SUFFICES ASSUME n + 1 \in 1..m PROVE e[n + 1] = d[n + 1]
    OBVIOUS
  <2>1. FirstAt(e, n + 1) = FirstAt(d, n + 1)
    <3>1. CASE n = 0
      BY <3>1 DEF FirstAt
    <3>2. CASE n # 0
      <4>1. n \in 1..m /\ n + 1 - 1 = n /\ n + 1 # 1
        BY <1>1, <3>2
      <4>2. e[n] = d[n]
        BY <1>6, <4>1
      <4> QED BY <4>1, <4>2 DEF FirstAt
    <3> QED BY <3>1, <3>2
  <2> QED BY <1>3, <1>4, <2>1
<1>7. \A k \in 1..m : e[k] = d[k]
  <2>1. Nat \subseteq P
    <3> HIDE DEF P
    <3> QED BY <1>5, <1>6, Inductive
  <2>2. 1..m \subseteq Nat
    BY <1>1
  <2> QED BY <2>1, <2>2
<1>8. Len(p) = Len(q)
  BY <1>1, <1>2, <1>7
<1>9. ASSUME NEW i \in 1..Len(p) PROVE p[i] = q[i]
  <2> DEFINE T == {k \in 1..m : i <= e[k]}
  <2>1. m \in T /\ T \subseteq Nat
    BY <1>1, <1>2
  <2>2. PICK k \in T : \A l \in T : k <= l
    BY <2>1, LeastNumber
  <2>3. k \in 1..m /\ i <= e[k] /\ e[k] = d[k]
    BY <1>7, <2>2
  <2>4. FirstAt(e, k) <= i /\ FirstAt(e, k) = FirstAt(d, k)
    <3>1. CASE k = 1
      BY <3>1 DEF FirstAt
    <3>2. CASE k # 1
      <4>1. k - 1 \in 1..m /\ ~(k <= k - 1)
        BY <1>1, <2>3, <3>2
      <4>2. k - 1 \notin T
        BY <2>2, <4>1
      <4>3. e[k - 1] < i /\ e[k - 1] = d[k - 1]
        BY <1>2, <1>7, <4>1, <4>2
      <4> QED BY <1>2, <3>2, <4>1, <4>3 DEF FirstAt
    <3> QED BY <3>1, <3>2
  <2>5. CASE i = e[k]
    <3>1. p[i] = Slash
      BY <1>2, <2>3, <2>5 DEF EndAt, SlashAt
    <3>2. q[i] = Slash
      BY <1>2, <1>8, <2>3, <2>5 DEF EndAt, SlashAt
    <3> QED BY <3>1, <3>2
  <2>6. CASE i # e[k]
    <3> DEFINE a == FirstAt(e, k)
               b == e[k]
               g == Segments(p)[k]
    <3>1. /\ a \in Nat /\ b \in Nat /\ \A j \in a..(b - 1) : p[j] = g[j - a + 1]
          /\ \A j \in a..(b - 1) : q[j] = g[j - a + 1]
      BY <1>3, <1>4, <2>3, <2>4
    <3>2. a <= i /\ i <= b /\ i # b
      BY <2>3, <2>4, <2>6
    <3> HIDE DEF a, b, g
    <3>3. i \in a..(b - 1)
      BY <3>1, <3>2
    <3> QED BY <3>1, <3>3
  <2> QED BY <2>5, <2>6
<1> QED BY <1>8, <1>9, SeqEqual

(* What is before the first separator. *)
LEMMA ToFirstSlash ==
  ASSUME NEW x \in Seq(Units), NEW y \in Seq(Units), NEW u \in Seq(Units), NEW v \in Seq(Units),
         SlashAt(x) = {}, SlashAt(y) = {}, x \o (<<Slash>> \o u) = y \o (<<Slash>> \o v)
  PROVE  Len(x) = Len(y)
<1>0. SUFFICES ASSUME NEW a \in Seq(Units), NEW b \in Seq(Units),
                      NEW r \in Seq(Units), NEW s \in Seq(Units),
                      SlashAt(b) = {}, a \o (<<Slash>> \o r) = b \o (<<Slash>> \o s)
               PROVE  ~(Len(a) < Len(b))
  <2>1. Len(x) \in Nat /\ Len(y) \in Nat
    OBVIOUS
  <2>2. ~(Len(x) < Len(y)) /\ ~(Len(y) < Len(x))
    BY <1>0
  <2> QED BY <2>1, <2>2
<1> DEFINE c == Slash
           p == <<c>> \o r
           q == <<c>> \o s
<1>1. c \in Units /\ c = Slash
  BY UnitIs
<1>2. a \o p = b \o q
  BY <1>0
<1> HIDE DEF c
<1>3. <<c>> \in Seq(Units) /\ Len(<<c>>) = 1 /\ <<c>>[1] = c
  BY <1>1
<1> DEFINE o == <<c>>
<1>4. o \in Seq(Units) /\ Len(o) = 1 /\ o[1] = c
  BY <1>3
<1> HIDE DEF o
<1>5. /\ o \o r \in Seq(Units) /\ Len(o \o r) = 1 + Len(r)
      /\ \A i \in 1..(1 + Len(r)) : (o \o r)[i] = IF i <= 1 THEN o[i] ELSE r[i - 1]
  <2>1. o \in Seq(Units)
    BY <1>4
  <2>2. /\ o \o r \in Seq(Units) /\ Len(o \o r) = Len(o) + Len(r)
        /\ \A i \in 1..(Len(o) + Len(r)) : (o \o r)[i] = IF i <= Len(o) THEN o[i] ELSE r[i - Len(o)]
    BY <2>1, ConcatProperties
  <2> QED BY <1>4, <2>2
<1>6. o \o s \in Seq(Units)
  <2>1. o \in Seq(Units)
    BY <1>4
  <2> QED BY <2>1, ConcatProperties
<1>7. p = o \o r /\ q = o \o s
  BY DEF o
<1> HIDE DEF p, q
<1>8. p \in Seq(Units) /\ q \in Seq(Units) /\ Len(p) \in Nat \ {0} /\ p[1] = c
  <2>1. Len(r) \in Nat
    OBVIOUS
  <2>2. 1 \in 1..(1 + Len(r))
    BY <2>1
  <2>3. (o \o r)[1] = c
    BY <1>4, <1>5, <2>2
  <2>4. 1 + Len(r) \in Nat \ {0}
    BY <2>1
  <2> QED BY <1>5, <1>6, <1>7, <2>3, <2>4
<1>9. /\ \A i \in 1..(Len(a) + Len(p)) : (a \o p)[i] = IF i <= Len(a) THEN a[i] ELSE p[i - Len(a)]
      /\ \A i \in 1..(Len(b) + Len(q)) : (b \o q)[i] = IF i <= Len(b) THEN b[i] ELSE q[i - Len(b)]
  BY <1>8, ConcatProperties
<1>10. Len(a) \in Nat /\ Len(b) \in Nat /\ Len(q) \in Nat
  BY <1>8
<1>11. ASSUME Len(a) < Len(b) PROVE FALSE
  <2> DEFINE i == Len(a) + 1
  <2>1. /\ i \in 1..(Len(a) + Len(p)) /\ i \in 1..(Len(b) + Len(q)) /\ ~(i <= Len(a))
        /\ i <= Len(b) /\ i - Len(a) = 1 /\ i \in 1..Len(b)
    BY <1>8, <1>10, <1>11
  <2> HIDE DEF i
  <2>2. (a \o p)[i] = c
    BY <1>8, <1>9, <2>1
  <2>3. (b \o q)[i] = b[i]
    BY <1>9, <2>1
  <2>4. b[i] = Slash
    BY <1>1, <1>2, <2>2, <2>3
  <2> QED BY <1>0, <2>1, <2>4 DEF SlashAt
<1> QED BY <1>11

(* Two texts that are the same as far as their first separator, or all along. *)
Meet(x, y) ==
  \/ x = y
  \/ \E w, u, v \in Seq(Units) : /\ SlashAt(w) = {}
                                 /\ x = w \o (<<Slash>> \o u) /\ y = w \o (<<Slash>> \o v)

(* The joints of sequences. *)
LEMMA Joints ==
  /\ <<Slash>> \in Seq(Units)
  /\ \A x, y \in Seq(Units) : x \o y \in Seq(Units)
  /\ \A x, y, z \in Seq(Units) : (x \o y) \o z = x \o (y \o z)
<1>1. Slash \in Units
  BY UnitIs
<1> DEFINE c == Slash
<1>2. c \in Units
  BY <1>1
<1> HIDE DEF c
<1>3. <<c>> \in Seq(Units)
  BY <1>2
<1>4. \A x, y \in Seq(Units) : x \o y \in Seq(Units)
  BY ConcatProperties
<1>5. \A x, y, z \in Seq(Units) : (x \o y) \o z = x \o (y \o z)
  BY ConcatAssociative
<1> QED BY <1>3, <1>4, <1>5 DEF c

(* Texts that are joined to others without separators. *)
LEMMA NoSlash ==
  ASSUME NEW x \in Seq(Units), NEW y \in Seq(Units), SlashAt(x) = {}, SlashAt(y) = {}
  PROVE  SlashAt(x \o y) = {}
<1> DEFINE w == x \o y
<1>1. /\ Len(w) = Len(x) + Len(y)
      /\ \A i \in 1..(Len(x) + Len(y)) : w[i] = IF i <= Len(x) THEN x[i] ELSE y[i - Len(x)]
  BY ConcatProperties
<1> HIDE DEF w
<1>2. Len(x) \in Nat /\ Len(y) \in Nat
  OBVIOUS
<1>3. ASSUME NEW i \in 1..Len(w) PROVE w[i] # Slash
  <2>1. CASE i <= Len(x)
    <3>1. i \in 1..Len(x) /\ w[i] = x[i]
      BY <1>1, <1>2, <2>1
    <3> QED BY <3>1 DEF SlashAt
  <2>2. CASE ~(i <= Len(x))
    <3> DEFINE j == i - Len(x)
    <3>1. j \in 1..Len(y) /\ w[i] = y[j]
      BY <1>1, <1>2, <2>2
    <3> HIDE DEF j
    <3> QED BY <3>1 DEF SlashAt
  <2> QED BY <2>1, <2>2
<1>4. SlashAt(w) = {}
  BY <1>3 DEF SlashAt
<1> QED BY <1>4 DEF w

(* A text with a separator has a first one. *)
LEMMA SlashIn ==
  ASSUME NEW z \in Seq(Units), SlashAt(z) # {}
  PROVE  \E w, r \in Seq(Units) : SlashAt(w) = {} /\ z = w \o (<<Slash>> \o r)
<1>1. Len(z) \in Nat /\ SlashAt(z) \subseteq Nat
  BY DEF SlashAt
<1>2. PICK k \in SlashAt(z) : \A j \in SlashAt(z) : k <= j
  BY <1>1, LeastNumber
<1>3. k \in 1..Len(z) /\ z[k] = Slash
  BY <1>2 DEF SlashAt
<1> DEFINE w == SubSeq(z, 1, k - 1)
           r == SubSeq(z, k + 1, Len(z))
<1>4. /\ w \in Seq(Units) /\ Len(w) = k - 1 /\ \A i \in 1..(k - 1) : w[i] = z[i]
  BY <1>1, <1>3
<1>5. /\ r \in Seq(Units) /\ Len(r) = Len(z) - k /\ \A i \in 1..(Len(z) - k) : r[i] = z[k + i]
  <2>1. k + 1 \in Int /\ Len(z) \in Int /\ \A i \in (k + 1)..Len(z) : z[i] \in Units
    BY <1>1, <1>3
  <2>2. /\ r \in Seq(Units) /\ Len(r) = IF k + 1 <= Len(z) THEN Len(z) - (k + 1) + 1 ELSE 0
        /\ \A i \in 1..(Len(z) - (k + 1) + 1) : r[i] = z[k + 1 + i - 1]
    BY <2>1, SubSeqProperties
  <2> HIDE DEF r
  <2>3. /\ (IF k + 1 <= Len(z) THEN Len(z) - (k + 1) + 1 ELSE 0) = Len(z) - k
        /\ Len(z) - (k + 1) + 1 = Len(z) - k
        /\ \A i \in 1..(Len(z) - k) : k + 1 + i - 1 = k + i
    BY <1>1, <1>3
  <2> QED BY <2>2, <2>3
<1> HIDE DEF w, r
<1>6. SlashAt(w) = {}
  <2> SUFFICES ASSUME NEW i \in 1..Len(w) PROVE w[i] # Slash
    BY DEF SlashAt
  <2>1. i \in 1..(k - 1) /\ i \in 1..Len(z) /\ ~(k <= i)
    BY <1>1, <1>3, <1>4
  <2>2. i \notin SlashAt(z)
    BY <1>2, <2>1
  <2> QED BY <1>4, <2>1, <2>2 DEF SlashAt
<1>7. z = w \o (<<Slash>> \o r)
  <2> DEFINE c == Slash
             o == <<c>>
             a == o \o r
             b == w \o a
  <2>1. c \in Units /\ z[k] = c
    BY <1>3, UnitIs
  <2> HIDE DEF c
  <2>2. o \in Seq(Units) /\ Len(o) = 1 /\ o[1] = c
    BY <2>1
  <2> HIDE DEF o
  <2>3. /\ a \in Seq(Units) /\ Len(a) = 1 + Len(r)
        /\ \A i \in 1..(1 + Len(r)) : a[i] = IF i <= 1 THEN o[i] ELSE r[i - 1]
    <3>1. o \in Seq(Units) /\ r \in Seq(Units)
      BY <1>5, <2>2
    <3>2. /\ o \o r \in Seq(Units) /\ Len(o \o r) = Len(o) + Len(r)
          /\ \A i \in 1..(Len(o) + Len(r)) :
               (o \o r)[i] = IF i <= Len(o) THEN o[i] ELSE r[i - Len(o)]
      BY <3>1, ConcatProperties
    <3>3. a = o \o r
      OBVIOUS
    <3> HIDE DEF a
    <3> QED BY <2>2, <3>2, <3>3
  <2> HIDE DEF a
  <2>4. /\ b \in Seq(Units) /\ Len(b) = Len(w) + Len(a)
        /\ \A i \in 1..(Len(w) + Len(a)) : b[i] = IF i <= Len(w) THEN w[i] ELSE a[i - Len(w)]
    BY <1>4, <2>3, ConcatProperties
  <2> HIDE DEF b
  <2>5. Len(b) = Len(z) /\ Len(w) + Len(a) = Len(z) /\ Len(a) = Len(z) - k + 1
    BY <1>1, <1>3, <1>4, <1>5, <2>3, <2>4
  <2>6. ASSUME NEW i \in 1..Len(z) PROVE b[i] = z[i]
    <3>1. CASE i < k
      BY <1>1, <1>3, <1>4, <2>4, <2>5, <3>1
    <3>2. CASE i = k
      <4>1. b[i] = a[1] /\ 1 \in 1..(1 + Len(r))
        BY <1>1, <1>3, <1>4, <1>5, <2>4, <2>5, <3>2
      <4> QED BY <2>1, <2>2, <2>3, <3>2, <4>1
    <3>3. CASE i > k
      <4> DEFINE j == i - k
      <4>1. j \in 1..(Len(z) - k) /\ j + 1 \in 1..(1 + Len(r)) /\ ~(j + 1 <= 1) /\ j + 1 - 1 = j
            /\ ~(i <= Len(w)) /\ i - Len(w) = j + 1 /\ k + j = i
        BY <1>1, <1>3, <1>4, <1>5, <3>3
      <4> HIDE DEF j
      <4>2. b[i] = a[j + 1]
        BY <2>4, <2>5, <4>1
      <4>3. a[j + 1] = r[j]
        BY <2>3, <4>1
      <4> QED BY <1>5, <4>1, <4>2, <4>3
    <3> QED BY <1>3, <3>1, <3>2, <3>3
  <2>7. b = z
    BY <2>4, <2>5, <2>6, SeqEqual
  <2> QED BY <2>7 DEF b, a, o, c
<1> QED BY <1>4, <1>5, <1>6, <1>7

(* What meets still meets after a common text, and after one with a separator
   whatever follows. *)
LEMMA MeetAfter ==
  ASSUME NEW z \in Seq(Units), NEW x \in Seq(Units), NEW y \in Seq(Units),
         SlashAt(z) # {} \/ Meet(x, y)
  PROVE  Meet(z \o x, z \o y)
<1> DEFINE C == Seq(Units)
           o == <<Slash>>
<1>1. o \in C /\ \A a, b \in C : a \o b \in C
  BY Joints
<1>2. \A a, b, d \in C : (a \o b) \o d = a \o (b \o d)
  BY Joints
<1>3. z \in C /\ x \in C /\ y \in C
  OBVIOUS
<1>4. \A w, u, v \in C : SlashAt(w) = {} /\ z \o x = w \o (o \o u) /\ z \o y = w \o (o \o v)
        => Meet(z \o x, z \o y)
  BY DEF Meet
<1>5. CASE SlashAt(z) # {}
  <2>1. PICK w \in C, r \in C : SlashAt(w) = {} /\ z = w \o (o \o r)
    BY <1>5, SlashIn
  <2> HIDE DEF C, o
  <2>2. o \o r \in C /\ r \o x \in C /\ r \o y \in C
    BY <1>1, <1>3, <2>1, Zenon
  <2>3. /\ (w \o (o \o r)) \o x = w \o ((o \o r) \o x)
        /\ (w \o (o \o r)) \o y = w \o ((o \o r) \o y)
    <3> DEFINE p == o \o r
    <3>1. p \in C
      BY <2>2
    <3> HIDE DEF p
    <3>2. \A d \in C : (w \o p) \o d = w \o (p \o d)
      BY <1>2, <3>1, Zenon
    <3>3. (w \o p) \o x = w \o (p \o x) /\ (w \o p) \o y = w \o (p \o y)
      BY <1>3, <3>2, Zenon
    <3> QED BY <3>3 DEF p
  <2>4. (o \o r) \o x = o \o (r \o x) /\ (o \o r) \o y = o \o (r \o y)
    <3>1. o \in C
      BY <1>1
    <3> QED BY <1>3, <1>2, <3>1, Zenon
  <2>5. z \o x = w \o (o \o (r \o x)) /\ z \o y = w \o (o \o (r \o y))
    BY <2>1, <2>3, <2>4, Zenon
  <2> QED BY <1>4, <2>1, <2>2, <2>5, Zenon
<1>6. CASE SlashAt(z) = {} /\ Meet(x, y)
  <2>1. CASE x = y
    BY <2>1 DEF Meet
  <2>2. CASE x # y
    <3>1. PICK w \in C, u \in C, v \in C :
            SlashAt(w) = {} /\ x = w \o (o \o u) /\ y = w \o (o \o v)
      BY <1>6, <2>2 DEF Meet
    <3>2. SlashAt(z \o w) = {}
      BY <1>6, <3>1, NoSlash
    <3> HIDE DEF C, o
    <3>3. z \o w \in C /\ o \o u \in C /\ o \o v \in C
      BY <1>1, <1>3, <3>1, Zenon
    <3>4. z \o (w \o (o \o u)) = (z \o w) \o (o \o u) /\ z \o (w \o (o \o v)) = (z \o w) \o (o \o v)
      <4> DEFINE p == o \o u
                 q == o \o v
      <4>1. p \in C /\ q \in C
        BY <3>3
      <4> HIDE DEF p, q
      <4>2. \A d \in C : (z \o w) \o d = z \o (w \o d)
        BY <1>3, <1>2, Zenon
      <4>3. (z \o w) \o p = z \o (w \o p) /\ (z \o w) \o q = z \o (w \o q)
        BY <4>1, <4>2, Zenon
      <4> QED BY <4>3 DEF p, q
    <3>5. z \o x = (z \o w) \o (o \o u) /\ z \o y = (z \o w) \o (o \o v)
      BY <3>1, <3>4, Zenon
    <3> QED BY <1>4, <3>1, <3>2, <3>3, <3>5, Zenon
  <2> QED BY <2>1, <2>2
<1> QED BY <1>5, <1>6

(* Texts without separators before what meets are told by the whole. *)
LEMMA MeetTells ==
  ASSUME NEW a \in Seq(Units), NEW b \in Seq(Units), NEW x \in Seq(Units), NEW y \in Seq(Units),
         SlashAt(a) = {}, SlashAt(b) = {}, a \o x = b \o y, Meet(x, y)
  PROVE  a = b /\ x = y
<1>1. Len(a) = Len(b)
  <2>1. CASE x = y
    <3>1. Len(a \o x) = Len(a) + Len(x) /\ Len(b \o y) = Len(b) + Len(y)
      BY ConcatProperties
    <3>2. Len(a) \in Nat /\ Len(b) \in Nat /\ Len(x) \in Nat /\ Len(x) = Len(y)
      BY <2>1
    <3> HIDE DEF Meet
    <3> QED BY <3>1, <3>2
  <2>2. CASE x # y
    <3> DEFINE C == Seq(Units)
               o == <<Slash>>
    <3>1. PICK w \in C, u \in C, v \in C :
            SlashAt(w) = {} /\ x = w \o (o \o u) /\ y = w \o (o \o v)
      BY <2>2 DEF Meet
    <3>2. SlashAt(a \o w) = {} /\ SlashAt(b \o w) = {}
      BY <3>1, NoSlash
    <3>3. o \in C /\ \A p, q \in C : p \o q \in C
      BY Joints
    <3>4. \A p, q, d \in C : (p \o q) \o d = p \o (q \o d)
      BY Joints
    <3>5. a \in C /\ b \in C
      OBVIOUS
    <3>6. \A p, q \in C : SlashAt(p) = {} /\ SlashAt(q) = {} /\ p \o (o \o u) = q \o (o \o v)
            => Len(p) = Len(q)
      BY <3>1, ToFirstSlash
    <3>7. \A p, q \in C : Len(p \o q) = Len(p) + Len(q)
      BY ConcatProperties
    <3> HIDE DEF C, o
    <3>8. a \o w \in C /\ b \o w \in C /\ o \o u \in C /\ o \o v \in C
      BY <3>1, <3>3, <3>5, Zenon
    <3>9. (a \o w) \o (o \o u) = a \o (w \o (o \o u)) /\ (b \o w) \o (o \o v) = b \o (w \o (o \o v))
      <4> DEFINE p == o \o u
                 q == o \o v
      <4>1. p \in C /\ q \in C
        BY <3>8
      <4> HIDE DEF p, q
      <4>2. \A d \in C : (a \o w) \o d = a \o (w \o d)
        BY <3>5, <3>4, Zenon
      <4>3. \A d \in C : (b \o w) \o d = b \o (w \o d)
        BY <3>5, <3>4, Zenon
      <4>4. \A d \in C : (a \o w) \o d = a \o (w \o d) /\ (b \o w) \o d = b \o (w \o d)
        BY <4>2, <4>3
      <4>5. (a \o w) \o p = a \o (w \o p) /\ (b \o w) \o q = b \o (w \o q)
        BY <4>1, <4>4, Zenon
      <4> QED BY <4>5 DEF p, q
    <3>10. (a \o w) \o (o \o u) = (b \o w) \o (o \o v)
      BY <3>1, <3>9, Zenon
    <3>11. Len(a \o w) = Len(b \o w)
      BY <3>2, <3>6, <3>8, <3>10, Zenon
    <3>12. Len(a \o w) = Len(a) + Len(w) /\ Len(b \o w) = Len(b) + Len(w)
      BY <3>1, <3>5, <3>7, Zenon
    <3>13. Len(a) \in Nat /\ Len(b) \in Nat /\ Len(w) \in Nat
      BY <3>1 DEF C
    <3> DEFINE k == Len(a)
               l == Len(b)
               m == Len(w)
    <3>14. k + m = l + m /\ k \in Nat /\ l \in Nat /\ m \in Nat
      <4>1. Len(a) + Len(w) = Len(b) + Len(w)
        BY <3>11, <3>12, Zenon
      <4> QED BY <3>13, <4>1
    <3> HIDE DEF k, l, m
    <3>15. k = l
      BY <3>14
    <3> QED BY <3>15 DEF k, l
  <2> QED BY <2>1, <2>2
<1> QED BY <1>1, SplitSame

(* The path from a part on. *)
Rest(ss, i) == FlattenSeq(SubSeq(ss, i + 1, Len(ss)))

(* It begins with the part. *)
LEMMA RestIs ==
  ASSUME NEW ss \in Seq(Seq(Units))
  PROVE  /\ Rest(ss, 0) = FlattenSeq(ss)
         /\ Rest(ss, Len(ss)) = <<>>
         /\ \A i \in 0..Len(ss) : Rest(ss, i) \in Seq(Units)
         /\ \A i \in 0..(Len(ss) - 1) : /\ ss[i + 1] \in Seq(Units)
                                        /\ Rest(ss, i) = ss[i + 1] \o Rest(ss, i + 1)
<1> DEFINE n == Len(ss)
           C == Seq(Units)
           from(i) == SubSeq(ss, i + 1, n)
<1>1. n \in Nat /\ ss \in Seq(C) /\ \A i \in 1..n : ss[i] \in C
  OBVIOUS
<1>2. \A i \in 0..n : from(i) \in Seq(C)
  <2> SUFFICES ASSUME NEW i \in 0..n PROVE from(i) \in Seq(C)
    OBVIOUS
  <2>1. i + 1 \in Int /\ n \in Int /\ \A j \in (i + 1)..n : ss[j] \in C
    BY <1>1
  <2> HIDE DEF C
  <2> QED BY <2>1, SubSeqProperties
<1>3. Rest(ss, 0) = FlattenSeq(ss)
  <2>1. SubSeq(ss, 1, Len(ss)) = ss
    BY SubSeqFull
  <2>2. Rest(ss, 0) = FlattenSeq(SubSeq(ss, 1, Len(ss)))
    BY DEF Rest
  <2> QED BY <2>1, <2>2, Zenon
<1>4. Rest(ss, n) = <<>>
  <2>1. SubSeq(ss, n + 1, n) = <<>>
    <3>1. n + 1 \in Int /\ n \in Int /\ n < n + 1
      BY <1>1
    <3> QED BY <3>1, SubSeqEmpty
  <2> DEFINE e == <<>>
  <2>2. e = <<>> /\ FlattenSeq(e) = e
    BY DEF FlattenSeq
  <2> QED BY <2>1, <2>2 DEF Rest
<1>5. ASSUME NEW i \in 0..n PROVE Rest(ss, i) \in Seq(Units)
  BY <1>2, FlattenKeeps DEF Rest
<1>6. ASSUME NEW i \in 0..(n - 1) PROVE ss[i + 1] \in C /\ Rest(ss, i) = ss[i + 1] \o Rest(ss, i + 1)
  <2> DEFINE x == ss[i + 1]
             t == from(i + 1)
  <2>1. i + 1 \in 1..n /\ n \in (i + 1)..n /\ i + 1 \in 0..n
    BY <1>1
  <2>2. x \in C /\ t \in Seq(C)
    BY <1>1, <1>2, <2>1
  <2>3. from(i) = <<x>> \o t
    <3> HIDE DEF C
    <3> QED BY <1>1, <2>1, SubSeqRecursiveFirst
  <2>4. <<x>> \in Seq(C)
    <3> HIDE DEF C, x
    <3> QED BY <2>2
  <2>5. FlattenSeq(<<x>> \o t) = FlattenSeq(<<x>>) \o FlattenSeq(t)
    BY <2>2, <2>4, FlattenJoin
  <2>6. FlattenSeq(<<x>>) = x
    BY FlattenOne
  <2> HIDE DEF x, t
  <2>7. Rest(ss, i) = FlattenSeq(<<x>> \o t) /\ Rest(ss, i + 1) = FlattenSeq(t)
    BY <2>3 DEF Rest, t
  <2>8. Rest(ss, i) = x \o Rest(ss, i + 1)
    BY <2>5, <2>6, <2>7, Zenon
  <2> QED BY <2>2, <2>8 DEF x
<1> QED BY <1>3, <1>4, <1>5, <1>6

(* Each interpolation is followed by a separator before the next one. *)
Apart(ss, I) == \A i, j \in I : i < j => \E m \in i..j : m \notin I /\ SlashAt(ss[m]) # {}

(* Two paths whose parts differ in the interpolations only. *)
Variants(ss, tt, I) ==
  /\ ss \in Seq(Seq(Units)) /\ tt \in Seq(Seq(Units)) /\ Len(ss) = Len(tt)
  /\ I \subseteq 1..Len(ss) /\ Apart(ss, I)
  /\ \A i \in 1..Len(ss) : i \notin I => ss[i] = tt[i]
  /\ \A i \in I : SlashAt(ss[i]) = {} /\ SlashAt(tt[i]) = {}

(* A separator comes before each interpolation after a place. *)
Clear(ss, I, j) == \A l \in I : l > j => \E m \in (j + 1)..l : m \notin I /\ SlashAt(ss[m]) # {}

(* From such a place on they meet. *)
LEMMA RestsMeet ==
  ASSUME NEW ss, NEW tt, NEW I, Variants(ss, tt, I)
  PROVE  \A j \in 0..Len(ss) : Clear(ss, I, j) => Meet(Rest(ss, j), Rest(tt, j))
<1> DEFINE n == Len(ss)
           P == {k \in Nat : k <= n /\ Clear(ss, I, n - k) => Meet(Rest(ss, n - k), Rest(tt, n - k))}
<1>1. n \in Nat /\ Len(tt) = n /\ ss \in Seq(Seq(Units)) /\ tt \in Seq(Seq(Units))
  BY DEF Variants
<1>2. Rest(ss, n) = <<>> /\ Rest(tt, n) = <<>>
  BY <1>1, RestIs
<1>3. \A j \in 0..(n - 1) : /\ ss[j + 1] \in Seq(Units) /\ Rest(ss, j) = ss[j + 1] \o Rest(ss, j + 1)
                            /\ Rest(tt, j) = tt[j + 1] \o Rest(tt, j + 1)
  BY <1>1, RestIs
<1>4. \A j \in 0..n : Rest(ss, j) \in Seq(Units) /\ Rest(tt, j) \in Seq(Units)
  BY <1>1, RestIs
<1>5. /\ I \subseteq 1..n /\ \A i \in 1..n : i \notin I => ss[i] = tt[i]
  BY DEF Variants
<1> HIDE DEF n
<1>6. 0 \in P
  <2>1. n - 0 = n /\ Rest(ss, n) = <<>> /\ Rest(tt, n) = <<>>
    BY <1>1, <1>2
  <2>2. Meet(Rest(ss, n - 0), Rest(tt, n - 0))
    BY <2>1 DEF Meet
  <2> QED BY <2>2
<1>7. ASSUME NEW k \in Nat, k \in P PROVE k + 1 \in P
  <2> DEFINE j == n - (k + 1)
  <2> SUFFICES ASSUME k + 1 <= n, Clear(ss, I, j) PROVE Meet(Rest(ss, j), Rest(tt, j))
    OBVIOUS
  <2>1. j \in 0..(n - 1) /\ j + 1 = n - k /\ j + 1 \in 1..n /\ j + 1 \in 0..n /\ k <= n
    BY <1>1
  <2>2. Clear(ss, I, j)
    OBVIOUS
  <2> HIDE DEF j
  <2>3. j + 1 \notin I
    <3>1. j + 1 \in I => \E m \in (j + 1)..(j + 1) : m \notin I
      BY <2>1, <2>2 DEF Clear
    <3>2. \A m \in (j + 1)..(j + 1) : m = j + 1
      BY <2>1
    <3> QED BY <3>1, <3>2
  <2>4. ss[j + 1] = tt[j + 1]
    BY <1>5, <2>1, <2>3
  <2>5. SlashAt(ss[j + 1]) # {} \/ Meet(Rest(ss, j + 1), Rest(tt, j + 1))
    <3> SUFFICES ASSUME SlashAt(ss[j + 1]) = {} PROVE Meet(Rest(ss, j + 1), Rest(tt, j + 1))
      OBVIOUS
    <3>1. ASSUME NEW l \in I, l > j + 1
          PROVE  \E m \in (j + 1 + 1)..l : m \notin I /\ SlashAt(ss[m]) # {}
      <4>1. l \in Nat /\ l > j
        BY <1>1, <1>5, <2>1, <3>1
      <4>2. PICK m \in (j + 1)..l : m \notin I /\ SlashAt(ss[m]) # {}
        BY <2>2, <3>1, <4>1 DEF Clear
      <4>3. m # j + 1
        BY <4>2
      <4>4. m \in (j + 1 + 1)..l
        BY <2>1, <4>1, <4>3
      <4> QED BY <4>2, <4>4
    <3>2. Clear(ss, I, j + 1)
      BY <3>1 DEF Clear
    <3> QED BY <1>7, <2>1, <3>2
  <2> DEFINE z == ss[j + 1]
             x == Rest(ss, j + 1)
             y == Rest(tt, j + 1)
  <2>6. /\ z \in Seq(Units) /\ x \in Seq(Units) /\ Rest(ss, j) = z \o x
        /\ y \in Seq(Units) /\ Rest(tt, j) = tt[j + 1] \o y
    BY <1>3, <1>4, <2>1
  <2>7. Rest(tt, j) = z \o y
    BY <2>4, <2>6
  <2>8. SlashAt(z) # {} \/ Meet(x, y)
    BY <2>5
  <2> HIDE DEF z, x, y
  <2>9. Meet(z \o x, z \o y)
    BY <2>6, <2>8, MeetAfter
  <2> QED BY <2>6, <2>7, <2>9
<1>8. Nat \subseteq P
  <2> HIDE DEF P
  <2> QED BY <1>6, <1>7, Inductive
<1>9. ASSUME NEW j \in 0..n, Clear(ss, I, j) PROVE Meet(Rest(ss, j), Rest(tt, j))
  <2> DEFINE k == n - j
  <2>1. k \in Nat /\ k <= n /\ n - k = j
    BY <1>1
  <2>2. k \in P
    BY <1>8, <2>1
  <2> HIDE DEF k
  <2> QED BY <1>9, <2>1, <2>2
<1> QED BY <1>9 DEF n

(* The path tells the parts. *)
LEMMA PartsTell ==
  ASSUME NEW ss, NEW tt, NEW I, Variants(ss, tt, I), FlattenSeq(ss) = FlattenSeq(tt)
  PROVE  \A i \in I : ss[i] = tt[i]
<1> DEFINE n == Len(ss)
           P == {i \in Nat : i <= n => /\ Rest(ss, i) = Rest(tt, i)
                                       /\ \A k \in 1..i : ss[k] = tt[k]}
<1>1. n \in Nat /\ Len(tt) = n /\ ss \in Seq(Seq(Units)) /\ tt \in Seq(Seq(Units)) /\ I \subseteq 1..n
  BY DEF Variants
<1>2. Rest(ss, 0) = Rest(tt, 0)
  BY <1>1, RestIs
<1>3. /\ \A j \in 0..(n - 1) : /\ ss[j + 1] \in Seq(Units) /\ tt[j + 1] \in Seq(Units)
                               /\ Rest(ss, j) = ss[j + 1] \o Rest(ss, j + 1)
                               /\ Rest(tt, j) = tt[j + 1] \o Rest(tt, j + 1)
      /\ \A j \in 0..n : Rest(ss, j) \in Seq(Units) /\ Rest(tt, j) \in Seq(Units)
  BY <1>1, RestIs
<1>4. \A j \in 0..n : Clear(ss, I, j) => Meet(Rest(ss, j), Rest(tt, j))
  BY RestsMeet
<1>5. \A i \in 1..n : i \notin I => ss[i] = tt[i]
  BY DEF Variants
<1> HIDE DEF n
<1>6. 0 \in P
  <2>1. \A k \in 1..0 : ss[k] = tt[k]
    OBVIOUS
  <2> QED BY <1>2, <2>1
<1>7. ASSUME NEW i \in Nat, i \in P PROVE i + 1 \in P
  <2> SUFFICES ASSUME i + 1 <= n
               PROVE  Rest(ss, i + 1) = Rest(tt, i + 1) /\ \A k \in 1..(i + 1) : ss[k] = tt[k]
    OBVIOUS
  <2>1. i \in 0..(n - 1) /\ i + 1 \in 1..n /\ i + 1 \in 0..n /\ i <= n
    BY <1>1
  <2>2. Rest(ss, i) = Rest(tt, i) /\ \A k \in 1..i : ss[k] = tt[k]
    BY <1>7, <2>1
  <2> DEFINE a == ss[i + 1]
             b == tt[i + 1]
             x == Rest(ss, i + 1)
             y == Rest(tt, i + 1)
  <2>3. /\ a \in Seq(Units) /\ x \in Seq(Units) /\ Rest(ss, i) = a \o x
        /\ b \in Seq(Units) /\ y \in Seq(Units) /\ Rest(tt, i) = b \o y
    BY <1>3, <2>1
  <2>4. a \o x = b \o y
    BY <2>2, <2>3
  <2>5. ASSUME i + 1 \notin I PROVE a = b /\ x = y
    <3>1. a = b
      BY <1>5, <2>1, <2>5
    <3> HIDE DEF a, b, x, y
    <3>2. Len(a) = Len(b)
      BY <3>1
    <3>3. x = y
      BY <2>3, <2>4, <3>2, SplitSame
    <3> QED BY <3>1, <3>3
  <2>6. ASSUME i + 1 \in I PROVE a = b /\ x = y
    <3>1. SlashAt(a) = {} /\ SlashAt(b) = {}
      BY <2>6 DEF Variants
    <3>2. ASSUME NEW l \in I, l > i + 1
          PROVE  \E m \in (i + 1 + 1)..l : m \notin I /\ SlashAt(ss[m]) # {}
      <4>1. PICK m \in (i + 1)..l : m \notin I /\ SlashAt(ss[m]) # {}
        BY <2>6, <3>2 DEF Variants, Apart
      <4>2. l \in Nat /\ m # i + 1
        BY <1>1, <2>6, <4>1
      <4>3. m \in (i + 1 + 1)..l
        BY <4>2
      <4> QED BY <4>1, <4>3
    <3>3. Clear(ss, I, i + 1)
      BY <3>2 DEF Clear
    <3>4. Meet(x, y)
      BY <1>4, <2>1, <3>3
    <3> HIDE DEF a, b, x, y
    <3>5. a = b /\ x = y
      BY <2>3, <2>4, <3>1, <3>4, MeetTells
    <3> QED BY <3>5
  <2>7. a = b /\ x = y
    BY <2>5, <2>6
  <2>8. \A k \in 1..(i + 1) : k \in 1..i \/ k = i + 1
    BY <2>1
  <2> QED BY <2>2, <2>7, <2>8
<1>8. n \in P
  <2>1. Nat \subseteq P
    <3> HIDE DEF P
    <3> QED BY <1>6, <1>7, Inductive
  <2> QED BY <1>1, <2>1
<1> QED BY <1>1, <1>8

(* The escaped text has no separator and tells the text, but for the empty one. *)
LEMMA EscapedTells ==
  ASSUME NEW x \in Seq(Units)
  PROVE  /\ HiveEscaped(x) \in Seq(Units) /\ SlashAt(HiveEscaped(x)) = {}
         /\ \A y \in Seq(Units) : HiveEscaped(x) = HiveEscaped(y) =>
              x = y \/ (x \in {<<>>, Default} /\ y \in {<<>>, Default})
<1>1. \A y \in Seq(Units) :
        /\ y = <<>> => HiveEscaped(y) = Default
        /\ y # <<>> => /\ HiveEscaped(y) \in Seq(Units) /\ Len(HiveEscaped(y)) = Len(y)
                       /\ \A i \in 1..Len(y) : HiveEscaped(y)[i] = Escape(y[i])
  BY EachText DEF HiveEscaped
<1>2. Default \in Seq(Units) /\ Len(Default) = 1 /\ Default[1] # Slash /\ Default[1].n = 0
  BY UnitIs
<1>3. SlashAt(HiveEscaped(x)) = {}
  <2>1. CASE x = <<>>
    <3>1. SlashAt(Default) = {}
      <4>1. \A i \in 1..Len(Default) : i = 1
        BY <1>2
      <4> QED BY <1>2, <4>1 DEF SlashAt
    <3> QED BY <1>1, <2>1, <3>1
  <2>2. CASE x # <<>>
    <3>1. ASSUME NEW i \in 1..Len(x) PROVE HiveEscaped(x)[i] # Slash
      <4>1. x[i] \in Units
        OBVIOUS
      <4> QED BY <1>1, <2>2, <4>1, EachUnit
    <3>2. Len(HiveEscaped(x)) = Len(x)
      BY <1>1, <2>2
    <3> QED BY <3>1, <3>2 DEF SlashAt
  <2> QED BY <2>1, <2>2
<1>4. ASSUME NEW y \in Seq(Units), y # <<>>, HiveEscaped(y) = Default PROVE y = Default
  <2>1. Len(y) = 1 /\ Escape(y[1]) = Default[1]
    BY <1>1, <1>2, <1>4
  <2>2. Len(y) = 1
    BY <2>1
  <2>3. y[1] \in Units
    <3>1. \A i \in 1..Len(y) : y[i] \in Units
      OBVIOUS
    <3>2. 1 \in 1..Len(y)
      BY <2>2
    <3> QED BY <3>1, <3>2
  <2>4. y[1] = Default[1]
    BY <1>2, <2>1, <2>3, EachUnit
  <2>5. \A i \in 1..Len(y) : y[i] = Default[i]
    BY <2>1, <2>4
  <2> QED BY <1>2, <2>1, <2>5, SeqEqual
<1>5. ASSUME NEW y \in Seq(Units), HiveEscaped(x) = HiveEscaped(y)
      PROVE  x = y \/ (x \in {<<>>, Default} /\ y \in {<<>>, Default})
  <2>1. CASE x = <<>> \/ y = <<>>
    BY <1>1, <1>4, <1>5, <2>1
  <2>2. CASE x # <<>> /\ y # <<>>
    <3>1. Len(x) = Len(y) /\ \A i \in 1..Len(x) : Escape(x[i]) = Escape(y[i])
      BY <1>1, <1>5, <2>2
    <3>2. \A i \in 1..Len(x) : x[i] \in Units /\ y[i] \in Units
      BY <3>1
    <3>3. \A i \in 1..Len(x) : x[i] = y[i]
      BY <3>1, <3>2, EachUnit
    <3> QED BY <3>1, <3>3, SeqEqual
  <2> QED BY <2>1, <2>2
<1>6. HiveEscaped(x) \in Seq(Units)
  BY <1>1, <1>2
<1> QED BY <1>3, <1>5, <1>6

(* A template that was accepted. *)
Accepted(t) ==
  /\ t \in TargetTemplates /\ "file_number" \notin Range(By)
  /\ Referenced(t) \subseteq Range(By) \cup {"file_number"}

(* The texts of a row are those of its values, and of characters. *)
LEMMA ValuesAre ==
  ASSUME NEW row \in Range(Rows), NEW t, Accepted(t)
  PROVE  /\ Given(t, Values(row, "N"))
         /\ \A c \in DOMAIN By : Values(row, "N")[By[c]] = PartText(row[c])
<1> DEFINE v == Values(row, "N")
           N == Range(By) \cup {"file_number"}
           at(name) == CHOOSE c \in DOMAIN By : By[c] = name
<1>1. /\ v = [name \in N |-> IF name = "file_number" THEN <<Plain("N")>> ELSE PartText(row[at(name)])]
      /\ "file_number" \notin Range(By)
  BY DEF Values, Accepted
<1>2. \A c \in DOMAIN By : row[c] \in ColumnValues
  BY RowIs
<1>3. \A c, d \in DOMAIN By : By[c] = By[d] => row[c] = row[d]
  BY RowsAssumption
<1>4. ASSUME NEW c \in DOMAIN By PROVE v[By[c]] = PartText(row[c])
  <2>1. By[c] \in Range(By)
    BY DEF Range
  <2>2. at(By[c]) \in DOMAIN By /\ By[at(By[c])] = By[c]
    OBVIOUS
  <2>3. v[By[c]] = PartText(row[at(By[c])])
    BY <1>1, <2>1
  <2> HIDE DEF at
  <2>4. row[at(By[c])] = row[c]
    BY <1>3, <2>2
  <2> QED BY <2>3, <2>4
<1>5. \A w \in ColumnValues : PartText(w) \in Seq(Units)
  <2> SUFFICES ASSUME NEW w \in ColumnValues PROVE PartText(w) \in Seq(Units)
    OBVIOUS
  <2>1. w # Null => w.text \in Seq(Characters)
    BY DEF ColumnValues
  <2> QED BY <2>1, UnitIs DEF PartText
<1>6. <<Plain("N")>> \in Seq(Units)
  <2> DEFINE u == Plain("N")
  <2>1. u \in Units
    BY UnitIs
  <2> HIDE DEF u
  <2>2. <<u>> \in Seq(Units)
    BY <2>1
  <2> QED BY <2>2 DEF u
<1>7. ASSUME NEW name \in N PROVE v[name] \in Seq(Units)
  <2>1. CASE name = "file_number"
    BY <1>1, <1>6, <2>1
  <2>2. CASE name \in Range(By)
    <3>1. PICK c \in DOMAIN By : By[c] = name
      BY <2>2 DEF Range
    <3>2. v[name] = PartText(row[c])
      BY <1>4, <3>1
    <3> QED BY <1>2, <1>5, <3>2
  <2> QED BY <2>1, <2>2
<1>8. Given(t, v)
  <2>1. Shaped(t)
    BY PartsAre DEF Accepted
  <2>2. \A i \in Interpolations(t) : t.parts[i].name \in N
    BY DEF Accepted, Referenced
  <2> HIDE DEF v, N
  <2> QED BY <1>7, <2>1, <2>2 DEF Given
<1> QED BY <1>4, <1>8

(* What a careful template interpolates has no separators. *)
LEMMA ShownIs ==
  ASSUME NEW t, NEW values, Given(t, values), Careful(t)
  PROVE  \A i \in Interpolations(t) :
           /\ Shown(t, values)[i] = HiveEscaped(values[t.parts[i].name])
           /\ SlashAt(Shown(t, values)[i]) = {}
<1> SUFFICES ASSUME NEW i \in Interpolations(t)
             PROVE  /\ Shown(t, values)[i] = HiveEscaped(values[t.parts[i].name])
                    /\ SlashAt(Shown(t, values)[i]) = {}
  OBVIOUS
<1>1. /\ i \in DOMAIN t.parts /\ t.parts[i].kind # "text" /\ ~t.parts[i].raw
      /\ values[t.parts[i].name] \in Seq(Units)
  BY DEF Given, Shaped, Careful
<1>2. Shown(t, values)[i] = HiveEscaped(values[t.parts[i].name])
  BY <1>1 DEF Shown
<1> QED BY <1>1, <1>2, EscapedTells

(* Values add no segments to those of a careful template. *)
LEMMA ShapeKept ==
  ASSUME NEW t, NEW values, Given(t, values), Careful(t)
  PROVE  Len(Segments(ObjectPath(t, values))) = Skeleton(t)
<1> DEFINE n == Len(t.parts)
           ff == [i \in DOMAIN t.parts |-> IF t.parts[i].kind = "text" THEN t.parts[i].text ELSE <<>>]
           gg == IF t.url THEN DecodedAll(ff) ELSE ff
           ss == Shown(t, values)
           path == ObjectPath(t, values)
           text == FlattenSeq(gg)
<1>1. n \in Nat /\ DOMAIN t.parts = 1..n /\ t.url \in BOOLEAN
  BY DEF Given, Shaped
<1>2. /\ ss \in Seq(Seq(Units)) /\ Len(ss) = n
      /\ path = FlattenSeq(ss) /\ path \in Seq(Units)
  BY PathIs
<1>3. /\ ff = [i \in 1..n |-> IF t.parts[i].kind = "text" THEN t.parts[i].text ELSE <<>>]
      /\ \A i \in 1..n : ff[i] \in Seq(Units)
  <2>1. <<>> \in Seq(Units)
    OBVIOUS
  <2> QED BY <1>1, <2>1 DEF Given, Shaped
<1>4. ff \in Seq(Seq(Units)) /\ Len(ff) = n
  <2> HIDE DEF ff, n
  <2>1. ff \in [1..n -> Seq(Units)]
    BY <1>3
  <2> QED BY <1>1, <2>1
<1>5. /\ gg \in Seq(Seq(Units)) /\ Len(gg) = n
      /\ text = IF t.url THEN Decoded(FlattenSeq(ff)) ELSE FlattenSeq(ff)
      /\ \A i \in 1..n : gg[i] = IF t.url THEN Decoded(ff[i]) ELSE ff[i]
  <2> HIDE DEF ff, n
  <2>1. /\ DecodedAll(ff) \in Seq(Seq(Units)) /\ Len(DecodedAll(ff)) = n
        /\ Decoded(FlattenSeq(ff)) = FlattenSeq(DecodedAll(ff))
    BY <1>4, DecodedFlat
  <2>2. DOMAIN ff = 1..n
    BY <1>4
  <2>3. \A i \in 1..n : DecodedAll(ff)[i] = Decoded(ff[i])
    BY <2>2 DEF DecodedAll
  <2> QED BY <1>4, <2>1, <2>3
<1>6. Skeleton(t) = Len(Segments(text))
  BY <1>5 DEF Skeleton
<1>7. ASSUME NEW i \in 1..n PROVE Slashes(ss[i]) = Slashes(gg[i])
  <2>1. CASE t.parts[i].kind = "text"
    <3>1. ff[i] = t.parts[i].text
      BY <1>3, <2>1
    <3>2. ss[i] = IF t.url THEN Decoded(t.parts[i].text) ELSE t.parts[i].text
      BY <1>1, <2>1 DEF Shown
    <3> HIDE DEF ff, gg, ss
    <3>3. ss[i] = gg[i]
      BY <1>5, <3>1, <3>2
    <3> QED BY <3>3
  <2>2. CASE t.parts[i].kind # "text"
    <3>1. i \in Interpolations(t)
      BY <1>1, <2>2 DEF Interpolations
    <3>2. SlashAt(ss[i]) = {}
      BY <3>1, ShownIs
    <3>3. ff[i] = <<>>
      BY <1>3, <2>2
    <3> HIDE DEF ff, gg, ss
    <3>4. ss[i] \in Seq(Units) /\ gg[i] \in Seq(Units) /\ ff[i] \in Seq(Units)
      BY <1>2, <1>4, <1>5
    <3>5. Len(gg[i]) = 0
      <4>1. Len(ff[i]) = 0
        BY <3>3
      <4>2. Len(Decoded(ff[i])) = Len(ff[i])
        BY <3>4, EachText
      <4> QED BY <1>5, <4>1, <4>2
    <3>6. SlashAt(gg[i]) = {}
      BY <3>5 DEF SlashAt
    <3> QED BY <3>2, <3>4, <3>6, SlashesNone
  <2> QED BY <2>1, <2>2
<1> HIDE DEF ff, gg, ss, n
<1>8. Slashes(FlattenSeq(ss)) = Slashes(FlattenSeq(gg))
  BY <1>2, <1>5, <1>7, SlashesFlat
<1>9. text \in Seq(Units)
  BY <1>5, FlattenKeeps
<1> HIDE DEF text, path
<1>10. Len(Segments(path)) = Slashes(path) + 1 /\ Len(Segments(text)) = Slashes(text) + 1
  BY <1>2, <1>9, SegmentsAre
<1>11. Slashes(path) = Slashes(text)
  BY <1>2, <1>8 DEF text
<1> QED BY <1>6, <1>10, <1>11 DEF path

(* With every column in a segment of its own, a target tells the values, but for
   null and the empty one. *)
LEMMA TargetsTell ==
  ASSUME NEW r \in Range(Rows), NEW s \in Range(Rows), NEW t, Accepted(t), Separated(t),
         TargetOf(t, r) = TargetOf(t, s)
  PROVE  \A c \in DOMAIN By : r[c] = s[c] \/ (Blank(r[c]) /\ Blank(s[c]))
<1> DEFINE v == Values(r, "N")
           w == Values(s, "N")
           ss == Shown(t, v)
           tt == Shown(t, w)
           I == Interpolations(t)
           n == Len(t.parts)
<1>1. Given(t, v) /\ Given(t, w) /\ Careful(t) /\ Referenced(t) = Range(By)
  BY ValuesAre DEF Separated
<1>2. n \in Nat /\ DOMAIN t.parts = 1..n /\ I \subseteq 1..n
  BY <1>1 DEF Given, Shaped
<1>3. /\ ss \in Seq(Seq(Units)) /\ Len(ss) = n /\ ObjectPath(t, v) = FlattenSeq(ss)
      /\ tt \in Seq(Seq(Units)) /\ Len(tt) = n /\ ObjectPath(t, w) = FlattenSeq(tt)
      /\ ObjectPath(t, v) \in Seq(Units) /\ ObjectPath(t, w) \in Seq(Units)
  BY <1>1, PathIs
<1>4. FlattenSeq(ss) = FlattenSeq(tt)
  <2>1. Segments(ObjectPath(t, v)) = Segments(ObjectPath(t, w))
    BY DEF TargetOf, RenderedTarget
  <2> QED BY <1>3, <2>1, SegmentsTell
<1>5. /\ \A i \in I : ss[i] = HiveEscaped(v[t.parts[i].name]) /\ SlashAt(ss[i]) = {}
      /\ \A i \in I : tt[i] = HiveEscaped(w[t.parts[i].name]) /\ SlashAt(tt[i]) = {}
  BY <1>1, ShownIs
<1>6. ASSUME NEW i \in 1..n, i \notin I
      PROVE  /\ ss[i] = IF t.url THEN Decoded(t.parts[i].text) ELSE t.parts[i].text
             /\ ss[i] = tt[i] /\ t.parts[i].text \in Seq(Units)
  <2>1. i \in DOMAIN t.parts /\ t.parts[i].kind = "text" /\ t.parts[i].text \in Seq(Units)
    BY <1>1, <1>2, <1>6 DEF Given, Shaped, Interpolations
  <2> QED BY <2>1 DEF Shown
<1>7. ASSUME NEW m \in 1..n, t.parts[m].kind = "text", Slash \in Range(t.parts[m].text)
      PROVE  m \notin I /\ SlashAt(ss[m]) # {}
  <2> DEFINE x == t.parts[m].text
  <2>1. m \notin I
    BY <1>7 DEF Interpolations
  <2>2. x \in Seq(Units) /\ ss[m] = IF t.url THEN Decoded(x) ELSE x
    BY <1>6, <2>1
  <2>3. PICK k \in DOMAIN x : x[k] = Slash
    BY <1>7 DEF Range
  <2> HIDE DEF x, ss
  <2>4. k \in 1..Len(x)
    BY <2>2
  <2>5. Decode(Slash) = Slash
    BY DEF Decode, Slash, Plain
  <2>6. Len(ss[m]) = Len(x) /\ ss[m][k] = Slash
    BY <2>2, <2>3, <2>4, <2>5, EachText
  <2>7. k \in SlashAt(ss[m])
    BY <2>4, <2>6 DEF SlashAt
  <2> QED BY <2>1, <2>7
<1>8. Apart(ss, I)
  <2> SUFFICES ASSUME NEW i \in I, NEW j \in I, i < j
               PROVE  \E m \in i..j : m \notin I /\ SlashAt(ss[m]) # {}
    BY DEF Apart
  <2>1. PICK m \in i..j : t.parts[m].kind = "text" /\ Slash \in Range(t.parts[m].text)
    BY DEF Separated
  <2>2. m \in 1..n
    BY <1>2
  <2> QED BY <1>7, <2>1, <2>2
<1>9. Variants(ss, tt, I)
  <2> HIDE DEF ss, tt, I, n
  <2> QED BY <1>2, <1>3, <1>5, <1>6, <1>8 DEF Variants
<1>10. \A i \in I : ss[i] = tt[i]
  <2> HIDE DEF ss, tt, I
  <2> QED BY <1>4, <1>9, PartsTell
<1> SUFFICES ASSUME NEW c \in DOMAIN By
             PROVE  r[c] = s[c] \/ (Blank(r[c]) /\ Blank(s[c]))
  OBVIOUS
<1>11. PICK i \in I : t.parts[i].name = By[c]
  <2>1. By[c] \in Referenced(t)
    BY <1>1 DEF Range
  <2> QED BY <2>1 DEF Referenced
<1>12. v[By[c]] = PartText(r[c]) /\ w[By[c]] = PartText(s[c])
  BY ValuesAre
<1>13. v[By[c]] \in Seq(Units) /\ w[By[c]] \in Seq(Units)
  BY <1>1, <1>11 DEF Given
<1>14. HiveEscaped(v[By[c]]) = HiveEscaped(w[By[c]])
  <2> HIDE DEF ss, tt, v, w, I
  <2> QED BY <1>5, <1>10, <1>11
<1> DEFINE a == PartText(r[c])
           b == PartText(s[c])
<1>15. a = b \/ (a \in {<<>>, Default} /\ b \in {<<>>, Default})
  <2>1. a \in Seq(Units) /\ b \in Seq(Units) /\ HiveEscaped(a) = HiveEscaped(b)
    BY <1>12, <1>13, <1>14
  <2> HIDE DEF a, b
  <2> QED BY <2>1, EscapedTells
<1>16. CASE a # b
  BY <1>15, <1>16 DEF Blank
<1>17. CASE a = b
  <2>1. CASE r[c] = Null \/ s[c] = Null
    <3>1. a = Default /\ b = Default
      BY <1>17, <2>1 DEF PartText
    <3> QED BY <3>1 DEF Blank
  <2>2. CASE r[c] # Null /\ s[c] # Null
    <3>1. r[c].text = s[c].text
      BY <1>17, <2>2 DEF PartText
    <3> QED BY <2>2, <3>1, RowsAssumption
  <2> QED BY <2>1, <2>2
<1> QED BY <1>16, <1>17

(* The templates of the commands. *)
LEMMA TemplateIs ==
  ASSUME NEW j \in Jobs, j.strategy # "exact"
  PROVE  Accepted(j.template)
<1>1. /\ j.template \in TargetTemplates
      /\ TemplateAccepts(j.template, By, Types, j.strategy)
  BY RowsAssumption
<1> QED BY <1>1 DEF Accepted, TemplateAccepts

(* A partition is known by one of the rows. *)
LEMMA KeyRow ==
  ASSUME NEW k \in Keys
  PROVE  Rows[k] \in Range(Rows)
<1>1. PICK row \in Range(Rows) : k = KeyOf(row)
  BY RowsAssumption
<1> QED BY <1>1, KeyIs

(* Whatever the values of a partition, with the separators and percent signs in
   them, the target that a template renders has the segments of the template,
   the same in a URL and as a bare path, and tells the values
   (OutputTargetTemplate::render and hive_escape_path). *)
THEOREM TargetsAreShaped == FileSpec => []TargetsKeepTheirShape
<1>1. Inv => TargetsKeepTheirShape
  <2> SUFFICES ASSUME TypeInv, NEW i \in DOMAIN open, Strategy # "exact"
               PROVE  LET row == Rows[open[i].key]
                          target == TargetOf(Template, row)
                      IN /\ Careful(Template) => Len(target.segments) = Skeleton(Template)
                         /\ Template.url =>
                              target.segments = TargetOf(AsBare(Template), row).segments
                         /\ Separated(Template) => \A k \in Range(seen) :
                              TargetOf(Template, Rows[k]) = target =>
                                \A c \in DOMAIN By :
                                  Rows[k][c] = row[c] \/ (Blank(Rows[k][c]) /\ Blank(row[c]))
    BY DEF Inv, TargetsKeepTheirShape
  <2> DEFINE row == Rows[open[i].key]
             t == Template
             v == Values(row, "N")
  <2>1. Keyed \subseteq Keys
    BY JobFacts DEF TypeInv
  <2>2. row \in Range(Rows)
    <3>1. open[i] \in KeyedSinks
      BY DEF TypeInv
    <3>2. open[i].key \in Keys
      BY <2>1, <3>1 DEF KeyedSinks
    <3> QED BY <3>2, KeyRow
  <2>3. \A k \in Range(seen) : Rows[k] \in Range(Rows)
    <3>1. seen \in Seq(Keyed)
      BY DEF TypeInv
    <3>2. \A k \in Range(seen) : k \in Keys
      BY <2>1, <3>1 DEF Range
    <3> QED BY <3>2, KeyRow
  <2>4. Accepted(t)
    BY TemplateIs DEF TypeInv, Strategy, Template
  <2>5. Given(t, v)
    BY <2>2, <2>4, ValuesAre
  <2>6. \A u : TargetOf(u, row).segments = Segments(ObjectPath(u, v))
    BY DEF TargetOf, RenderedTarget
  <2> HIDE DEF row, t, v
  <2>7. Careful(t) => Len(TargetOf(t, row).segments) = Skeleton(t)
    BY <2>5, <2>6, ShapeKept
  <2>8. t.url => TargetOf(t, row).segments = TargetOf(AsBare(t), row).segments
    BY <2>4, <2>5, <2>6, BareIs DEF Accepted
  <2>9. ASSUME Separated(t), NEW k \in Range(seen), TargetOf(t, Rows[k]) = TargetOf(t, row)
        PROVE  \A c \in DOMAIN By : Rows[k][c] = row[c] \/ (Blank(Rows[k][c]) /\ Blank(row[c]))
    BY <2>2, <2>3, <2>4, <2>9, TargetsTell
  <2> QED BY <2>7, <2>8, <2>9 DEF row, t
<1> QED BY <1>1, FileHolds, PTL
===============================================================================
