--------------------------- MODULE TableScanProofs ---------------------------
(***************************************************************************)
(* Proofs about TableScan, for every table, any changes to it, all queries *)
(* and answers, and all durations.                                         *)
(***************************************************************************)
EXTENDS TableScan, DataLemmas

(* What every version of the data is compared with: the version at the
   snapshot, whenever a session is made. *)
AtSnapshot == {i \in DOMAIN commits : commits[i] <= snapshot}
PinnedVersion == 1 + Cardinality(AtSnapshot)

(* The counter of a probe that will be repeated is below its limit. *)
AttemptInv == pc[Table] = "probe_sleep" => attempt < ProbeAttempts

(* Attempts began in the past. *)
TimeInv == \A c \in Callers : started[c] <= now

(* A snapshot is there before a session is asked for, and lies before the
   attempt began. *)
PinInv ==
  /\ pc[Table] \in {"create", "sleep", "ready"} => snapshot # None
  /\ snapshot # None => snapshot < ServerTime(now)
  /\ \A c \in Callers :
       pc[c] = "create" /\ snapshot # None => snapshot < ServerTime(started[c])

(* Scans begin when the table is discovered, and every lease is of the
   version at the snapshot. *)
VersionInv ==
  /\ \A s \in Scans : pc[s] # "start" \/ lease[s] # NoLease => pc[Table] = "ready"
  /\ pc[Table] = "ready" => Discovered.version = PinnedVersion
  /\ \A s \in Scans : lease[s] # NoLease => lease[s].version = PinnedVersion

(* TypeOK of where everyone stands, and of the rest. *)
Places == {"start", "probe", "probe_sleep", "create", "sleep", "ready", "done", "failed"}

PlacesTyped ==
  /\ pc \in [Callers -> Places]
  /\ started \in [Callers -> Nat]
  /\ until \in [Callers -> Nat]
  /\ opened \in [Callers -> Nat]

LeasesTyped ==
  /\ DOMAIN lease = Callers
  /\ \A c \in Callers :
       /\ {lease[c].version, lease[c].deadline, lease[c].expires} \subseteq Nat
       /\ lease[c].streams \in Seq(STRING) /\ Len(lease[c].streams) <= MaxStreams

ScansTyped ==
  /\ query \in [Scans -> Queries \cup {None}] /\ LeasesTyped
  /\ read \in [Scans -> SUBSET (1..MaxStreams)]
  /\ copies \in [Scans -> [AllRows -> Nat]]

IInv ==
  /\ TypeOK /\ AttemptInv /\ TimeInv /\ PinInv /\ VersionInv
  /\ RetriesFit /\ DeadlineIsConservative

------------------------------------------------------------------------------
(* Arithmetic and sets *)

(* The durations and limits are numbers. *)
LEMMA Numbers ==
  /\ MaxStreams \in Nat /\ MaxStreams > 0
  /\ Second \in Nat /\ Second > 0
  /\ ProbeAttempts \in Nat /\ ProbeAttempts > 0
  /\ Timeout \in Nat /\ Window \in Nat /\ Lifetime \in Nat
  /\ ProbeDelay \in Nat /\ Backoff \in Nat /\ ServerDelay \in Nat
  /\ Margin \in Nat /\ Epoch \in Nat
<1>1. /\ {MaxStreams, Second, ProbeAttempts, Timeout, Window, Lifetime} \subseteq Nat \ {0}
      /\ {MaxTerms, ProbeDelay, Backoff, ServerDelay, Margin, Epoch, MaxTime} \subseteq Nat
  BY TableScanAssumption, Zenon
<1> QED BY <1>1, SMT

(* A Date made while an answer was on its way pins a snapshot from before the
   request. *)
LEMMA PinIsPast ==
  ASSUME NEW begun \in Nat, NEW end \in Nat, NEW sent \in begun..end,
         NEW date \in Dates(ServerTime(sent))
  PROVE  /\ SnapshotFrom(date, end - begun) \in Int
         /\ SnapshotFrom(date, end - begun) < ServerTime(begun)
<1>1. Second \in Nat /\ Second > 0 /\ Epoch \in Nat
  BY Numbers, Zenon
<1>2. sent \in Int /\ sent >= begun /\ sent <= end
  BY SMT
<1>3. date \in (ServerTime(sent) - Second + 1)..(ServerTime(sent) + Second - 1)
  BY Zenon DEF Dates
<1> QED BY <1>1, <1>2, <1>3, SMT DEF SnapshotFrom, ServerTime

(* Products of numbers are numbers. *)
LEMMA Products == \A a, b \in Nat : a * b \in Nat
  BY SMT

(* A session made after the snapshot reads the version at the snapshot. *)
LEMMA VersionIsPinned ==
  ASSUME commits \in Seq(Nat), snapshot \in Int, NEW at \in Int, snapshot < at
  PROVE  VersionAt(snapshot, at) = PinnedVersion
<1>1. \A i \in DOMAIN commits : commits[i] \in Nat
  BY SMT
<1>2. {i \in DOMAIN commits : commits[i] <= snapshot /\ commits[i] <= at} = AtSnapshot
  BY <1>1, SMT DEF AtSnapshot
<1> QED
  BY <1>2, Zenon DEF VersionAt, PinnedVersion

(* A version is a number, whatever the times. *)
LEMMA VersionsAreNat ==
  ASSUME commits \in Seq(Nat), NEW t, NEW at
  PROVE  VersionAt(t, at) \in Nat
<1> DEFINE S == {i \in DOMAIN commits : commits[i] <= t /\ commits[i] <= at}
<1>1. DOMAIN commits = 1..Len(commits) /\ Len(commits) \in Nat
  BY SMT
<1>2. IsFiniteSet(DOMAIN commits)
  BY <1>1, FS_Interval, SMT
<1>3. S \subseteq DOMAIN commits
  OBVIOUS
<1>4. IsFiniteSet(S)
  BY <1>2, <1>3, FS_Subset, Zenon
<1>5. Cardinality(S) \in Nat
  BY <1>4, FS_CardinalityType, Zenon
<1> QED
  BY <1>5, SMT DEF VersionAt

(* A planned delay is short enough for the attempt that follows it. *)
LEMMA DelaysFit ==
  ASSUME NEW c, opened[c] \in Nat, now \in Nat, NEW minimum \in Minimums,
         NEW d \in PlannedDelays(c, minimum)
  PROVE  d \in Nat /\ now + d + Timeout <= opened[c] + Window
<1> DEFINE available == LatestStart(c) - now
<1>1. /\ Timeout \in Nat /\ Window \in Nat /\ Backoff \in Nat /\ ServerDelay \in Nat
      /\ available = opened[c] + Window - Timeout - now
  BY Numbers, SMT DEF LatestStart
<1>2. available >= 0
  <2>1. ~(available < 0)
    <3> SUFFICES ASSUME available < 0 PROVE FALSE
      OBVIOUS
    <3>1. PlannedDelays(c, minimum) = {}
      BY Zenon DEF PlannedDelays
    <3> QED BY <3>1, Zenon
  <2> QED BY <1>1, <2>1, SMT
<1>3. CASE minimum = None
  <2>1. PICK e \in 0..Backoff : d = IF e < available THEN e ELSE available
    BY <1>2, <1>3, Zenon DEF PlannedDelays
  <2> QED BY <1>1, <1>2, <2>1, SMT
<1>4. CASE minimum # None
  <2>1. minimum = ServerDelay
    BY <1>4 DEF Minimums
  <2>2. PICK e \in 0..Backoff : d = IF e > minimum THEN e ELSE minimum
    BY <1>2, <1>4, SMT DEF PlannedDelays
  <2>3. d <= available
    BY <1>2, <1>4, SMT DEF PlannedDelays
  <2> QED BY <1>1, <1>2, <2>1, <2>2, <2>3, SMT
<1> QED BY <1>3, <1>4

------------------------------------------------------------------------------
(* Frames: what a step that leaves some variables alone cannot disturb *)

(* The pinned version is a matter of the snapshot and the commits alone. *)
LEMMA QuietVersions ==
  ASSUME VersionInv, UNCHANGED <<commits, snapshot, lease>>,
         pc[Table] = "ready" <=> pc'[Table] = "ready",
         \A s \in Scans : pc'[s] # "start" => pc[s] # "start" \/ pc[Table] = "ready"
  PROVE  VersionInv'
<1>1. PinnedVersion' = PinnedVersion
  BY Zenon DEF PinnedVersion, AtSnapshot
<1>2. Discovered' = Discovered
  BY Zenon DEF Discovered
<1> QED BY <1>1, <1>2, Zenon DEF VersionInv

(* The snapshot may change as long as no lease depends on it. *)
LEMMA UnleasedVersions ==
  ASSUME VersionInv, UNCHANGED lease, pc[Table] # "ready", pc'[Table] # "ready",
         \A s \in Scans : pc'[s] = pc[s]
  PROVE  VersionInv'
  BY Zenon DEF VersionInv

(* Deadlines are a matter of the leases alone. *)
LEMMA QuietPromises ==
  ASSUME DeadlineIsConservative, UNCHANGED lease
  PROVE  DeadlineIsConservative'
  BY Zenon DEF DeadlineIsConservative

(* TypeOK in its parts. *)
LEMMA TypeParts ==
  TypeOK <=> /\ now \in Nat /\ commits \in Seq(Nat) /\ reference \in References
             /\ snapshot \in Int \cup {None} /\ attempt \in 1..ProbeAttempts
             /\ PlacesTyped /\ ScansTyped
  BY Zenon DEF TypeOK, PlacesTyped, ScansTyped, LeasesTyped, Places

(* The parts of TypeOK after a step are TypeOK after it. *)
LEMMA TypeAgain ==
  ASSUME now' \in Nat, commits' \in Seq(Nat), reference' \in References,
         snapshot' \in Int \cup {None}, attempt' \in 1..ProbeAttempts,
         PlacesTyped', ScansTyped'
  PROVE  TypeOK'
  BY Zenon DEF TypeOK, PlacesTyped, ScansTyped, LeasesTyped, Places

(* The types of the scans are a matter of their variables alone. *)
LEMMA QuietScans ==
  ASSUME ScansTyped, UNCHANGED scanVars
  PROVE  ScansTyped'
  BY Zenon DEF ScansTyped, LeasesTyped, scanVars

(* The provider is one caller, its scans are the others. *)
LEMMA TableIsNoScan ==
  Table \in Callers /\ Scans \subseteq Callers /\ Table \notin Scans
  BY TableScanAssumption, Zenon DEF Callers

(* What a caller's move leaves of the others. *)
Elsewhere(c) == \A e \in Callers : e # c =>
  pc'[e] = pc[e] /\ started'[e] = started[e] /\ until'[e] = until[e] /\ opened'[e] = opened[e]

(* What Settle does to c, and to nobody else. *)
LEMMA SettleMoves ==
  ASSUME PlacesTyped, NEW c \in Callers, NEW where \in Places, Settle(c, where)
  PROVE  /\ PlacesTyped' /\ Elsewhere(c) /\ pc'[c] = where
         /\ started'[c] = 0 /\ until'[c] = 0 /\ opened'[c] = 0
  BY SMT DEF PlacesTyped, Places, Settle, Goto, Elsewhere

(* What Sleep does. *)
LEMMA SleepMoves ==
  ASSUME PlacesTyped, now \in Nat, NEW c \in Callers, NEW where \in Places, NEW d \in Nat,
         Sleep(c, where, d)
  PROVE  /\ PlacesTyped' /\ Elsewhere(c) /\ pc'[c] = where
         /\ started'[c] = started[c] /\ until'[c] = now + d /\ opened'[c] = opened[c]
  BY SMT DEF PlacesTyped, Places, Sleep, Goto, Elsewhere

(* What an attempt does that starts where it was left. *)
LEMMA StartMoves ==
  ASSUME PlacesTyped, now \in Nat, NEW c \in Callers, NEW where \in Places,
         Goto(c, where), Start(c), UNCHANGED <<until, opened>>
  PROVE  /\ PlacesTyped' /\ Elsewhere(c) /\ pc'[c] = where
         /\ started'[c] = now /\ until'[c] = until[c] /\ opened'[c] = opened[c]
  BY SMT DEF PlacesTyped, Places, Start, Goto, Elsewhere

(* What Open does. *)
LEMMA OpenMoves ==
  ASSUME PlacesTyped, now \in Nat, NEW c \in Callers, Open(c)
  PROVE  /\ PlacesTyped' /\ Elsewhere(c) /\ pc'[c] = "create"
         /\ started'[c] = now /\ until'[c] = until[c] /\ opened'[c] = now
  BY SMT DEF PlacesTyped, Places, Open, Start, Goto, Elsewhere

------------------------------------------------------------------------------
(* Initial states *)

(* The invariant holds at first. *)
LEMMA InitKeeps == Init => IInv
<1> SUFFICES ASSUME Init PROVE IInv
  OBVIOUS
<1>1. TypeOK
  <2>1. 1 \in 1..ProbeAttempts
    BY Numbers, SMT
  <2>2. MaxStreams \in Nat
    BY Numbers
  <2>3. lease = [c \in Callers |-> NoLease]
    BY DEF Init
  <2>4. /\ DOMAIN lease = Callers
        /\ \A c \in Callers : lease[c] = NoLease
    BY <2>3, Zenon
  <2>5. /\ {NoLease.version, NoLease.deadline, NoLease.expires} \subseteq Nat
        /\ NoLease.streams \in Seq(STRING) /\ Len(NoLease.streams) <= MaxStreams
    BY <2>2, SMT DEF NoLease
  <2>6. \A c \in Callers :
          /\ {lease[c].version, lease[c].deadline, lease[c].expires} \subseteq Nat
          /\ lease[c].streams \in Seq(STRING) /\ Len(lease[c].streams) <= MaxStreams
    BY <2>4, <2>5, Zenon
  <2>7. copies \in [Scans -> [AllRows -> Nat]]
    BY SMT DEF Init
  <2>8. /\ now \in Nat /\ commits \in Seq(Nat) /\ reference \in References
        /\ snapshot \in Int \cup {None}
        /\ started \in [Callers -> Nat] /\ until \in [Callers -> Nat]
        /\ opened \in [Callers -> Nat]
        /\ query \in [Scans -> Queries \cup {None}]
        /\ read \in [Scans -> SUBSET (1..MaxStreams)]
    BY SMT DEF Init
  <2>9. pc \in [Callers -> {"start", "probe", "probe_sleep", "create", "sleep",
                           "ready", "done", "failed"}] /\ attempt = 1
    BY SMT DEF Init
  <2> QED BY <2>1, <2>4, <2>6, <2>7, <2>8, <2>9, Zenon DEF TypeOK
<1>2. AttemptInv /\ TimeInv /\ RetriesFit
  BY SMT DEF Init, AttemptInv, TimeInv, RetriesFit, Callers
<1>3. PinInv
  BY SMT DEF Init, PinInv, Callers
<1>4. VersionInv
  BY SMT DEF Init, VersionInv, Callers
<1>5. DeadlineIsConservative
  BY SMT DEF Init, DeadlineIsConservative, NoLease
<1> QED BY <1>1, <1>2, <1>3, <1>4, <1>5 DEF IInv

------------------------------------------------------------------------------
(* Pinning the snapshot *)

(* A snapshot of the reference is in the past. *)
LEMMA CreateProviderKeeps ==
  ASSUME IInv, CreateProvider PROVE IInv'
<1>1. TypeOK /\ PlacesTyped /\ ScansTyped /\ now \in Nat
  BY TypeParts, Zenon DEF IInv
<1>2. /\ pc[Table] = "start" /\ UNCHANGED <<now, tableVars, scanVars, attempt>>
      /\ Elsewhere(Table) /\ PlacesTyped' /\ started'[Table] = now
  <2>1. CASE Open(Table) /\ UNCHANGED attempt
    BY <1>1, <2>1, OpenMoves, TableIsNoScan, Zenon DEF CreateProvider
  <2>2. CASE Goto(Table, "probe") /\ Start(Table) /\ UNCHANGED <<pinVars, until, opened>>
    <3>1. "probe" \in Places
      BY DEF Places
    <3> QED BY <1>1, <2>2, <3>1, StartMoves, TableIsNoScan, Zenon DEF CreateProvider, pinVars
  <2> QED BY <2>1, <2>2, Zenon DEF CreateProvider
<1>3. \/ /\ reference.snapshot # None /\ snapshot' = reference.snapshot
         /\ pc'[Table] = "create"
      \/ snapshot' = snapshot /\ pc'[Table] = "probe"
  <2>1. CASE reference.snapshot # None /\ snapshot' = reference.snapshot /\ Open(Table)
    BY <1>1, <2>1, OpenMoves, TableIsNoScan, Zenon
  <2>2. CASE Goto(Table, "probe") /\ Start(Table) /\ UNCHANGED <<pinVars, until, opened>>
    <3>1. "probe" \in Places
      BY DEF Places
    <3> QED BY <1>1, <2>2, <3>1, StartMoves, TableIsNoScan, Zenon DEF pinVars
  <2> QED BY <2>1, <2>2, Zenon DEF CreateProvider
<1>4. snapshot' # snapshot => snapshot' \in Int /\ snapshot' < Epoch
  <2>1. reference \in References
    BY <1>1, Zenon DEF TypeOK
  <2> QED BY <1>3, <2>1, TableScanAssumption, Zenon
<1>5. TypeOK'
  <2>1. snapshot' \in Int \cup {None}
    BY <1>1, <1>4, Zenon DEF TypeOK
  <2>2. ScansTyped'
    BY <1>1, <1>2, QuietScans
  <2>3. now' \in Nat /\ commits' \in Seq(Nat) /\ reference' \in References
        /\ attempt' \in 1..ProbeAttempts
    BY <1>1, <1>2, Zenon DEF tableVars, TypeOK
  <2> QED BY <1>2, <2>1, <2>2, <2>3, TypeAgain, Zenon
<1>6. AttemptInv' /\ TimeInv' /\ RetriesFit'
  <2>1. AttemptInv'
    BY <1>3, Zenon DEF AttemptInv
  <2>2. TimeInv'
    BY <1>1, <1>2, SMT DEF IInv, TimeInv, Elsewhere
  <2>3. RetriesFit'
    BY <1>2, <1>3, Zenon DEF IInv, RetriesFit, Elsewhere
  <2> QED BY <2>1, <2>2, <2>3
<1>7. PinInv'
  <2>1. snapshot' # None => snapshot' < ServerTime(now)
    BY <1>1, <1>4, Numbers, SMT DEF IInv, PinInv, ServerTime
  <2>2. pc'[Table] \in {"create", "sleep", "ready"} => snapshot' # None
    BY <1>3, Zenon
  <2>3. \A c \in Callers :
          pc'[c] = "create" /\ snapshot' # None => snapshot' < ServerTime(started'[c])
    <3> SUFFICES ASSUME NEW c \in Callers, pc'[c] = "create", snapshot' # None
                 PROVE  snapshot' < ServerTime(started'[c])
      OBVIOUS
    <3>1. CASE c = Table
      BY <1>2, <2>1, <3>1
    <3>2. CASE c # Table
      <4>1. started'[c] \in Nat /\ started'[c] = started[c] /\ pc[c] = "create"
        BY <1>2, <3>2, SMT DEF Elsewhere, PlacesTyped
      <4>2. snapshot' # snapshot => snapshot' < ServerTime(started'[c])
        BY <1>4, <4>1, Numbers, SMT DEF ServerTime
      <4> QED BY <4>1, <4>2, Zenon DEF IInv, PinInv
    <3> QED BY <3>1, <3>2
  <2> QED BY <1>2, <2>1, <2>2, <2>3, Zenon DEF PinInv, ServerTime
<1>8. VersionInv'
  <2>1. pc'[Table] # "ready" /\ pc[Table] # "ready"
    BY <1>2, <1>3
  <2>2. \A s \in Scans : pc'[s] = pc[s]
    BY <1>2, TableIsNoScan, Zenon DEF Elsewhere
  <2> QED BY <1>2, <2>1, <2>2, UnleasedVersions, Zenon DEF IInv, scanVars
<1>9. DeadlineIsConservative'
  BY <1>2, QuietPromises, Zenon DEF IInv, scanVars
<1> QED BY <1>5, <1>6, <1>7, <1>8, <1>9 DEF IInv

(* A Date pins a snapshot from before the request. *)
LEMMA ProbeAnsweredKeeps ==
  ASSUME IInv, ProbeAnswered
  PROVE  IInv' /\ snapshot' < ServerTime(started[Table])
<1>1. /\ TypeOK /\ PlacesTyped /\ ScansTyped /\ now \in Nat
      /\ started[Table] \in Nat /\ started[Table] <= now
  <2>1. TypeOK /\ PlacesTyped /\ ScansTyped /\ now \in Nat
    BY TypeParts, Zenon DEF IInv
  <2> QED BY <2>1, TableIsNoScan, SMT DEF PlacesTyped, IInv, TimeInv
<1>2. /\ pc[Table] = "probe" /\ UNCHANGED <<now, tableVars, scanVars>> /\ attempt' = 1
      /\ Elsewhere(Table) /\ PlacesTyped' /\ started'[Table] = now
      /\ pc'[Table] = "create" /\ until'[Table] = until[Table] /\ opened'[Table] = now
  BY <1>1, OpenMoves, TableIsNoScan, Zenon DEF ProbeAnswered
<1>3. snapshot' \in Int /\ snapshot' < ServerTime(started[Table])
  <2>1. PICK sent \in started[Table]..now : \E date \in Dates(ServerTime(sent)) :
               snapshot' = SnapshotFrom(date, now - started[Table])
    BY Zenon DEF ProbeAnswered
  <2>2. PICK date \in Dates(ServerTime(sent)) :
               snapshot' = SnapshotFrom(date, now - started[Table])
    BY <2>1, Zenon
  <2> QED BY <1>1, <2>2, PinIsPast, Zenon
<1>4. snapshot' < ServerTime(now)
  BY <1>1, <1>3, Numbers, SMT DEF ServerTime
<1>5. TypeOK'
  <2>1. snapshot' \in Int \cup {None} /\ attempt' \in 1..ProbeAttempts
    BY <1>2, <1>3, Numbers, SMT
  <2>2. ScansTyped'
    BY <1>1, <1>2, QuietScans
  <2>3. now' \in Nat /\ commits' \in Seq(Nat) /\ reference' \in References
    BY <1>1, <1>2, Zenon DEF tableVars, TypeOK
  <2> QED BY <1>2, <2>1, <2>2, <2>3, TypeAgain, Zenon
<1>6. AttemptInv' /\ TimeInv' /\ RetriesFit'
  <2>1. AttemptInv'
    BY <1>2, Zenon DEF AttemptInv
  <2>2. TimeInv'
    BY <1>1, <1>2, SMT DEF IInv, TimeInv, Elsewhere
  <2>3. RetriesFit'
    BY <1>2, Zenon DEF IInv, RetriesFit, Elsewhere
  <2> QED BY <2>1, <2>2, <2>3
<1>7. PinInv'
  <2>1. \A s \in Scans : pc[s] = "start" /\ pc'[s] = "start"
    BY <1>2, TableIsNoScan, Zenon DEF IInv, VersionInv, Elsewhere
  <2>2. \A c \in Callers : pc'[c] = "create" => c = Table
    BY <2>1, Zenon DEF Callers
  <2>3. snapshot' # None
    BY <1>3, TableScanAssumption, Zenon
  <2> QED BY <1>2, <1>4, <2>2, <2>3, Zenon DEF PinInv, ServerTime
<1>8. VersionInv'
  <2>1. \A s \in Scans : pc'[s] = pc[s]
    BY <1>2, TableIsNoScan, Zenon DEF Elsewhere
  <2> QED BY <1>2, <2>1, UnleasedVersions, Zenon DEF IInv, scanVars
<1>9. DeadlineIsConservative'
  BY <1>2, QuietPromises, Zenon DEF IInv, scanVars
<1> QED BY <1>3, <1>5, <1>6, <1>7, <1>8, <1>9 DEF IInv

(* The steps that leave the table, the snapshot and the leases alone. *)
LEMMA MoveKeeps ==
  ASSUME IInv, NEW c \in Callers, Elsewhere(c), PlacesTyped', ScansTyped',
         UNCHANGED <<now, tableVars, snapshot, lease>>,
         attempt' \in 1..ProbeAttempts, AttemptInv',
         started'[c] <= now,
         c = Table => pc[c] # "ready" /\ pc'[c] # "ready",
         c # Table => pc[c] # "start" \/ pc[Table] = "ready",
         pc'[c] \in {"create", "sleep"} => snapshot # None,
         pc'[c] = "create" => started'[c] = now,
         pc'[c] = "sleep" => until'[c] + Timeout <= opened'[c] + Window
  PROVE  IInv'
<1>1. TypeOK'
  <2>1. now' \in Nat /\ commits' \in Seq(Nat) /\ reference' \in References
        /\ snapshot' \in Int \cup {None}
    BY Zenon DEF tableVars, TypeOK, IInv
  <2> QED BY <2>1, TypeAgain, Zenon
<1>2. TimeInv'
  BY Zenon DEF IInv, TimeInv, Elsewhere
<1>3. RetriesFit'
  BY Zenon DEF IInv, RetriesFit, Elsewhere
<1>4. PinInv'
  <2>1. \A e \in Callers :
          pc'[e] = "create" /\ snapshot' # None => snapshot' < ServerTime(started'[e])
    BY Zenon DEF IInv, PinInv, Elsewhere
  <2>2. pc'[Table] \in {"create", "sleep", "ready"} => snapshot' # None
    <3>1. CASE c = Table
      BY <3>1, Zenon
    <3>2. CASE c # Table
      BY <3>2, TableIsNoScan, Zenon DEF IInv, PinInv, Elsewhere
    <3> QED BY <3>1, <3>2
  <2> QED BY <2>1, <2>2, Zenon DEF IInv, PinInv, ServerTime
<1>5. VersionInv'
  <2>1. pc[Table] = "ready" <=> pc'[Table] = "ready"
    <3>1. CASE c = Table
      BY <3>1, Zenon
    <3>2. CASE c # Table
      BY <3>2, TableIsNoScan, Zenon DEF Elsewhere
    <3> QED BY <3>1, <3>2
  <2>2. ASSUME NEW s \in Scans, pc'[s] # "start"
        PROVE  pc[s] # "start" \/ pc[Table] = "ready"
    <3>1. s \in Callers /\ s # Table
      BY TableIsNoScan, Zenon
    <3>2. CASE s = c
      BY <3>1, <3>2, Zenon
    <3>3. CASE s # c
      BY <2>2, <3>1, <3>3, Zenon DEF Elsewhere
    <3> QED BY <3>2, <3>3
  <2> QED BY <2>1, <2>2, QuietVersions, Zenon DEF IInv, tableVars
<1>6. DeadlineIsConservative'
  BY QuietPromises, Zenon DEF IInv
<1> QED BY <1>1, <1>2, <1>3, <1>4, <1>5, <1>6 DEF IInv

(* The probe is repeated only within its limit. *)
LEMMA ProbeAgainKeeps ==
  ASSUME IInv, pc[Table] = "probe", NEW retryable, ProbeAgain(retryable)
  PROVE  IInv'
<1>1. /\ TypeOK /\ PlacesTyped /\ ScansTyped /\ now \in Nat /\ Table \in Callers
      /\ attempt \in 1..ProbeAttempts /\ started[Table] <= now
  BY TypeParts, TableIsNoScan, Zenon DEF IInv, TimeInv
<1>2. UNCHANGED <<now, tableVars, snapshot, attempt, lease>> /\ ScansTyped'
  BY <1>1, QuietScans, Zenon DEF ProbeAgain, pinVars, scanVars
<1>3. CASE attempt < ProbeAttempts /\ Sleep(Table, "probe_sleep", ProbeDelay * attempt)
  <2>1. "probe_sleep" \in Places
    BY DEF Places
  <2>2. ProbeDelay * attempt \in Nat
    <3>1. attempt \in Nat /\ ProbeDelay \in Nat
      BY <1>1, Numbers, SMT
    <3> QED BY <3>1, Products, Zenon
  <2>3. /\ PlacesTyped' /\ Elsewhere(Table) /\ pc'[Table] = "probe_sleep"
        /\ started'[Table] = started[Table]
    BY <1>1, <1>3, <2>1, <2>2, SleepMoves, Zenon
  <2>4. AttemptInv'
    BY <1>2, <1>3, SMT DEF AttemptInv
  <2> QED BY <1>1, <1>2, <2>3, <2>4, MoveKeeps, Zenon
<1>4. CASE Settle(Table, "failed")
  <2>1. "failed" \in Places
    BY DEF Places
  <2>2. /\ PlacesTyped' /\ Elsewhere(Table) /\ pc'[Table] = "failed"
        /\ started'[Table] = 0
    BY <1>1, <1>4, <2>1, SettleMoves, Zenon
  <2>3. AttemptInv' /\ started'[Table] <= now
    BY <1>1, <2>2, SMT DEF AttemptInv
  <2> QED BY <1>1, <1>2, <2>2, <2>3, MoveKeeps, Zenon
<1> QED BY <1>3, <1>4, Zenon DEF ProbeAgain

(* A repetition of the probe is one more attempt. *)
LEMMA ProbeWakeKeeps ==
  ASSUME IInv, ProbeWake PROVE IInv'
<1>1. /\ TypeOK /\ PlacesTyped /\ ScansTyped /\ now \in Nat /\ Table \in Callers
      /\ attempt \in 1..ProbeAttempts /\ pc[Table] = "probe_sleep"
  BY TypeParts, TableIsNoScan, Zenon DEF IInv, ProbeWake
<1>2. UNCHANGED <<now, tableVars, snapshot, lease>> /\ ScansTyped'
  BY <1>1, QuietScans, Zenon DEF ProbeWake, scanVars
<1>3. attempt' \in 1..ProbeAttempts
  BY <1>1, Numbers, SMT DEF IInv, AttemptInv, ProbeWake
<1>4. "probe" \in Places
  BY DEF Places
<1>5. /\ PlacesTyped' /\ Elsewhere(Table) /\ pc'[Table] = "probe"
      /\ started'[Table] = now
  BY <1>1, <1>4, StartMoves, Zenon DEF ProbeWake
<1>6. AttemptInv' /\ started'[Table] <= now
  BY <1>1, <1>5, SMT DEF AttemptInv
<1> QED BY <1>1, <1>2, <1>3, <1>5, <1>6, MoveKeeps, Zenon

------------------------------------------------------------------------------
(* Opening sessions *)

(* The probe is not disturbed by a step of a caller that does not wait for it. *)
LEMMA QuietAttempt ==
  ASSUME IInv, UNCHANGED attempt, NEW c \in Callers, Elsewhere(c), pc'[c] # "probe_sleep"
  PROVE  attempt' \in 1..ProbeAttempts /\ AttemptInv'
<1>1. pc'[Table] = "probe_sleep" => pc[Table] = "probe_sleep"
  <2>1. CASE c = Table
    BY <2>1
  <2>2. CASE c # Table
    BY <2>2, TableIsNoScan, Zenon DEF Elsewhere
  <2> QED BY <2>1, <2>2
<1> QED BY <1>1, Zenon DEF IInv, TypeOK, AttemptInv

(* What every step of the opener starts from. *)
LEMMA Creating ==
  ASSUME IInv, NEW c \in Callers, pc[c] \in {"create", "sleep"}
  PROVE  /\ TypeOK /\ PlacesTyped /\ ScansTyped /\ now \in Nat
         /\ started[c] \in Nat /\ started[c] <= now
         /\ c # Table => pc[Table] = "ready"
         /\ snapshot # None /\ snapshot \in Int
<1>1. TypeOK /\ PlacesTyped /\ ScansTyped /\ now \in Nat
  BY TypeParts, Zenon DEF IInv
<1>2. started[c] \in Nat /\ started[c] <= now
  BY <1>1, SMT DEF PlacesTyped, IInv, TimeInv
<1>3. c # Table => pc[Table] = "ready"
  BY Zenon DEF IInv, VersionInv, Callers
<1>4. c = Table => snapshot # None
  BY Zenon DEF IInv, PinInv
<1>5. snapshot # None
  BY <1>3, <1>4, Zenon DEF IInv, PinInv
<1> QED BY <1>1, <1>2, <1>3, <1>5, Zenon DEF TypeOK

(* A session that is refused, or cannot be used, leaves no lease. *)
LEMMA CreateFails ==
  ASSUME IInv, NEW c \in Callers, pc[c] = "create", Settle(c, "failed"),
         UNCHANGED <<now, tableVars, pinVars, lease>>, ScansTyped'
  PROVE  IInv'
<1>1. PlacesTyped /\ now \in Nat /\ (c # Table => pc[Table] = "ready") /\ snapshot # None
  BY Creating, Zenon
<1>2. "failed" \in Places
  BY DEF Places
<1>3. PlacesTyped' /\ Elsewhere(c) /\ pc'[c] = "failed" /\ started'[c] = 0
  BY <1>1, <1>2, SettleMoves, Zenon
<1>4. started'[c] <= now
  BY <1>1, <1>3, SMT
<1>5. UNCHANGED <<attempt, snapshot>>
  BY Zenon DEF pinVars
<1>6. attempt' \in 1..ProbeAttempts /\ AttemptInv'
  BY <1>3, <1>5, QuietAttempt, Zenon
<1> QED BY <1>1, <1>3, <1>4, <1>5, <1>6, MoveKeeps, Zenon

(* Another attempt waits within the retry window. *)
LEMMA CreateAgainKeeps ==
  ASSUME IInv, NEW c \in Callers, pc[c] = "create", NEW minimum \in Minimums,
         CreateAgain(c, minimum)
  PROVE  IInv'
<1>1. /\ PlacesTyped /\ ScansTyped /\ now \in Nat /\ started[c] <= now
      /\ c # Table => pc[Table] = "ready"
      /\ snapshot # None
  BY Creating, Zenon
<1>2. opened[c] \in Nat
  BY <1>1, SMT DEF PlacesTyped
<1>3. UNCHANGED <<now, tableVars, snapshot, attempt, lease>> /\ ScansTyped'
  BY <1>1, QuietScans, Zenon DEF CreateAgain, pinVars, scanVars
<1>4. ASSUME NEW d \in PlannedDelays(c, minimum), Sleep(c, "sleep", d) PROVE IInv'
  <2>1. "sleep" \in Places
    BY DEF Places
  <2>2. d \in Nat /\ now + d + Timeout <= opened[c] + Window
    BY <1>1, <1>2, DelaysFit
  <2>3. /\ PlacesTyped' /\ Elsewhere(c) /\ pc'[c] = "sleep"
        /\ started'[c] = started[c] /\ until'[c] = now + d /\ opened'[c] = opened[c]
    BY <1>1, <1>4, <2>1, <2>2, SleepMoves, Zenon
  <2>4. until'[c] + Timeout <= opened'[c] + Window
    BY <2>2, <2>3
  <2>5. attempt' \in 1..ProbeAttempts /\ AttemptInv'
    BY <1>3, <2>3, QuietAttempt, Zenon
  <2> QED BY <1>1, <1>3, <2>3, <2>4, <2>5, MoveKeeps, Zenon
<1>5. CASE Settle(c, "failed")
  BY <1>3, <1>5, CreateFails, Zenon DEF pinVars, CreateAgain
<1> QED BY <1>4, <1>5, Zenon DEF CreateAgain

(* The attempt after a sleep begins now. *)
LEMMA CreateWakeKeeps ==
  ASSUME IInv, NEW c \in Callers, CreateWake(c) PROVE IInv'
<1>1. /\ pc[c] = "sleep" /\ PlacesTyped /\ ScansTyped /\ now \in Nat
      /\ c # Table => pc[Table] = "ready"
      /\ snapshot # None
  BY Creating, Zenon DEF CreateWake
<1>2. UNCHANGED <<now, tableVars, snapshot, attempt, lease>> /\ ScansTyped'
  BY <1>1, QuietScans, Zenon DEF CreateWake, pinVars, scanVars
<1>3. "create" \in Places
  BY DEF Places
<1>4. PlacesTyped' /\ Elsewhere(c) /\ pc'[c] = "create" /\ started'[c] = now
  BY <1>1, <1>3, StartMoves, Zenon DEF CreateWake
<1>5. started'[c] <= now
  BY <1>1, <1>4, SMT
<1>6. attempt' \in 1..ProbeAttempts /\ AttemptInv'
  BY <1>2, <1>4, QuietAttempt, Zenon
<1> QED BY <1>1, <1>2, <1>4, <1>5, <1>6, MoveKeeps, Zenon

(* What is kept of a session that was made after its request was sent. *)
LEMMA KeptIsPinned ==
  ASSUME NEW c \in Callers, started[c] \in Nat, commits \in Seq(Nat),
         snapshot \in Int, snapshot < ServerTime(started[c]),
         NEW at \in Nat, started[c] <= at,
         NEW resp \in Responses(c, at), IsValid(c, resp), NEW parts
  PROVE  LET kept == Kept(c, at, resp, parts)
         IN  /\ kept.version = PinnedVersion
             /\ {kept.version, kept.deadline, kept.expires} \subseteq Nat
             /\ kept.streams \in Seq(STRING) /\ Len(kept.streams) <= MaxStreams
             /\ kept.deadline <= kept.expires
<1> DEFINE kept == Kept(c, at, resp, parts)
<1>1. Epoch \in Nat /\ Lifetime \in Nat /\ MaxStreams \in Nat /\ MaxStreams > 0
  BY Numbers, Zenon
<1>2. PICK served \in {snapshot, ServerTime(at)}, streams \in StreamLists :
        /\ resp.snapshot = served /\ resp.streams = streams
        /\ resp.version = VersionAt(served, ServerTime(at))
  BY SMT DEF Responses
<1>3. resp.version = VersionAt(snapshot, ServerTime(at))
  BY <1>2, Zenon DEF IsValid
<1>4. snapshot < ServerTime(at) /\ ServerTime(at) \in Int
  BY <1>1, SMT DEF ServerTime
<1>5. resp.version = PinnedVersion /\ resp.version \in Nat
  BY <1>3, <1>4, VersionIsPinned, VersionsAreNat, Zenon
<1>6. resp.streams \in Seq(STRING)
  BY <1>2, TableScanAssumption, Zenon
<1>7. Len(resp.streams) <= MaxStreams
  BY <1>1, <1>6, SMT DEF IsValid, StreamLimit
<1>8. CASE c = Table
  <2>1. /\ kept.version = resp.version /\ kept.deadline = 0 /\ kept.expires = 0
        /\ kept.streams = <<>>
    BY <1>8, SMT DEF Kept, NoLease
  <2> QED BY <1>1, <1>5, <2>1, SMT
<1>9. CASE c # Table
  <2>1. /\ kept.version = resp.version /\ kept.deadline = started[c] + Lifetime
        /\ kept.expires = at + Lifetime /\ kept.streams = resp.streams
    BY <1>9, SMT DEF Kept, NoLease, ConservativeDeadline
  <2>2. /\ kept.deadline \in Nat /\ kept.expires \in Nat /\ kept.deadline <= kept.expires
    BY <1>1, <2>1, SMT
  <2>3. kept.version = PinnedVersion /\ kept.version \in Nat
    BY <1>5, <2>1, Zenon
  <2>4. kept.streams \in Seq(STRING) /\ Len(kept.streams) <= MaxStreams
    BY <1>6, <1>7, <2>1, Zenon
  <2> QED BY <2>2, <2>3, <2>4, SMT
<1> QED BY <1>8, <1>9

(* A session that is accepted is of the pinned version. *)
LEMMA SessionCreatedKeeps ==
  ASSUME IInv, NEW c \in Callers, SessionCreated(c) PROVE IInv'
<1>1. /\ pc[c] = "create" /\ TypeOK /\ PlacesTyped /\ ScansTyped /\ now \in Nat
      /\ started[c] \in Nat /\ started[c] <= now
      /\ c # Table => pc[Table] = "ready"
      /\ snapshot # None /\ snapshot \in Int
  BY Creating, Zenon DEF SessionCreated
<1>2. UNCHANGED <<now, tableVars, pinVars, query, read, copies>>
  BY Zenon DEF SessionCreated
<1>3. CASE Settle(c, "failed") /\ UNCHANGED lease
  <2>1. ScansTyped'
    BY <1>1, <1>2, <1>3, QuietScans, Zenon DEF scanVars
  <2> QED BY <1>1, <1>2, <1>3, <2>1, CreateFails, Zenon
<1>4. ASSUME NEW at \in started[c]..now, NEW resp \in Responses(c, at), NEW parts,
             IsValid(c, resp), Settle(c, "ready"),
             lease' = [lease EXCEPT ![c] = Kept(c, at, resp, parts)]
      PROVE  IInv'
  <2> DEFINE kept == Kept(c, at, resp, parts)
  <2>1. at \in Nat /\ started[c] <= at
    BY <1>1, SMT
  <2>2. commits \in Seq(Nat) /\ snapshot < ServerTime(started[c])
    BY <1>1, Zenon DEF TypeOK, IInv, PinInv
  <2>3. /\ kept.version = PinnedVersion
        /\ {kept.version, kept.deadline, kept.expires} \subseteq Nat
        /\ kept.streams \in Seq(STRING) /\ Len(kept.streams) <= MaxStreams
        /\ kept.deadline <= kept.expires
    BY <1>1, <1>4, <2>1, <2>2, KeptIsPinned
  <2>4. "ready" \in Places
    BY DEF Places
  <2>5. PlacesTyped' /\ Elsewhere(c) /\ pc'[c] = "ready" /\ started'[c] = 0
    BY <1>1, <1>4, <2>4, SettleMoves, Zenon
  <2>6. /\ DOMAIN lease' = Callers /\ lease'[c] = kept
        /\ \A e \in Callers : e # c => lease'[e] = lease[e]
    BY <1>1, <1>4, Zenon DEF ScansTyped, LeasesTyped
  <2> HIDE DEF kept
  <2>7. TypeOK'
    <3>1. LeasesTyped'
      BY <1>1, <2>3, <2>6, Zenon DEF ScansTyped, LeasesTyped
    <3>2. ScansTyped'
      BY <1>1, <1>2, <3>1, Zenon DEF ScansTyped
    <3>3. /\ now' \in Nat /\ commits' \in Seq(Nat) /\ reference' \in References
          /\ snapshot' \in Int \cup {None} /\ attempt' \in 1..ProbeAttempts
      BY <1>1, <1>2, Zenon DEF TypeOK, tableVars, pinVars
    <3> QED BY <2>5, <3>2, <3>3, TypeAgain, Zenon
  <2>8. AttemptInv'
    BY <1>2, <2>5, QuietAttempt, Zenon DEF pinVars
  <2>9. TimeInv'
    BY <1>1, <1>2, <2>5, SMT DEF IInv, TimeInv, Elsewhere
  <2>10. PinInv'
    BY <1>1, <1>2, <2>5, Zenon DEF IInv, PinInv, Elsewhere, pinVars, ServerTime
  <2>11. RetriesFit'
    BY <2>5, Zenon DEF IInv, RetriesFit, Elsewhere
  <2>12. DeadlineIsConservative'
    BY <2>3, <2>6, Zenon DEF IInv, DeadlineIsConservative
  <2>13. VersionInv'
    <3>1. PinnedVersion' = PinnedVersion
      BY <1>2, Zenon DEF PinnedVersion, AtSnapshot, tableVars, pinVars
    <3>2. pc'[Table] = "ready"
      <4>1. CASE c = Table
        BY <2>5, <4>1
      <4>2. CASE c # Table
        BY <1>1, <2>5, <4>2, TableIsNoScan, Zenon DEF Elsewhere
      <4> QED BY <4>1, <4>2
    <3>3. Discovered'.version = PinnedVersion
      <4>1. CASE c = Table
        BY <2>3, <2>6, <4>1, Zenon DEF Discovered
      <4>2. CASE c # Table
        BY <1>1, <2>6, <4>2, TableIsNoScan, Zenon DEF Discovered, IInv, VersionInv
      <4> QED BY <4>1, <4>2
    <3>4. ASSUME NEW s \in Scans, lease'[s] # NoLease
          PROVE  lease'[s].version = PinnedVersion
      <4>1. CASE s = c
        BY <2>3, <2>6, <4>1, Zenon
      <4>2. CASE s # c
        BY <2>6, <3>4, <4>2, TableIsNoScan, Zenon DEF IInv, VersionInv
      <4> QED BY <4>1, <4>2
    <3> QED BY <3>1, <3>2, <3>3, <3>4, Zenon DEF VersionInv
  <2> QED BY <2>7, <2>8, <2>9, <2>10, <2>11, <2>12, <2>13, Zenon DEF IInv
<1> QED BY <1>3, <1>4, Zenon DEF SessionCreated

------------------------------------------------------------------------------
(* Scans, and what happens around the command *)

(* A scan begins once the table is discovered. *)
LEMMA PlanScanKeeps ==
  ASSUME IInv, NEW s \in Scans, PlanScan(s) PROVE IInv'
<1>1. /\ PlacesTyped /\ ScansTyped /\ now \in Nat
      /\ pc[Table] = "ready" /\ snapshot # None
      /\ s \in Callers /\ s # Table
      /\ started[s] <= now
  BY TypeParts, TableIsNoScan, Zenon DEF IInv, PinInv, TimeInv, PlanScan
<1>2. UNCHANGED <<now, tableVars, snapshot, attempt, lease, read, copies>>
  BY Zenon DEF PlanScan, pinVars
<1>3. PICK q \in Queries :
        /\ query' = [query EXCEPT ![s] = q]
        /\ \/ Goto(s, "failed") /\ UNCHANGED timerVars
           \/ Open(s)
  BY Zenon DEF PlanScan
<1>4. ScansTyped'
  <2>1. query' \in [Scans -> Queries \cup {None}]
    BY <1>1, <1>3, SMT DEF ScansTyped
  <2> QED BY <1>1, <1>2, <2>1, Zenon DEF ScansTyped, LeasesTyped
<1>5. CASE Open(s)
  <2>1. /\ PlacesTyped' /\ Elsewhere(s) /\ pc'[s] = "create" /\ started'[s] = now
    BY <1>1, <1>5, OpenMoves, Zenon
  <2>2. attempt' \in 1..ProbeAttempts /\ AttemptInv'
    BY <1>1, <1>2, <2>1, QuietAttempt, Zenon
  <2>3. started'[s] <= now
    BY <1>1, <2>1, SMT
  <2> QED BY <1>1, <1>2, <1>4, <2>1, <2>2, <2>3, MoveKeeps, Zenon
<1>6. CASE Goto(s, "failed") /\ UNCHANGED timerVars
  <2>1. /\ PlacesTyped' /\ Elsewhere(s) /\ pc'[s] = "failed" /\ started'[s] = started[s]
    BY <1>1, <1>6, SMT DEF Goto, timerVars, PlacesTyped, Places, Elsewhere
  <2>2. attempt' \in 1..ProbeAttempts /\ AttemptInv'
    BY <1>1, <1>2, <2>1, QuietAttempt, Zenon
  <2>3. started'[s] <= now
    BY <1>1, <2>1, SMT
  <2> QED BY <1>1, <1>2, <1>4, <2>1, <2>2, <2>3, MoveKeeps, Zenon
<1> QED BY <1>3, <1>5, <1>6

(* Reading a partition changes no session. *)
LEMMA ExecutePartitionKeeps ==
  ASSUME IInv, NEW s \in Scans, ExecutePartition(s) PROVE IInv'
<1>1. /\ PlacesTyped /\ ScansTyped /\ now \in Nat /\ pc[s] = "ready"
      /\ s \in Callers /\ s # Table
      /\ started[s] <= now
  BY TypeParts, TableIsNoScan, Zenon DEF IInv, TimeInv, ExecutePartition
<1>2. UNCHANGED <<now, tableVars, snapshot, attempt, query, lease, timerVars>>
  BY Zenon DEF ExecutePartition, pinVars
<1>3. PICK p \in 1..PartitionCount(s), where \in {"ready", "done", "failed"} :
        /\ Goto(s, where)
        /\ \/ read' = [read EXCEPT ![s] = @ \cup {p}]
           \/ UNCHANGED read
        /\ \/ copies' = [copies EXCEPT ![s] = [r \in AllRows |->
                 @[r] + IF r \in DOMAIN lease[s].parts /\ lease[s].parts[r] = lease[s].streams[p]
                        THEN 1 ELSE 0]]
           \/ UNCHANGED copies
  BY SMT DEF ExecutePartition
<1>4. ScansTyped'
  <2>1. p \in 1..MaxStreams
    <3>1. lease[s].streams \in Seq(STRING) /\ Len(lease[s].streams) <= MaxStreams
      BY <1>1, Zenon DEF ScansTyped, LeasesTyped
    <3>2. MaxStreams \in Nat /\ MaxStreams > 0
      BY Numbers, Zenon
    <3>3. PartitionCount(s) \in Nat /\ PartitionCount(s) <= MaxStreams
      BY <3>1, <3>2, SMT DEF PartitionCount
    <3> QED BY <3>2, <3>3, SMT
  <2>2. read' \in [Scans -> SUBSET (1..MaxStreams)]
    BY <1>1, <1>3, <2>1, SMT DEF ScansTyped
  <2>3. copies' \in [Scans -> [AllRows -> Nat]]
    BY <1>1, <1>3, SMT DEF ScansTyped
  <2> QED BY <1>1, <1>2, <2>2, <2>3, Zenon DEF ScansTyped, LeasesTyped
<1>5. /\ PlacesTyped' /\ Elsewhere(s) /\ pc'[s] = where /\ started'[s] = started[s]
  BY <1>1, <1>2, <1>3, SMT DEF Goto, timerVars, PlacesTyped, Places, Elsewhere
<1>6. attempt' \in 1..ProbeAttempts /\ AttemptInv'
  BY <1>1, <1>2, <1>3, <1>5, QuietAttempt, Zenon
<1>7. started'[s] <= now /\ pc'[s] \notin {"create", "sleep"}
  BY <1>1, <1>3, <1>5, SMT
<1> QED BY <1>1, <1>2, <1>4, <1>5, <1>6, <1>7, MoveKeeps, Zenon

(* A commit is later than the snapshot and leaves the version at it. *)
LEMMA CommitKeeps ==
  ASSUME IInv, Commit PROVE IInv'
<1>1. /\ PlacesTyped /\ ScansTyped /\ now \in Nat /\ commits \in Seq(Nat)
      /\ reference \in References /\ snapshot \in Int \cup {None}
      /\ attempt \in 1..ProbeAttempts
  BY TypeParts, Zenon DEF IInv
<1>2. /\ UNCHANGED <<now, reference, snapshot, attempt, pc, timerVars, scanVars>>
      /\ commits' = Append(commits, ServerTime(now))
  BY Zenon DEF Commit, pinVars
<1>3. ServerTime(now) \in Nat
  BY <1>1, Numbers, SMT DEF ServerTime
<1>4. TypeOK'
  <2>1. PlacesTyped' /\ ScansTyped'
    BY <1>1, <1>2, QuietScans, Zenon DEF PlacesTyped, timerVars
  <2>2. commits' \in Seq(Nat)
    BY <1>1, <1>2, <1>3, SMT
  <2> QED BY <1>1, <1>2, <2>1, <2>2, TypeAgain, Zenon
<1>5. AttemptInv' /\ TimeInv' /\ PinInv' /\ RetriesFit'
  BY <1>2, Zenon DEF IInv, AttemptInv, TimeInv, PinInv, RetriesFit, timerVars, ServerTime
<1>6. DeadlineIsConservative'
  BY <1>2, QuietPromises, Zenon DEF IInv, scanVars
<1>7. snapshot # None => PinnedVersion' = PinnedVersion
  <2> SUFFICES ASSUME snapshot # None PROVE AtSnapshot' = AtSnapshot
    BY Zenon DEF PinnedVersion
  <2>1. snapshot \in Int /\ snapshot < ServerTime(now)
    BY <1>1, Zenon DEF IInv, PinInv
  <2>2. /\ Len(commits) \in Nat /\ DOMAIN commits = 1..Len(commits)
        /\ DOMAIN commits' = 1..(Len(commits) + 1)
        /\ commits'[Len(commits) + 1] = ServerTime(now)
        /\ \A i \in 1..Len(commits) : commits'[i] = commits[i]
    BY <1>1, <1>2, <1>3, SMT
  <2>3. ~(commits'[Len(commits) + 1] <= snapshot)
    BY <1>3, <2>1, <2>2, SMT
  <2>4. ASSUME NEW i PROVE i \in AtSnapshot' <=> i \in AtSnapshot
    <3>1. i \in 1..(Len(commits) + 1) <=> i \in 1..Len(commits) \/ i = Len(commits) + 1
      BY <2>2, SMT
    <3>2. snapshot' = snapshot
      BY <1>2
    <3>3. i = Len(commits) + 1 => i \notin 1..Len(commits)
      BY <2>2, SMT
    <3> QED BY <2>2, <2>3, <3>1, <3>2, <3>3, Zenon DEF AtSnapshot
  <2> QED BY <2>4, Zenon
<1>8. VersionInv'
  <2>1. pc' = pc /\ lease' = lease /\ Discovered' = Discovered
    BY <1>2, Zenon DEF scanVars, Discovered
  <2>2. pc[Table] = "ready" => snapshot # None
    BY Zenon DEF IInv, PinInv
  <2> QED BY <1>7, <2>1, <2>2, Zenon DEF IInv, VersionInv
<1> QED BY <1>4, <1>5, <1>6, <1>8 DEF IInv

(* The clock only adds to the age of attempts. *)
LEMMA TickKeeps ==
  ASSUME IInv, Tick PROVE IInv'
<1>1. /\ PlacesTyped /\ ScansTyped /\ now \in Nat /\ commits \in Seq(Nat)
      /\ reference \in References /\ snapshot \in Int \cup {None}
      /\ attempt \in 1..ProbeAttempts
  BY TypeParts, Zenon DEF IInv
<1>2. /\ UNCHANGED <<commits, reference, snapshot, attempt, pc, timerVars, scanVars>>
      /\ now' = now + 1
  BY Zenon DEF Tick, tableVars, pinVars
<1>3. TypeOK'
  <2>1. PlacesTyped' /\ ScansTyped'
    BY <1>1, <1>2, QuietScans, Zenon DEF PlacesTyped, timerVars
  <2>2. now' \in Nat
    BY <1>1, <1>2, SMT
  <2> QED BY <1>1, <1>2, <2>1, <2>2, TypeAgain, Zenon
<1>4. AttemptInv' /\ RetriesFit'
  BY <1>2, Zenon DEF IInv, AttemptInv, RetriesFit, timerVars
<1>5. TimeInv'
  BY <1>1, <1>2, SMT DEF IInv, TimeInv, PlacesTyped, timerVars
<1>6. PinInv'
  <2>1. snapshot # None => snapshot < ServerTime(now')
    BY <1>1, <1>2, Numbers, SMT DEF IInv, PinInv, ServerTime
  <2> QED BY <1>2, <2>1, Zenon DEF IInv, PinInv, timerVars, ServerTime
<1>7. VersionInv'
  BY <1>2, QuietVersions, Zenon DEF IInv, scanVars
<1>8. DeadlineIsConservative'
  BY <1>2, QuietPromises, Zenon DEF IInv, scanVars
<1> QED BY <1>3, <1>4, <1>5, <1>6, <1>7, <1>8 DEF IInv

(* A step of somebody else. *)
LEMMA StutterKeeps ==
  ASSUME IInv, UNCHANGED vars PROVE IInv'
<1>1. /\ UNCHANGED <<now, commits, reference, snapshot, attempt, pc, timerVars, scanVars>>
  BY Zenon DEF vars, tableVars, pinVars
<1>2. TypeOK'
  <2>1. PlacesTyped /\ ScansTyped /\ TypeOK
    BY TypeParts, Zenon DEF IInv
  <2>2. PlacesTyped' /\ ScansTyped'
    BY <1>1, <2>1, QuietScans, Zenon DEF PlacesTyped, timerVars
  <2> QED BY <1>1, <2>1, <2>2, TypeAgain, Zenon DEF TypeOK
<1>3. AttemptInv' /\ TimeInv' /\ PinInv' /\ RetriesFit'
  BY <1>1, Zenon DEF IInv, AttemptInv, TimeInv, PinInv, RetriesFit, timerVars, ServerTime
<1>4. VersionInv'
  BY <1>1, QuietVersions, Zenon DEF IInv, scanVars
<1>5. DeadlineIsConservative'
  BY <1>1, QuietPromises, Zenon DEF IInv, scanVars
<1> QED BY <1>2, <1>3, <1>4, <1>5 DEF IInv

------------------------------------------------------------------------------
(***************************************************************************)
(* What a scan answers.  A lease that a scan was given serves its query:   *)
(* each row that the argument and the pushed filters keep is in one of its *)
(* streams, and has come out if that stream was read.                      *)
(***************************************************************************)

(* The rows of a version that a session with the pushed filters reads. *)
PushedRows(schema, q, version) ==
  {r \in Versions[version].rows \cap Explicit :
     \A f \in Restriction(schema, Pushed(schema, q.filters)) : r \in f.keeps}

(* Lease l is for query q of a table with this schema. *)
Serves(schema, q, l) ==
  /\ l.schema = Selection(schema, SelectedFields(schema, q))
  /\ IsInjective(l.streams)
  /\ l.parts \in [PushedRows(schema, q, l.version) -> ToSet(l.streams)]

(* Row r is in the partitions that were read. *)
Came(l, done, r) == r \in DOMAIN l.parts /\ \E p \in done : l.parts[r] = l.streams[p]

(* Each row came out once, if it did. *)
Counted(l, done, counts) ==
  \A r \in AllRows : counts[r] = IF Came(l, done, r) THEN 1 ELSE 0

(* Where a scan stands, and what it has. *)
ScanAt(s) ==
  /\ pc[s] \in {"start", "create", "sleep"} =>
       read[s] = {} /\ \A r \in AllRows : copies[s][r] = 0
  /\ pc[s] \in {"create", "sleep", "ready", "done"} => InBounds(Discovered.schema, query[s])
  /\ pc[s] \in {"ready", "done"} =>
       /\ lease[s] # NoLease
       /\ Serves(Discovered.schema, query[s], lease[s])
       /\ Counted(lease[s], read[s], copies[s])
       /\ read[s] \subseteq 1..PartitionCount(s)
  /\ pc[s] = "done" => read[s] = 1..PartitionCount(s)

ScanInv ==
  /\ Len(commits) < Len(Versions)
  /\ pc[Table] = "ready" => Discovered.schema \in Seq(Columns)
  /\ \A s \in Scans : ScanAt(s)

(* The elements of a schema that are selected are in the selection. *)
LEMMA Selected ==
  ASSUME NEW schema \in Seq(Columns), NEW fields
  PROVE  /\ Selection(schema, fields) \in Seq(Columns)
         /\ \A i \in DOMAIN schema : fields = {} \/ schema[i].name \in fields =>
              \E j \in DOMAIN Selection(schema, fields) :
                Selection(schema, fields)[j] = schema[i]
<1> DEFINE ss == [i \in DOMAIN schema |->
             IF fields = {} \/ schema[i].name \in fields THEN <<schema[i]>> ELSE <<>>]
<1>1. ss \in Seq(Seq(Columns)) /\ DOMAIN ss = DOMAIN schema /\ DOMAIN schema = 1..Len(ss)
  <2>1. DOMAIN schema = 1..Len(schema) /\ Len(schema) \in Nat
    OBVIOUS
  <2>2. \A i \in DOMAIN schema : ss[i] \in Seq(Columns)
    <3>1. TAKE i \in DOMAIN schema
    <3>2. schema[i] \in Columns
      OBVIOUS
    <3>3. <<>> \in Seq(Columns) /\ <<schema[i]>> \in Seq(Columns)
      BY <3>2
    <3> QED BY <3>3
  <2>3. DOMAIN ss = DOMAIN schema /\ ss = [i \in 1..Len(schema) |-> ss[i]]
    BY <2>1
  <2> HIDE DEF ss
  <2>4. ss \in [1..Len(schema) -> Seq(Columns)]
    BY <2>1, <2>2, <2>3
  <2>5. ss \in Seq(Seq(Columns)) /\ Len(ss) = Len(schema)
    BY <2>1, <2>4
  <2> QED BY <2>1, <2>3, <2>5
<1>2. \A i \in DOMAIN schema : fields = {} \/ schema[i].name \in fields => ss[i] = <<schema[i]>>
  OBVIOUS
<1>3. Selection(schema, fields) = FlattenSeq(ss)
  BY Zenon DEF Selection
<1> HIDE DEF ss
<1>4. /\ FlattenSeq(ss) \in Seq(Columns)
      /\ \A i \in 1..Len(ss) : Among(ss[i], FlattenSeq(ss))
  BY <1>1, FlattenKeeps
<1>5. ASSUME NEW i \in DOMAIN schema, fields = {} \/ schema[i].name \in fields
      PROVE  \E j \in DOMAIN FlattenSeq(ss) : FlattenSeq(ss)[j] = schema[i]
  <2>1. ss[i] = <<schema[i]>>
    BY <1>2, <1>5
  <2>2. Among(ss[i], FlattenSeq(ss))
    BY <1>1, <1>4
  <2>3. 1 \in 1..Len(ss[i]) /\ ss[i][1] = schema[i]
    BY <2>1
  <2>4. \E j \in 1..Len(FlattenSeq(ss)) : FlattenSeq(ss)[j] = ss[i][1]
    BY <2>2, <2>3 DEF Among
  <2>5. DOMAIN FlattenSeq(ss) = 1..Len(FlattenSeq(ss))
    BY <1>4
  <2> QED BY <2>3, <2>4, <2>5
<1> QED BY <1>3, <1>4, <1>5

(* The columns come out as the plan has them, wherever the server put them. *)
LEMMA ColumnsInPlace ==
  ASSUME NEW schema \in Seq(Columns), NEW q, InBounds(schema, q)
  PROVE  LET returned   == Selection(schema, SelectedFields(schema, q))
             output     == OutputSchema(schema, q)
             projection == BatchProjection(returned, output)
         IN  [i \in DOMAIN output |-> returned[projection[i]]] = output
<1> DEFINE returned   == Selection(schema, SelectedFields(schema, q))
           output     == OutputSchema(schema, q)
           projection == BatchProjection(returned, output)
<1>1. output = [i \in DOMAIN output |-> output[i]]
  <2>1. CASE q.projection = None
    <3>1. output = schema
      BY <2>1 DEF OutputSchema
    <3>2. schema = [i \in DOMAIN schema |-> schema[i]]
      OBVIOUS
    <3> QED BY <3>1, <3>2
  <2>2. CASE q.projection # None
    BY <2>2 DEF OutputSchema
  <2> QED BY <2>1, <2>2
<1>2. ASSUME NEW i \in DOMAIN output
      PROVE  \E j \in DOMAIN returned : returned[j] = output[i]
  <2>1. CASE q.projection = None
    <3>1. output[i] = schema[i] /\ i \in DOMAIN schema /\ SelectedFields(schema, q) = {}
      BY <2>1 DEF OutputSchema, SelectedFields
    <3> QED BY <3>1, Selected
  <2>2. CASE q.projection # None
    <3> DEFINE k == q.projection[i]
    <3>1. output = [n \in DOMAIN q.projection |-> schema[q.projection[n]]]
      BY <2>2 DEF OutputSchema
    <3>2. i \in DOMAIN q.projection /\ output[i] = schema[k]
      BY <3>1
    <3>3. k \in DOMAIN schema
      BY <2>2, <3>2 DEF InBounds, ToSet
    <3>4. q.projection # <<>>
      BY <3>2
    <3>5. SelectedFields(schema, q) = {schema[q.projection[n]].name : n \in DOMAIN q.projection}
      BY <2>2, <3>4 DEF SelectedFields
    <3>6. schema[k].name \in SelectedFields(schema, q)
      BY <3>2, <3>5
    <3> HIDE DEF k
    <3> QED BY <3>2, <3>3, <3>6, Selected
  <2> QED BY <2>1, <2>2
<1>3. projection = [i \in DOMAIN output |-> CHOOSE j \in DOMAIN returned : returned[j] = output[i]]
  BY Zenon DEF BatchProjection
<1> HIDE DEF returned, output, projection
<1>4. \A i \in DOMAIN output : returned[projection[i]] = output[i]
  BY <1>2, <1>3
<1>5. [i \in DOMAIN output |-> returned[projection[i]]] = output
  BY <1>1, <1>4
<1> QED BY <1>5 DEF returned, output, projection

(* The versions are numbered from 1, and there is one for each commit and more. *)
LEMMA VersionsNumbered ==
  DOMAIN Versions = 1..Len(Versions) /\ Len(Versions) \in Nat /\ ~(0 \in DOMAIN Versions)
<1>1. Versions \in Seq(ToSet(Versions))
  BY TableScanAssumption
<1> QED BY <1>1

(* Whatever the commits that count, the version is one of the table's. *)
LEMMA CountIsVersion ==
  ASSUME commits \in Seq(Nat), Len(commits) < Len(Versions), NEW S, S \subseteq DOMAIN commits
  PROVE  1 + Cardinality(S) \in DOMAIN Versions
<1>1. DOMAIN commits = 1..Len(commits) /\ Len(commits) \in Nat
  OBVIOUS
<1>2. IsFiniteSet(DOMAIN commits) /\ Cardinality(DOMAIN commits) = Len(commits)
  <2> DEFINE l == Len(commits)
  <2>1. l \in Nat
    BY <1>1
  <2> HIDE DEF l
  <2>2. 1 \in Int /\ l \in Int
    BY <2>1
  <2>3. Cardinality(1..l) = IF 1 > l THEN 0 ELSE l - 1 + 1
    BY <2>2, FS_Interval
  <2>4. IsFiniteSet(1..l)
    BY <2>2, FS_Interval
  <2>5. Cardinality(1..l) = l
    BY <2>1, <2>3
  <2> QED BY <1>1, <2>4, <2>5 DEF l
<1>3. Cardinality(S) \in Nat /\ Cardinality(S) <= Len(commits)
  BY <1>2, FS_Subset, FS_CardinalityType
<1> QED BY <1>1, <1>3, VersionsNumbered

(* The version at the snapshot is one of the table's. *)
LEMMA PinnedIsVersion ==
  ASSUME commits \in Seq(Nat), Len(commits) < Len(Versions)
  PROVE  PinnedVersion \in DOMAIN Versions
<1>1. AtSnapshot \subseteq DOMAIN commits
  BY DEF AtSnapshot
<1> QED BY <1>1, CountIsVersion DEF PinnedVersion

(* What the server reads is a version of the table. *)
LEMMA VersionExists ==
  ASSUME commits \in Seq(Nat), Len(commits) < Len(Versions), NEW t, NEW at
  PROVE  VersionAt(t, at) \in DOMAIN Versions
<1>1. {i \in DOMAIN commits : commits[i] <= t /\ commits[i] <= at} \subseteq DOMAIN commits
  OBVIOUS
<1> QED BY <1>1, CountIsVersion, Zenon DEF VersionAt

(* A finished scan answers its query. *)
LEMMA ScanAnswered ==
  ASSUME IInv, ScanInv, NEW s \in Scans, pc[s] = "done"
  PROVE  /\ LET output     == OutputSchema(Discovered.schema, query[s])
                projection == BatchProjection(lease[s].schema, output)
            IN  [i \in DOMAIN output |-> lease[s].schema[projection[i]]] = output
         /\ Emitted(s) = {r \in Versions[Discovered.version].rows \cap Explicit :
                           \A f \in query[s].filters : r \in f.keeps}
         /\ \A r \in AllRows : copies[s][r] <= 1
<1> DEFINE schema == Discovered.schema
           q == query[s]
           l == lease[s]
           v == Discovered.version
<1>1. /\ InBounds(schema, q) /\ Serves(schema, q, l) /\ l # NoLease
      /\ Counted(l, read[s], copies[s]) /\ read[s] = 1..PartitionCount(s)
  BY Zenon DEF ScanInv, ScanAt
<1>2. pc[Table] = "ready" /\ v = PinnedVersion /\ l.version = v
  BY <1>1, Zenon DEF IInv, VersionInv
<1>3. schema \in Seq(Columns)
  BY <1>2, Zenon DEF ScanInv
<1>4. v \in DOMAIN Versions
  BY <1>2, PinnedIsVersion, Zenon DEF IInv, TypeOK, ScanInv
<1>5. l.streams \in Seq(STRING)
  BY TableIsNoScan, Zenon DEF IInv, TypeOK
<1>6. PartitionCount(s) = IF l.streams = <<>> THEN 1 ELSE Len(l.streams)
  BY DEF PartitionCount
<1>7. l.schema = Selection(schema, SelectedFields(schema, q))
  BY <1>1, Zenon DEF Serves
<1>8. l.parts \in [PushedRows(schema, q, v) -> ToSet(l.streams)]
  BY <1>1, <1>2, Zenon DEF Serves
<1> HIDE DEF schema, q, l, v
<1>9. \A r \in AllRows : copies[s][r] <= 1 /\ (copies[s][r] > 0 <=> Came(l, read[s], r))
  BY <1>1 DEF Counted
<1>10. \A r : Came(l, read[s], r) <=> r \in PushedRows(schema, q, v)
  <2>1. ASSUME NEW r \in PushedRows(schema, q, v)
        PROVE  \E p \in read[s] : l.parts[r] = l.streams[p]
    <3>1. l.parts[r] \in ToSet(l.streams)
      BY <1>8
    <3>2. PICK p \in DOMAIN l.streams : l.streams[p] = l.parts[r]
      BY <3>1 DEF ToSet
    <3>3. DOMAIN l.streams = 1..Len(l.streams) /\ l.streams # <<>>
      BY <1>5, <3>2
    <3>4. p \in read[s]
      BY <1>1, <1>6, <3>2, <3>3
    <3> QED BY <3>2, <3>4
  <2>2. DOMAIN l.parts = PushedRows(schema, q, v)
    BY <1>8
  <2> QED BY <2>1, <2>2, Zenon DEF Came
<1>11. Versions[v].rows \subseteq AllRows
  BY <1>4, Zenon DEF AllRows
<1>12. Restriction(schema, Pushed(schema, q.filters)) = Pushed(schema, q.filters)
  BY DEF Restriction, Pushed
<1>13. Pushed(schema, q.filters) \subseteq q.filters
  BY DEF Pushed
<1>14. Emitted(s) = {r \in AllRows : r \in PushedRows(schema, q, v) /\
                       \A f \in q.filters \ Pushed(schema, q.filters) : r \in f.keeps}
  <2>1. Emitted(s) = {r \in AllRows : copies[s][r] > 0 /\
                       \A f \in q.filters \ Pushed(schema, q.filters) : r \in f.keeps}
    BY Zenon DEF Emitted, schema, q
  <2> QED BY <2>1, <1>9, <1>10, Zenon
<1>15. Emitted(s) = {r \in Versions[v].rows \cap Explicit : \A f \in q.filters : r \in f.keeps}
  <2> DEFINE P == Pushed(schema, q.filters)
  <2>1. \A r : r \in PushedRows(schema, q, v) <=>
          r \in Versions[v].rows /\ r \in Explicit /\ \A f \in P : r \in f.keeps
    BY <1>12, Zenon DEF PushedRows
  <2>2. P \subseteq q.filters
    BY <1>13
  <2>3. Emitted(s) = {r \in AllRows : r \in PushedRows(schema, q, v) /\
                       \A f \in q.filters \ P : r \in f.keeps}
    BY <1>14
  <2> HIDE DEF P
  <2> QED BY <1>11, <2>1, <2>2, <2>3, Zenon
<1>16. LET output     == OutputSchema(schema, q)
           projection == BatchProjection(l.schema, output)
       IN  [i \in DOMAIN output |-> l.schema[projection[i]]] = output
  BY <1>1, <1>3, <1>7, ColumnsInPlace
<1> QED BY <1>9, <1>15, <1>16, Zenon DEF schema, q, l, v

(* A step that leaves scan s and the discovered schema alone. *)
Unmoved(s) ==
  /\ pc'[s] = pc[s] /\ query'[s] = query[s] /\ lease'[s] = lease[s]
  /\ read'[s] = read[s] /\ copies'[s] = copies[s]

(* Nothing that a scan relies on changes when others move. *)
LEMMA UnmovedScan ==
  ASSUME NEW s \in Scans, ScanAt(s), Unmoved(s),
         lease'[Table] = lease[Table] \/ pc[s] = "start"
  PROVE  ScanAt(s)'
<1>1. PartitionCount(s)' = PartitionCount(s)
  BY Zenon DEF PartitionCount, Unmoved
<1>2. CASE lease'[Table] = lease[Table]
  <2>1. Discovered' = Discovered
    BY <1>2, Zenon DEF Discovered
  <2> QED BY <1>1, <2>1, Zenon DEF ScanAt, Unmoved
<1>3. CASE pc[s] = "start"
  BY <1>3 DEF ScanAt, Unmoved
<1> QED BY <1>2, <1>3

(* A step that only moves c, and to no place where it has a session. *)
LEMMA ScansWait ==
  ASSUME ScanInv, PlacesTyped, NEW c \in Callers, NEW where \in Places, Goto(c, where),
         where \notin {"start", "ready", "done"},
         c # Table => pc[c] \in {"create", "sleep"},
         UNCHANGED <<commits, scanVars>>
  PROVE  ScanInv'
<1>1. /\ pc'[c] = where /\ \A e \in Callers : e # c => pc'[e] = pc[e]
      /\ UNCHANGED <<query, lease, read, copies>>
  BY Zenon DEF PlacesTyped, Goto, scanVars
<1>2. Discovered' = Discovered /\ (pc'[Table] = "ready" => pc[Table] = "ready")
  BY <1>1, TableIsNoScan, Zenon DEF Discovered
<1>3. ASSUME NEW s \in Scans PROVE ScanAt(s)'
  <2>1. ScanAt(s) /\ s \in Callers /\ s # Table
    BY TableIsNoScan, Zenon DEF ScanInv
  <2>2. CASE s = c
    <3>1. pc[s] \in {"create", "sleep"} /\ pc'[s] = where
      BY <1>1, <2>1, <2>2
    <3> QED BY <1>1, <1>2, <2>1, <3>1 DEF ScanAt
  <2>3. CASE s # c
    BY <1>1, <2>1, <2>3, UnmovedScan, Zenon DEF Unmoved
  <2> QED BY <2>2, <2>3
<1> QED BY <1>1, <1>2, <1>3, Zenon DEF ScanInv

(* While the snapshot is pinned, no scan moves. *)
LEMMA PinScans ==
  ASSUME IInv, ScanInv, Pin PROVE ScanInv'
<1>1. PlacesTyped
  BY TypeParts, Zenon DEF IInv
<1>2. \E where \in {"create", "probe", "probe_sleep", "failed"} :
        Goto(Table, where) /\ UNCHANGED <<commits, scanVars>>
  BY Zenon DEF Pin, CreateProvider, ProbeAnswered, ProbeMissed, ProbeTimeout, ProbeWake,
               ProbeAgain, Open, Sleep, Settle, tableVars
<1> QED BY <1>1, <1>2, ScansWait, TableIsNoScan DEF Places

(* What a session serves that was made for a scan as asked. *)
LEMMA SessionServes ==
  ASSUME NEW s \in Scans, NEW at, NEW resp, IsValid(s, resp), SchemaHeld(s, resp.schema),
         NEW parts \in [ServedRows(s, resp.version) -> ToSet(resp.streams)]
  PROVE  Serves(Discovered.schema, query[s], Kept(s, at, resp, parts))
<1> DEFINE kept == Kept(s, at, resp, parts)
<1>1. s # Table
  BY TableIsNoScan, Zenon
<1>2. /\ kept.schema = resp.schema /\ kept.streams = resp.streams
      /\ kept.parts = parts /\ kept.version = resp.version
  BY <1>1 DEF Kept, NoLease
<1>3. resp.schema = Selection(Discovered.schema, SelectedFields(Discovered.schema, query[s]))
  BY <1>1, Zenon DEF SchemaHeld, Fields
<1>4. IsInjective(resp.streams)
  BY Zenon DEF IsValid
<1>5. ServedRows(s, resp.version) = PushedRows(Discovered.schema, query[s], resp.version)
  BY <1>1, Zenon DEF ServedRows, PushedRows, RequestedRestriction
<1> HIDE DEF kept
<1> QED BY <1>2, <1>3, <1>4, <1>5, Zenon DEF Serves, kept

(* The schema that the provider discovers is one of columns. *)
LEMMA DiscoveredSchema ==
  ASSUME commits \in Seq(Nat), Len(commits) < Len(Versions), NEW at,
         NEW resp \in Responses(Table, at)
  PROVE  resp.schema \in Seq(Columns)
<1>1. PICK v \in {VersionAt(snapshot, ServerTime(at)), VersionAt(ServerTime(at), ServerTime(at))} :
        resp.schema = Selection(Versions[v].schema, {})
  BY SMT DEF Responses, Fields
<1>2. v \in DOMAIN Versions
  BY <1>1, VersionExists
<1>3. Versions[v].schema \in Seq(Columns)
  BY <1>2, TableScanAssumption
<1> QED BY <1>1, <1>3, Selected

(* A session that a scan accepts serves its query. *)
LEMMA SessionScans ==
  ASSUME IInv, ScanInv, NEW c \in Callers, SessionCreated(c) PROVE ScanInv'
<1>1. /\ pc[c] = "create" /\ TypeOK /\ PlacesTyped /\ ScansTyped /\ now \in Nat
      /\ started[c] \in Nat /\ started[c] <= now
      /\ c # Table => pc[Table] = "ready"
      /\ snapshot # None /\ snapshot \in Int
  BY Creating, Zenon DEF SessionCreated
<1>2. UNCHANGED <<commits, query, read, copies>>
  BY Zenon DEF SessionCreated, tableVars
<1>3. CASE Settle(c, "failed") /\ UNCHANGED lease
  <2>1. Goto(c, "failed") /\ UNCHANGED <<commits, scanVars>> /\ "failed" \in Places
    BY <1>2, <1>3 DEF Settle, scanVars, Places
  <2> QED BY <1>1, <2>1, ScansWait
<1>4. ASSUME NEW at \in started[c]..now, NEW resp \in Responses(c, at),
             NEW parts \in [ServedRows(c, resp.version) -> ToSet(resp.streams)],
             IsValid(c, resp), SchemaHeld(c, resp.schema), Settle(c, "ready"),
             lease' = [lease EXCEPT ![c] = Kept(c, at, resp, parts)]
      PROVE  ScanInv'
  <2> DEFINE kept == Kept(c, at, resp, parts)
  <2>1. at \in Nat /\ started[c] <= at
    BY <1>1, SMT
  <2>2. commits \in Seq(Nat) /\ snapshot < ServerTime(started[c]) /\ Len(commits) < Len(Versions)
    BY <1>1, Zenon DEF TypeOK, IInv, PinInv, ScanInv
  <2>3. kept.version = PinnedVersion
    BY <1>1, <1>4, <2>1, <2>2, KeptIsPinned
  <2>4. kept # NoLease
    <3>1. PinnedVersion # 0
      BY <2>2, PinnedIsVersion, VersionsNumbered
    <3>2. NoLease.version = 0
      BY DEF NoLease
    <3> HIDE DEF kept
    <3> QED BY <2>3, <3>1, <3>2
  <2>5. pc'[c] = "ready" /\ \A e \in Callers : e # c => pc'[e] = pc[e]
    BY <1>1, <1>4, Zenon DEF Settle, Goto, PlacesTyped
  <2>6. lease'[c] = kept /\ \A e \in Callers : e # c => lease'[e] = lease[e]
    BY <1>1, <1>4, Zenon DEF ScansTyped, LeasesTyped
  <2>7. c = Table => kept.schema \in Seq(Columns)
    <3> SUFFICES ASSUME c = Table PROVE kept.schema \in Seq(Columns)
      OBVIOUS
    <3>1. kept.schema = resp.schema
      BY DEF Kept, NoLease
    <3> QED BY <1>4, <2>2, <3>1, DiscoveredSchema
  <2>8. c \in Scans => Serves(Discovered.schema, query[c], kept)
    BY <1>4, SessionServes
  <2> HIDE DEF kept
  <2>9. pc'[Table] = "ready" => Discovered'.schema \in Seq(Columns)
    <3>1. CASE c = Table
      BY <2>6, <2>7, <3>1, Zenon DEF Discovered
    <3>2. CASE c # Table
      BY <1>1, <2>6, <3>2, TableIsNoScan, Zenon DEF Discovered, ScanInv
    <3> QED BY <3>1, <3>2
  <2>10. ASSUME NEW s \in Scans PROVE ScanAt(s)'
    <3>1. ScanAt(s) /\ s \in Callers /\ s # Table
      BY TableIsNoScan, Zenon DEF ScanInv
    <3>2. CASE s = c
      <4>1. Discovered' = Discovered
        BY <2>6, <3>1, <3>2, TableIsNoScan, Zenon DEF Discovered
      <4>2. read[s] = {} /\ (\A r \in AllRows : copies[s][r] = 0)
            /\ InBounds(Discovered.schema, query[s])
        BY <1>1, <3>1, <3>2 DEF ScanAt
      <4>3. Counted(kept, read[s], copies[s]) /\ read[s] \subseteq 1..PartitionCount(s)'
        BY <4>2 DEF Counted, Came
      <4>4. Serves(Discovered.schema, query[s], kept)
        BY <2>8, <3>2
      <4>5. pc'[s] = "ready" /\ lease'[s] = kept
        BY <2>5, <2>6, <3>2
      <4>6. query'[s] = query[s] /\ read'[s] = read[s] /\ copies'[s] = copies[s]
        BY <1>2
      <4> QED BY <2>4, <4>1, <4>2, <4>3, <4>4, <4>5, <4>6 DEF ScanAt
    <3>3. CASE s # c
      <4>1. Unmoved(s)
        BY <1>2, <2>5, <2>6, <3>1, <3>3, Zenon DEF Unmoved
      <4>2. c = Table => pc[s] = "start"
        BY <1>1, Zenon DEF IInv, VersionInv
      <4>3. c # Table => lease'[Table] = lease[Table]
        BY <2>6, TableIsNoScan, Zenon
      <4> QED BY <3>1, <4>1, <4>2, <4>3, UnmovedScan, Zenon
    <3> QED BY <3>2, <3>3
  <2> QED BY <1>2, <2>2, <2>9, <2>10, Zenon DEF ScanInv
<1> QED BY <1>3, <1>4, Zenon DEF SessionCreated

(* The steps of opening a session, and their failures. *)
LEMMA CreateScans ==
  ASSUME IInv, ScanInv, NEW c \in Callers, Create(c) PROVE ScanInv'
<1>1. CASE SessionCreated(c)
  BY <1>1, SessionScans
<1>2. CASE ~SessionCreated(c)
  <2>1. PlacesTyped
    BY TypeParts, Zenon DEF IInv
  <2>2. pc[c] \in {"create", "sleep"} /\ UNCHANGED <<commits, scanVars>>
    BY <1>2, Zenon DEF Create, CreateUnavailable, CreateRefused, CreateTimeout, CreateWake,
                       CreateAgain, tableVars
  <2>3. \E where \in {"create", "sleep", "failed"} : Goto(c, where)
    BY <1>2, Zenon DEF Create, CreateUnavailable, CreateRefused, CreateTimeout, CreateWake,
                       CreateAgain, Sleep, Settle
  <2> QED BY <2>1, <2>2, <2>3, ScansWait DEF Places
<1> QED BY <1>1, <1>2

(* A scan that is planned has read nothing yet. *)
LEMMA PlanScans ==
  ASSUME IInv, ScanInv, NEW s \in Scans, PlanScan(s) PROVE ScanInv'
<1>1. PlacesTyped /\ ScansTyped /\ s \in Callers /\ s # Table /\ pc[s] = "start"
  BY TypeParts, TableIsNoScan, Zenon DEF IInv, PlanScan
<1>2. UNCHANGED <<commits, lease, read, copies>>
  BY Zenon DEF PlanScan, tableVars
<1>3. PICK q \in Queries, where \in {"create", "failed"} :
        /\ query' = [query EXCEPT ![s] = q]
        /\ Goto(s, where)
        /\ where = "create" => InBounds(Discovered.schema, q)
  BY Zenon DEF PlanScan, Open
<1>4. /\ query'[s] = q /\ \A e \in Scans : e # s => query'[e] = query[e]
      /\ pc'[s] = where /\ \A e \in Callers : e # s => pc'[e] = pc[e]
  BY <1>1, <1>3, Zenon DEF ScansTyped, PlacesTyped, Goto
<1>5. Discovered' = Discovered /\ (pc'[Table] = "ready" => pc[Table] = "ready")
  BY <1>1, <1>2, <1>4, TableIsNoScan, Zenon DEF Discovered
<1>6. ASSUME NEW e \in Scans PROVE ScanAt(e)'
  <2>1. ScanAt(e) /\ e \in Callers
    BY TableIsNoScan, Zenon DEF ScanInv
  <2>2. CASE e = s
    BY <1>1, <1>2, <1>3, <1>4, <1>5, <2>1, <2>2 DEF ScanAt
  <2>3. CASE e # s
    BY <1>2, <1>4, <2>1, <2>3, UnmovedScan, Zenon DEF Unmoved
  <2> QED BY <2>2, <2>3
<1> QED BY <1>2, <1>5, <1>6, Zenon DEF ScanInv

(* One more partition that was not read yet gives each row one more time, and
   the rows of different partitions differ. *)
LEMMA CountedOnce ==
  ASSUME NEW schema, NEW q, NEW l, Serves(schema, q, l), l.streams \in Seq(STRING),
         NEW done, NEW n, n = IF l.streams = <<>> THEN 1 ELSE Len(l.streams),
         done \subseteq 1..n, NEW p \in (1..n) \ done,
         NEW counts, NEW after, Counted(l, done, counts),
         \A r \in AllRows : after[r] = counts[r] +
           IF r \in DOMAIN l.parts /\ l.parts[r] = l.streams[p] THEN 1 ELSE 0
  PROVE  Counted(l, done \cup {p}, after)
<1> SUFFICES ASSUME NEW r \in AllRows
             PROVE  after[r] = IF Came(l, done \cup {p}, r) THEN 1 ELSE 0
  BY Zenon DEF Counted
<1>1. counts[r] = IF Came(l, done, r) THEN 1 ELSE 0
  BY Zenon DEF Counted
<1> DEFINE Now == r \in DOMAIN l.parts /\ l.parts[r] = l.streams[p]
<1>2. after[r] = counts[r] + IF Now THEN 1 ELSE 0
  OBVIOUS
<1>3. Came(l, done \cup {p}, r) <=> Came(l, done, r) \/ Now
  BY Zenon DEF Came
<1>4. ~(Came(l, done, r) /\ Now)
  <2> SUFFICES ASSUME Came(l, done, r), Now PROVE FALSE
    OBVIOUS
  <2>1. PICK o \in done : l.parts[r] = l.streams[o]
    BY DEF Came
  <2>2. l.parts[r] \in ToSet(l.streams)
    BY DEF Serves
  <2>3. l.streams # <<>>
    <3>1. PICK i \in DOMAIN l.streams : TRUE
      BY <2>2 DEF ToSet
    <3>2. DOMAIN l.streams = 1..Len(l.streams)
      OBVIOUS
    <3> QED BY <3>1, <3>2
  <2>4. o \in 1..Len(l.streams) /\ p \in 1..Len(l.streams) /\ o # p
    BY <2>1, <2>3
  <2>5. DOMAIN l.streams = 1..Len(l.streams)
    OBVIOUS
  <2>6. l.streams[o] = l.streams[p]
    BY <2>1
  <2> QED BY <2>4, <2>5, <2>6 DEF Serves, IsInjective
<1> HIDE DEF Now
<1>5. CASE Now
  BY <1>1, <1>2, <1>3, <1>4, <1>5
<1>6. CASE ~Now
  <2>1. counts[r] \in Nat
    BY <1>1
  <2> QED BY <1>1, <1>2, <1>3, <1>6, <2>1
<1> QED BY <1>5, <1>6

(* The partitions that were read are the rows that came. *)
LEMMA ExecuteScans ==
  ASSUME IInv, ScanInv, NEW s \in Scans, ExecutePartition(s) PROVE ScanInv'
<1>1. PlacesTyped /\ ScansTyped /\ s \in Callers /\ s # Table /\ pc[s] = "ready"
  BY TypeParts, TableIsNoScan, Zenon DEF IInv, ExecutePartition
<1>2. UNCHANGED <<commits, query, lease>>
  BY Zenon DEF ExecutePartition, tableVars
<1>3. PartitionCount(s)' = PartitionCount(s)
  BY <1>2, Zenon DEF PartitionCount
<1>4. PICK p \in 1..PartitionCount(s) \ read[s] :
        \/ /\ read' = [read EXCEPT ![s] = @ \cup {p}]
           /\ copies' = [copies EXCEPT ![s] = [r \in AllRows |->
                @[r] + IF r \in DOMAIN lease[s].parts /\ lease[s].parts[r] = lease[s].streams[p]
                       THEN 1 ELSE 0]]
           /\ Goto(s, IF read'[s] = 1..PartitionCount(s) THEN "done" ELSE "ready")
        \/ Goto(s, "failed") /\ UNCHANGED <<read, copies>>
  BY Zenon DEF ExecutePartition
<1>5. /\ pc'[s] \in {"ready", "done", "failed"} /\ \A e \in Callers : e # s => pc'[e] = pc[e]
      /\ \A e \in Scans : e # s => read'[e] = read[e] /\ copies'[e] = copies[e]
  BY <1>1, <1>4, SMT DEF ScansTyped, PlacesTyped, Goto
<1>6. Discovered' = Discovered /\ (pc'[Table] = "ready" => pc[Table] = "ready")
  BY <1>1, <1>2, <1>5, TableIsNoScan, Zenon DEF Discovered
<1>7. ScanAt(s)'
  <2>1. CASE pc'[s] = "failed"
    BY <2>1 DEF ScanAt
  <2>2. CASE pc'[s] # "failed"
    <3>1. /\ read'[s] = read[s] \cup {p}
          /\ \A r \in AllRows : copies'[s][r] = copies[s][r] +
               IF r \in DOMAIN lease[s].parts /\ lease[s].parts[r] = lease[s].streams[p]
               THEN 1 ELSE 0
          /\ pc'[s] = IF read'[s] = 1..PartitionCount(s) THEN "done" ELSE "ready"
      BY <1>1, <1>4, <2>2, SMT DEF ScansTyped, PlacesTyped, Goto
    <3>2. /\ lease[s] # NoLease /\ Serves(Discovered.schema, query[s], lease[s])
          /\ Counted(lease[s], read[s], copies[s]) /\ read[s] \subseteq 1..PartitionCount(s)
          /\ InBounds(Discovered.schema, query[s])
      BY <1>1 DEF ScanInv, ScanAt
    <3>3. lease[s].streams \in Seq(STRING)
      BY <1>1, Zenon DEF ScansTyped, LeasesTyped
    <3>4. Counted(lease[s], read[s] \cup {p}, copies'[s])
      <4> DEFINE n == PartitionCount(s)
      <4>1. n = IF lease[s].streams = <<>> THEN 1 ELSE Len(lease[s].streams)
        BY Zenon DEF PartitionCount
      <4>2. p \in (1..n) \ read[s] /\ read[s] \subseteq 1..n
        BY <1>4, <3>2
      <4> HIDE DEF n
      <4> QED BY <3>1, <3>2, <3>3, <4>1, <4>2, CountedOnce
    <3>5. read'[s] \subseteq 1..PartitionCount(s)
      BY <1>4, <3>1, <3>2
    <3>6. lease'[s] = lease[s] /\ query'[s] = query[s]
      BY <1>2
    <3>7. Counted(lease'[s], read'[s], copies'[s])
      BY <3>1, <3>4, <3>6
    <3>8. pc'[s] \in {"ready", "done"} /\ (pc'[s] = "done" => read'[s] = 1..PartitionCount(s))
      BY <3>1
    <3> HIDE <1>4
    <3> QED BY <1>3, <1>6, <3>2, <3>5, <3>6, <3>7, <3>8 DEF ScanAt
  <2> QED BY <2>1, <2>2
<1>8. ASSUME NEW e \in Scans, e # s PROVE ScanAt(e)'
  BY <1>2, <1>5, <1>8, UnmovedScan, TableIsNoScan, Zenon DEF Unmoved, ScanInv
<1> QED BY <1>2, <1>6, <1>7, <1>8, Zenon DEF ScanInv

(* A commit adds a version and changes no scan. *)
LEMMA OthersScans ==
  ASSUME IInv, ScanInv, Commit \/ Tick \/ UNCHANGED vars PROVE ScanInv'
<1>1. UNCHANGED <<pc, query, lease, read, copies>>
  BY Zenon DEF Commit, Tick, vars, scanVars
<1>2. Len(commits') < Len(Versions)
  <2>1. CASE Commit
    <3>1. commits \in Seq(Nat) /\ now \in Nat
      BY Zenon DEF IInv, TypeOK
    <3>2. Len(commits') = Len(commits) + 1
      BY <2>1, <3>1 DEF Commit
    <3> QED BY <2>1, <3>2 DEF Commit
  <2>2. CASE UNCHANGED commits
    BY <2>2, Zenon DEF ScanInv
  <2> QED BY <2>1, <2>2, Zenon DEF Tick, vars, tableVars
<1>3. \A s \in Scans : ScanAt(s)'
  BY <1>1, UnmovedScan, Zenon DEF Unmoved, ScanInv
<1>4. Discovered' = Discovered
  BY <1>1, Zenon DEF Discovered
<1> QED BY <1>1, <1>2, <1>3, <1>4, Zenon DEF ScanInv

(* No scan has begun. *)
LEMMA InitScans == Init => ScanInv
<1> SUFFICES ASSUME Init PROVE ScanInv
  OBVIOUS
<1>1. Len(commits) < Len(Versions)
  <2>1. Versions # <<>> /\ Versions \in Seq(ToSet(Versions))
    BY TableScanAssumption
  <2> QED BY <2>1 DEF Init
<1>2. \A c \in Callers : pc[c] = "start"
  BY Zenon DEF Init
<1>3. ASSUME NEW s \in Scans PROVE ScanAt(s)
  <2>1. pc[s] = "start" /\ read[s] = {} /\ \A r \in AllRows : copies[s][r] = 0
    BY <1>2, TableIsNoScan DEF Init
  <2> QED BY <2>1 DEF ScanAt
<1> QED BY <1>1, <1>2, <1>3, TableIsNoScan DEF ScanInv

------------------------------------------------------------------------------
(* The inductive invariant and what it gives *)

(* Every step keeps the invariant. *)
LEMMA StepKeeps == IInv /\ [Next]_vars => IInv'
<1> SUFFICES ASSUME IInv, [Next]_vars PROVE IInv'
  OBVIOUS
<1>1. CASE Pin
  <2>1. ASSUME ProbeMissed PROVE IInv'
    BY <2>1, ProbeAgainKeeps, Zenon DEF ProbeMissed
  <2>2. ASSUME ProbeTimeout PROVE IInv'
    BY <2>2, ProbeAgainKeeps, Zenon DEF ProbeTimeout
  <2> QED BY <1>1, <2>1, <2>2, CreateProviderKeeps, ProbeAnsweredKeeps, ProbeWakeKeeps,
             Zenon DEF Pin
<1>2. ASSUME NEW c \in Callers, Create(c) PROVE IInv'
  <2>1. CASE CreateUnavailable(c)
    BY <2>1, CreateAgainKeeps, Zenon DEF CreateUnavailable
  <2>2. CASE CreateRefused(c)
    <3>1. pc[c] = "create" /\ ScansTyped
      BY <2>2, TypeParts, Zenon DEF IInv, CreateRefused
    <3>2. UNCHANGED <<now, tableVars, pinVars, lease>> /\ ScansTyped'
      BY <2>2, <3>1, QuietScans, Zenon DEF CreateRefused, scanVars
    <3> QED BY <2>2, <3>1, <3>2, CreateFails, Zenon DEF CreateRefused
  <2>3. CASE CreateTimeout(c)
    <3>1. None \in Minimums
      BY Zenon DEF Minimums
    <3> QED BY <2>3, <3>1, CreateAgainKeeps, Zenon DEF CreateTimeout
  <2> QED BY <1>2, <2>1, <2>2, <2>3, SessionCreatedKeeps, CreateWakeKeeps, Zenon DEF Create
<1>3. ASSUME NEW s \in Scans, PlanScan(s) \/ ExecutePartition(s) PROVE IInv'
  BY <1>3, PlanScanKeeps, ExecutePartitionKeeps, Zenon
<1> QED BY <1>1, <1>2, <1>3, CommitKeeps, TickKeeps, StutterKeeps, Zenon DEF Next

(* The invariant holds throughout. *)
LEMMA Invariance == Spec => []IInv
  BY InitKeeps, StepKeeps, PTL DEF Spec

(* Type correctness: whatever the servers answer and however the clocks run,
   the provider and its scans stay within their types; attempts of the probe
   stay within SERVER_CLOCK_ATTEMPTS. *)
THEOREM TypesHold == Spec => []TypeOK
<1>1. IInv => TypeOK
  BY DEF IInv
<1> QED BY <1>1, Invariance, PTL

(* Every session of a query reads the version of the table its schema was
   discovered from: the pinned snapshot, which validate_response insists on,
   lies before every later change. *)
THEOREM OneVersion == Spec => []SameTable
<1>1. IInv => SameTable
  BY Zenon DEF IInv, VersionInv, SameTable
<1> QED BY <1>1, Invariance, PTL

(* A sleep before another create_read_session leaves the attempt its whole
   time within the retry window. *)
THEOREM RetriesFitTheWindow == Spec => []RetriesFit
<1>1. IInv => RetriesFit
  BY DEF IInv
<1> QED BY <1>1, Invariance, PTL

(* The deadline that ConservativeDeadline computes comes no later than the
   end of the session on the server. *)
THEOREM LeasesOutlastDeadlines == Spec => []DeadlineIsConservative
<1>1. IInv => DeadlineIsConservative
  BY DEF IInv
<1> QED BY <1>1, Invariance, PTL

(* A snapshot that pin_snapshot takes from a Date header lies before the
   request was sent. *)
THEOREM PinsThePast == Spec => SnapshotInPast
<1>1. IInv /\ [Next]_vars =>
        [pc[Table] = "probe" /\ snapshot' # snapshot
           => snapshot' < ServerTime(started[Table])]_vars
  <2> SUFFICES ASSUME IInv, [Next]_vars, pc[Table] = "probe", snapshot' # snapshot
               PROVE  snapshot' < ServerTime(started[Table])
    OBVIOUS
  <2>1. CASE ProbeAnswered
    BY <2>1, ProbeAnsweredKeeps
  <2>2. CASE Pin /\ ~ProbeAnswered
    BY <2>2, Zenon DEF Pin, CreateProvider, ProbeMissed, ProbeTimeout, ProbeAgain, ProbeWake,
                       pinVars
  <2>3. ASSUME NEW c \in Callers, Create(c) PROVE FALSE
    BY <2>3, Zenon DEF Create, SessionCreated, CreateUnavailable, CreateRefused,
                       CreateTimeout, CreateWake, CreateAgain, pinVars
  <2>4. ASSUME NEW s \in Scans, PlanScan(s) \/ ExecutePartition(s) PROVE FALSE
    BY <2>4, Zenon DEF PlanScan, ExecutePartition, pinVars
  <2>5. ~Commit /\ ~Tick /\ ~UNCHANGED vars
    BY Zenon DEF Commit, Tick, vars, pinVars
  <2> QED BY <2>1, <2>2, <2>3, <2>4, <2>5, Zenon DEF Next
<1> QED BY <1>1, Invariance, PTL DEF Spec, SnapshotInPast

(* BigQueryReadExec gives each query exactly the rows it asked for, with the
   columns of its plan: whatever changes the table meanwhile, whatever part of
   the filters the server evaluates, and however it spreads the rows over
   streams. *)
THEOREM ScansAnswer == Spec => []ScanAnswers
<1>1. IInv /\ ScanInv /\ [Next]_vars => ScanInv'
  BY PinScans, CreateScans, PlanScans, ExecuteScans, OthersScans, Zenon DEF Next
<1>2. IInv /\ ScanInv => ScanAnswers
  BY ScanAnswered, Zenon DEF ScanAnswers
<1> QED BY <1>1, <1>2, InitScans, Invariance, PTL DEF Spec

==============================================================================
