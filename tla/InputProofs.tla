---------------------------- MODULE InputProofs -----------------------------
(***************************************************************************)
(* Proofs about the inputs.  Of StorageSession, for any number of tasks,   *)
(* any requests and registrations, and any changes to the stores; of       *)
(* ArrowInput, for any groups of objects, any partitions and any pool.     *)
(***************************************************************************)
EXTENDS StorageSession, ArrowInput, DataLemmas

(* The object that a task was routed to. *)
Id(t) == Identity(handle[t].url)

(* Where a task stands once the claim of its target is decided. *)
Decided(t) == Won(t) \/ pc[t] = "duplicate"

(* Where a task may stand. *)
Places == {"idle", "store", "create", "head", "list", "claim", "exists",
           "backend", "done", "prepared", "refused", "duplicate", "failed",
           "unprepared"}

(* The types that the argument needs. *)
Shape == /\ pc \in [Tasks -> Places]
         /\ DOMAIN handle = Tasks

(* The claims are exactly the objects of the tasks that won them, and each of
   those has one winner; a task is refused for an object that is claimed. *)
ClaimInv ==
  /\ \A t \in Tasks : Decided(t) => Id(t) \in claimed
  /\ \A c \in claimed : \E t \in Tasks : Won(t) /\ Id(t) = c
  /\ \A t, u \in Tasks : Won(t) /\ Won(u) /\ Id(t) = Id(u) => t = u

-----------------------------------------------------------------------------

(* Every action of a task moves only that task: nobody else's place or handle
   changes. *)
Moves(t) ==
  /\ pc' \in [Tasks -> Places] /\ DOMAIN handle' = Tasks
  /\ \A u \in Tasks \ {t} : pc'[u] = pc[u] /\ handle'[u] = handle[u]

(* Before its claim is decided a task may move anywhere but past it. *)
LEMMA Undecided ==
  ASSUME Shape, ClaimInv, NEW t \in Tasks, Moves(t), UNCHANGED claimed,
         ~Decided(t), ~Decided(t)'
  PROVE  Shape' /\ ClaimInv'
BY DEF Shape, Places, ClaimInv, Moves, Decided, Won, Id, Identity, StoreUrl

(* A task that has won its object keeps it. *)
LEMMA KeepsItsObject ==
  ASSUME Shape, ClaimInv, NEW t \in Tasks, Moves(t), UNCHANGED <<claimed, handle>>,
         Won(t), Won(t)'
  PROVE  Shape' /\ ClaimInv'
BY DEF Shape, Places, ClaimInv, Moves, Decided, Won, Id, Identity, StoreUrl

(* The routing index is sound because no scheme is registered twice. *)
Sound == backends \in Registrations /\ UniqueSchemes(backends)

OwnedBy(b, scheme) ==
  /\ b \in DOMAIN backends
  /\ \A d \in DOMAIN backends : scheme \in ToSet(backends[d].schemes) <=> d = b

(* The index finds the one backend that has the scheme. *)
LEMMA OwnerIsAlone ==
  ASSUME Sound, NEW STATE scheme, SchemeOwner(scheme) # 0
  PROVE  OwnedBy(SchemeOwner(scheme), scheme)
<1> DEFINE I == {b \in DOMAIN backends : scheme \in ToSet(backends[b].schemes)}
<1>1. DOMAIN backends = 1..Len(backends)
  BY RegistrationAssumption DEF Sound
<1>2. \A i, j \in I : i = j
  BY DEF Sound, UniqueSchemes, Disjoint
<1>3. I # {} /\ SchemeOwner(scheme) = Max(I)
  BY <1>1 DEF SchemeOwner, SelectLastInSeq
<1>4. I \subseteq Nat
  BY <1>1
<1> HIDE DEF I
<1>5. PICK b \in I : I = {b}
  BY <1>2, <1>3
<1>6. Max(I) = b
  BY <1>4, <1>5 DEF Max
<1>7. QED
  BY <1>3, <1>5, <1>6 DEF I, OwnedBy

(* A handle leads to the backend that claims its scheme. *)
RoutedTo(t) ==
  /\ handle[t] = [owner |-> handle[t].owner, url |-> handle[t].url,
                  segments |-> handle[t].segments, client |-> handle[t].client]
  /\ OwnedBy(handle[t].owner, handle[t].url.scheme)

(* Routing leaves a task before the store, or refuses it. *)
Turned(t) ==
  /\ Moves(t)
  /\ \/ pc'[t] = "refused" /\ UNCHANGED handle
     \/ /\ pc'[t] = "store" /\ handle'[t].client = 0
        /\ Sound /\ UNCHANGED backends => RoutedTo(t)'

(* A request that is refused changes no other task. *)
LEMMA RefuseMoves ==
  ASSUME Shape, NEW t \in Tasks, Refuse(t)
  PROVE  Turned(t)
BY DEF Shape, Places, Turned, Moves, Refuse

(* A request that is routed gets a handle, and only this task moves. *)
LEMMA RouteMoves ==
  ASSUME Shape, NEW t \in Tasks, NEW STATE owner, NEW STATE url,
         NEW STATE segments, NEW STATE direction,
         Route(t, owner, url, segments, direction)
  PROVE  Turned(t)
<1>1. CASE owner # 0 /\ url # None /\ Routed(owner, url, direction)
  <2> DEFINE routed == [owner |-> owner, url |-> url, segments |-> segments,
                        client |-> 0]
  <2>1. pc' = [pc EXCEPT ![t] = "store"] /\ handle' = [handle EXCEPT ![t] = routed]
    BY <1>1 DEF Route
  <2>2. handle'[t] = routed
    BY <2>1 DEF Shape
  <2>3. Sound => OwnedBy(owner, url.scheme)
    BY <1>1, OwnerIsAlone DEF Routed
  <2>4. Sound /\ UNCHANGED backends => RoutedTo(t)'
    BY <2>2, <2>3 DEF RoutedTo, OwnedBy
  <2>5. handle'[t].client = 0
    BY <2>2
  <2> HIDE DEF routed
  <2>6. Moves(t) /\ pc'[t] = "store"
    BY <2>1 DEF Shape, Places, Moves
  <2>7. QED
    BY <2>4, <2>5, <2>6 DEF Turned
<1>2. CASE ~(owner # 0 /\ url # None /\ Routed(owner, url, direction))
  BY <1>2, RefuseMoves DEF Route
<1>3. QED
  BY <1>1, <1>2

(* Every request is refused or routed. *)
LEMMA BeginMoves ==
  ASSUME Shape, NEW t \in Tasks, Begin(t)
  PROVE  Turned(t)
<1>1. ASSUME NEW input, NEW direction, RouteInput(t, input, direction)
      PROVE  Turned(t)
  <2>1. Route(t, Chosen(input),
              IF input.bare THEN BareUrl(Chosen(input), input.text) ELSE input.url,
              <<>>, direction)
    BY <1>1 DEF RouteInput
  <2>2. QED
    BY <2>1, RouteMoves
<1>2. ASSUME NEW pattern, RoutePattern(t, pattern)
      PROVE  Turned(t)
  <2>1. \/ RouteInput(t, pattern, "input")
        \/ Refuse(t)
        \/ \E owner, url, segments : Route(t, owner, url, segments, "input")
    BY <1>2 DEF RoutePattern
  <2>2. QED
    BY <1>1, <2>1, RefuseMoves, RouteMoves
<1>3. QED
  BY <1>1, <1>2 DEF Begin

(* What the other actions before the claim do to a task. *)
LEMMA WithClientMoves ==
  ASSUME Shape, NEW t \in Tasks, NEW STATE c, WithClient(t, c)
  PROVE  Moves(t) /\ pc'[t] \in {"claim", "list", "head"}
<1>1. Resumed(t) \in {"claim", "list", "head"}
  BY DEF Resumed
<1>2. /\ handle' = [handle EXCEPT ![t].client = c]
      /\ pc' = [pc EXCEPT ![t] = Resumed(t)]
  BY DEF WithClient
<1>3. QED
  BY <1>1, <1>2 DEF Shape, Places, Moves

(* A task that goes on leaves the others where they are. *)
LEMMA StopMoves ==
  ASSUME Shape, NEW t \in Tasks, NEW where \in Places, Stop(t, where), UNCHANGED handle
  PROVE  Moves(t) /\ pc'[t] = where
BY DEF Shape, Places, Moves, Stop

(* The invariant is inductive. *)
LEMMA ClaimsKept == Shape /\ ClaimInv /\ [Next]_vars => Shape' /\ ClaimInv'
<1> SUFFICES ASSUME Shape, ClaimInv, [Next]_vars
             PROVE  Shape' /\ ClaimInv'
  OBVIOUS
<1> USE DEF Decided, Won
<1>1. ASSUME UNCHANGED <<claimed, pc, handle>>
      PROVE  Shape' /\ ClaimInv'
  BY <1>1 DEF Shape, ClaimInv, Id, Identity, StoreUrl
<1>2. CASE CreateSession
  BY <1>1, <1>2 DEF CreateSession, tasks
<1>3. CASE Change
  BY <1>1, <1>3 DEF Change
<1>4. CASE UNCHANGED vars
  BY <1>1, <1>4 DEF vars
<1>5. ASSUME NEW t \in Tasks, Begin(t)
      PROVE  Shape' /\ ClaimInv'
  BY <1>5, BeginMoves, Undecided DEF Begin, Turned
<1>6. ASSUME NEW t \in Tasks, UseCached(t)
      PROVE  Shape' /\ ClaimInv'
  BY <1>6, WithClientMoves, Undecided DEF UseCached
<1>7. ASSUME NEW t \in Tasks, FindVacant(t)
      PROVE  Shape' /\ ClaimInv'
  <2>1. Moves(t) /\ pc'[t] = "create"
    BY <1>7 DEF FindVacant, Shape, Places, Moves
  <2>2. QED
    BY <1>7, <2>1, Undecided DEF FindVacant
<1>8. ASSUME NEW t \in Tasks, CreateClient(t)
      PROVE  Shape' /\ ClaimInv'
  <2>1. Moves(t) /\ pc'[t] \in {"claim", "list", "head"}
    BY <1>8, WithClientMoves DEF CreateClient
  <2>2. QED
    BY <1>8, <2>1, Undecided DEF CreateClient
<1>9. ASSUME NEW t \in Tasks, CreateFails(t)
      PROVE  Shape' /\ ClaimInv'
  <2>1. Moves(t) /\ pc'[t] = "failed"
    BY <1>9 DEF CreateFails, Shape, Places, Moves
  <2>2. QED
    BY <1>9, <2>1, Undecided DEF CreateFails
<1>10. ASSUME NEW t \in Tasks, HeadObject(t)
       PROVE  Shape' /\ ClaimInv'
  <2>1. Moves(t) /\ pc'[t] \in {"done", "failed"}
    BY <1>10, StopMoves DEF HeadObject, Kept, Places
  <2>2. QED
    BY <1>10, <2>1, Undecided DEF HeadObject
<1>11. ASSUME NEW t \in Tasks, ListNext(t)
       PROVE  Shape' /\ ClaimInv'
  BY <1>1, <1>11 DEF ListNext, Kept
<1>12. ASSUME NEW t \in Tasks, ListEnd(t) \/ ListFails(t)
       PROVE  Shape' /\ ClaimInv'
  <2>1. Moves(t) /\ pc'[t] \in {"done", "failed"}
    BY <1>12, StopMoves DEF ListEnd, ListFails, Kept, Places
  <2>2. QED
    BY <1>12, <2>1, Undecided DEF ListEnd, ListFails
<1>13. ASSUME NEW t \in Tasks, Claim(t)
       PROVE  Shape' /\ ClaimInv'
  <2>1. CASE Id(t) \in claimed
    <3>1. /\ pc[t] = "claim" /\ pc' = [pc EXCEPT ![t] = "duplicate"]
          /\ UNCHANGED <<claimed, handle>>
      BY <1>13, <2>1 DEF Claim, Stop, Kept, Id
    <3>2. QED
      BY <2>1, <3>1 DEF Shape, Places, ClaimInv, Id, Identity, StoreUrl
  <2>2. CASE Id(t) \notin claimed
    <3>1. /\ pc[t] = "claim" /\ claimed' = claimed \cup {Id(t)}
          /\ pc' = [pc EXCEPT ![t] = IF request[t].reject THEN "exists" ELSE "backend"]
          /\ UNCHANGED handle
      BY <1>13, <2>2 DEF Claim, Stop, Kept, Id
    <3>2. /\ Shape' /\ Won(t)' /\ ~Won(t)
          /\ \A u \in Tasks : Id(u)' = Id(u)
          /\ \A u \in Tasks \ {t} : pc'[u] = pc[u]
      BY <3>1 DEF Shape, Places, Id, Identity, StoreUrl
    <3>3. QED
      BY <2>2, <3>1, <3>2 DEF ClaimInv
  <2>3. QED
    BY <2>1, <2>2
<1>14. ASSUME NEW t \in Tasks, CheckExisting(t) \/ PrepareBackend(t)
       PROVE  Shape' /\ ClaimInv'
  <2>1. Moves(t) /\ pc'[t] \in {"backend", "prepared", "unprepared"}
    BY <1>14, StopMoves DEF CheckExisting, PrepareBackend, Unprepared, Kept, Places
  <2>2. QED
    BY <1>14, <2>1, KeepsItsObject
       DEF CheckExisting, PrepareBackend, Unprepared, Kept
<1>15. QED
  BY <1>2, <1>3, <1>4, <1>5, <1>6, <1>7, <1>8, <1>9, <1>10, <1>11, <1>12, <1>13,
     <1>14 DEF Next

(* An object is given out for writing at most once in a session, by whatever
   spelling it is named and also when its preparation failed
   (StorageSession::prepare_output_target). *)
THEOREM GivenOutOnce == Spec => []NeverTwice
<1>1. Init => Shape /\ ClaimInv
  BY DEF Init, Shape, Places, ClaimInv, Decided, Won
<1>2. Shape /\ ClaimInv => NeverTwice
  <2>1. \A t, u \in Tasks : SameObject(t, u) <=> Id(t) = Id(u)
    BY DEF SameObject, Path, Id, Identity
  <2>2. \A t \in Tasks : pc[t] = "duplicate" => ~Won(t)
    BY DEF Won
  <2>3. QED
    BY <2>1, <2>2 DEF ClaimInv, NeverTwice, Decided
<1>3. QED
  BY <1>1, <1>2, ClaimsKept, PTL DEF Spec

-----------------------------------------------------------------------------
(* One client for each store. *)

IsSeq(s) == Len(s) \in Nat /\ s = [i \in 1..Len(s) |-> s[i]]

(* What Append leaves, and where. *)
LEMMA Appending ==
  ASSUME NEW s, IsSeq(s), NEW e
  PROVE  /\ IsSeq(Append(s, e)) /\ Len(Append(s, e)) = Len(s) + 1
         /\ \A i \in DOMAIN s : Append(s, e)[i] = s[i]
         /\ Append(s, e)[Len(s) + 1] = e
         /\ DOMAIN Append(s, e) = DOMAIN s \cup {Len(s) + 1}
<1> DEFINE S == {s[i] : i \in 1..Len(s)} \cup {e}
<1>1. s \in [1..Len(s) -> S]
  BY DEF IsSeq
<1>2. s \in Seq(S) /\ e \in S
  BY <1>1, SeqDef DEF IsSeq
<1> HIDE DEF S
<1>3. /\ Append(s, e) \in Seq(S) /\ Len(Append(s, e)) = Len(s) + 1
      /\ \A i \in 1..Len(s) : Append(s, e)[i] = s[i]
      /\ Append(s, e)[Len(s) + 1] = e
  BY <1>2, AppendProperties
<1>4. \A q \in Seq(S) : IsSeq(q) /\ DOMAIN q = 1..Len(q)
  BY DEF IsSeq
<1>5. DOMAIN s = 1..Len(s) /\ 1..(Len(s) + 1) = 1..Len(s) \cup {Len(s) + 1}
  BY <1>2
<1>6. QED
  BY <1>3, <1>4, <1>5

(* What the session knows: the registry it was opened with, and one client for
   each entry of its cache. *)
RegistryInv ==
  /\ phase = "start" => made = <<>>
  /\ phase = "open" => /\ Sound
                       /\ (retry # None) = UsesRetries(backends)

CacheInv ==
  /\ IsSeq(made)
  /\ \A s \in DOMAIN cache : cache[s] \in DOMAIN made /\ made[cache[s]].store = s
  /\ \A i \in DOMAIN made : cache[made[i].store] = i /\ made[i].store \in DOMAIN cache

(* A client is its owner's. *)
OwnedInv == \A i \in DOMAIN made :
  /\ phase = "open" /\ OwnedBy(made[i].owner, made[i].store.scheme)
  /\ (made[i].retry # None) = backends[made[i].owner].retries

(* Only the task that holds the lock makes a client, and none is there yet. *)
LockInv == \A t \in Tasks :
  /\ pc[t] \in {"store", "create"} => phase = "open" /\ RoutedTo(t)
  /\ pc[t] = "create" => lock = t /\ StoreUrl(handle[t].url) \notin DOMAIN cache

HandleInv == \A t \in Tasks : handle[t] # None /\ handle[t].client # 0 =>
  /\ handle[t].client \in DOMAIN made
  /\ made[handle[t].client].store = StoreUrl(handle[t].url)

ClientInv == Shape /\ RegistryInv /\ CacheInv /\ OwnedInv /\ LockInv /\ HandleInv

(* A task that leaves everything but its own place alone, and does not ask for
   a client. *)
LEMMA Elsewhere ==
  ASSUME ClientInv, NEW t \in Tasks, Moves(t), pc'[t] \notin {"store", "create"},
         UNCHANGED <<session, cache, lock, made, handle>>
  PROVE  ClientInv'
<1> USE DEF session
<1>1. Shape'
  BY DEF Moves, Shape
<1>2. RegistryInv' /\ CacheInv' /\ OwnedInv'
  BY DEF ClientInv, RegistryInv, CacheInv, OwnedInv, OwnedBy, Sound, UniqueSchemes, UsesRetries
<1>3. LockInv' /\ HandleInv'
  BY DEF ClientInv, LockInv, HandleInv, RoutedTo, OwnedBy, Moves, StoreUrl
<1>4. QED
  BY <1>1, <1>2, <1>3 DEF ClientInv

(* A route stays what it is while its handle does. *)
LEMMA RouteKept ==
  ASSUME NEW u \in Tasks, handle'[u] = handle[u], UNCHANGED backends, RoutedTo(u)
  PROVE  RoutedTo(u)'
BY DEF RoutedTo, OwnedBy

(* The other tasks' part of LockInv. *)
LEMMA OthersKept ==
  ASSUME LockInv, NEW t \in Tasks, Moves(t), UNCHANGED session,
         NEW u \in Tasks \ {t}, pc[u] \in {"store", "create"}
  PROVE  /\ phase' = "open" /\ RoutedTo(u)'
         /\ StoreUrl(handle[u].url)' = StoreUrl(handle[u].url)
BY RouteKept DEF LockInv, Moves, session, StoreUrl

(* A task that is given a client of its store. *)
LEMMA GivenClient ==
  ASSUME Shape, NEW t \in Tasks, NEW STATE c, RoutedTo(t),
         handle' = [handle EXCEPT ![t].client = c]
  PROVE  /\ handle'[t].client = c /\ handle'[t].url = handle[t].url
         /\ \A u \in Tasks \ {t} : handle'[u] = handle[u]
BY DEF Shape, RoutedTo

(* Every step keeps the invariant of the clients. *)
LEMMA ClientsKept == ClientInv /\ [Next]_vars => ClientInv'
<1> SUFFICES ASSUME ClientInv, [Next]_vars
             PROVE  ClientInv'
  OBVIOUS
<1> USE DEF session
<1>0. Shape /\ RegistryInv /\ CacheInv /\ OwnedInv /\ LockInv /\ HandleInv
  BY DEF ClientInv
<1>1. ASSUME UNCHANGED <<session, cache, lock, made, pc, handle>>
      PROVE  ClientInv'
  <2>1. Shape' /\ RegistryInv' /\ CacheInv' /\ OwnedInv'
    BY <1>0, <1>1 DEF Shape, RegistryInv, CacheInv, OwnedInv, OwnedBy, Sound,
                      UniqueSchemes, UsesRetries
  <2>2. LockInv' /\ HandleInv'
    BY <1>0, <1>1 DEF LockInv, HandleInv, RoutedTo, OwnedBy, StoreUrl
  <2>3. QED
    BY <2>1, <2>2 DEF ClientInv
<1>2. CASE CreateSession
  <2>1. UNCHANGED <<cache, lock, made, pc, handle>> /\ made = <<>>
    BY <1>0, <1>2 DEF CreateSession, tasks, RegistryInv
  <2>2. Shape' /\ CacheInv' /\ OwnedInv' /\ HandleInv'
    BY <1>0, <2>1 DEF Shape, CacheInv, OwnedInv, HandleInv, StoreUrl
  <2>3. LockInv'
    BY <1>0, <1>2, <2>1 DEF LockInv, CreateSession
  <2>4. RegistryInv'
    <3>1. PICK list \in Registrations, args \in RetryArguments :
            \/ /\ phase' = "open" /\ backends' = list /\ Registrable(list)
               /\ retry' = IF UsesRetries(list) THEN args ELSE None
            \/ phase' = "refused"
      BY <1>2 DEF CreateSession
    <3>2. UsesRetries(list) \in BOOLEAN /\ args # None
      BY NoneAssumption DEF UsesRetries
    <3>3. CASE phase' = "open" /\ backends' = list
      BY <2>1, <3>1, <3>2, <3>3
         DEF RegistryInv, Sound, Registrable, UniqueSchemes, UsesRetries
    <3>4. CASE phase' = "refused"
      BY <3>4 DEF RegistryInv
    <3>5. QED
      BY <3>1, <3>3, <3>4
  <2>5. QED
    BY <2>2, <2>3, <2>4 DEF ClientInv
<1>3. CASE Change
  BY <1>1, <1>3 DEF Change
<1>4. CASE UNCHANGED vars
  BY <1>1, <1>4 DEF vars
<1>5. ASSUME NEW t \in Tasks, Begin(t)
      PROVE  ClientInv'
  <2>1. /\ Turned(t) /\ phase = "open" /\ pc[t] = "idle" /\ Sound
        /\ UNCHANGED <<session, cache, lock, made>>
    BY <1>0, <1>5, BeginMoves DEF Begin, RegistryInv
  <2>2. CASE pc'[t] = "refused" /\ UNCHANGED handle
    BY <2>1, <2>2, Elsewhere DEF Turned
  <2>3. CASE pc'[t] = "store" /\ handle'[t].client = 0
    <3>1. Moves(t) /\ RoutedTo(t)'
      BY <2>1, <2>3 DEF Turned
    <3>2. Shape' /\ RegistryInv' /\ CacheInv' /\ OwnedInv'
      BY <1>0, <2>1, <3>1 DEF Shape, Moves, RegistryInv, CacheInv, OwnedInv, OwnedBy,
                              Sound, UniqueSchemes, UsesRetries
    <3>3. LockInv'
      BY <1>0, <2>1, <2>3, <3>1, OthersKept DEF LockInv, Moves
    <3>4. HandleInv'
      BY <1>0, <2>1, <2>3, <3>1 DEF HandleInv, Moves, StoreUrl
    <3>5. QED
      BY <3>2, <3>3, <3>4 DEF ClientInv
  <2>4. QED
    BY <2>1, <2>2, <2>3 DEF Turned
<1>6. ASSUME NEW t \in Tasks, UseCached(t)
      PROVE  ClientInv'
  <2> DEFINE c == cache[StoreUrl(handle[t].url)]
  <2>1. /\ WithClient(t, c) /\ RoutedTo(t)
        /\ c \in DOMAIN made /\ made[c].store = StoreUrl(handle[t].url)
        /\ UNCHANGED <<session, cache, lock, made>>
    BY <1>0, <1>6 DEF UseCached, LockInv, CacheInv
  <2>2. Moves(t) /\ pc'[t] \in {"claim", "list", "head"}
    BY <1>0, <2>1, WithClientMoves
  <2>3. handle'[t].client = c /\ handle'[t].url = handle[t].url
    BY <1>0, <2>1, GivenClient DEF WithClient
  <2> HIDE DEF c
  <2>4. Shape' /\ RegistryInv' /\ CacheInv' /\ OwnedInv'
    BY <1>0, <2>1, <2>2 DEF Shape, Moves, RegistryInv, CacheInv, OwnedInv, OwnedBy,
                            Sound, UniqueSchemes, UsesRetries
  <2>5. LockInv'
    BY <1>0, <2>1, <2>2, OthersKept DEF LockInv, Moves
  <2>6. HandleInv'
    BY <1>0, <2>1, <2>2, <2>3 DEF HandleInv, Moves, StoreUrl
  <2>7. QED
    BY <2>4, <2>5, <2>6 DEF ClientInv
<1>7. ASSUME NEW t \in Tasks, FindVacant(t)
      PROVE  ClientInv'
  <2>1. /\ Moves(t) /\ pc[t] = "store" /\ pc'[t] = "create" /\ lock = None /\ lock' = t
        /\ StoreUrl(handle[t].url) \notin DOMAIN cache
        /\ UNCHANGED <<session, cache, made, handle>>
    BY <1>0, <1>7 DEF FindVacant, Shape, Places, Moves
  <2>2. Shape' /\ RegistryInv' /\ CacheInv' /\ OwnedInv' /\ HandleInv'
    BY <1>0, <2>1 DEF Shape, Moves, RegistryInv, CacheInv, OwnedInv, OwnedBy,
                      Sound, UniqueSchemes, UsesRetries, HandleInv, StoreUrl
  <2>3. LockInv'
    BY <1>0, <2>1, NoneAssumption DEF LockInv, Moves, RoutedTo, OwnedBy, StoreUrl
  <2>4. QED
    BY <2>2, <2>3 DEF ClientInv
<1>8. ASSUME NEW t \in Tasks, CreateClient(t)
      PROVE  ClientInv'
  <2> DEFINE url   == StoreUrl(handle[t].url)
             owner == handle[t].owner
             new   == [store |-> url, owner |-> owner,
                       retry |-> IF backends[owner].retries THEN retry ELSE None]
             n     == Len(made) + 1
  <2>1. /\ pc[t] = "create" /\ made' = Append(made, new) /\ lock' = None
        /\ cache' = [s \in DOMAIN cache \cup {url} |->
                       IF s = url THEN Len(made') ELSE cache[s]]
        /\ WithClient(t, Len(made')) /\ UNCHANGED session
    BY <1>8 DEF CreateClient
  <2>2. /\ phase = "open" /\ Sound /\ (retry # None) = UsesRetries(backends)
        /\ RoutedTo(t) /\ url \notin DOMAIN cache /\ lock = t
    BY <1>0, <2>1 DEF LockInv, RegistryInv
  <2>3. /\ IsSeq(made') /\ Len(made') = n /\ made'[n] = new
        /\ DOMAIN made' = DOMAIN made \cup {n} /\ n \notin DOMAIN made
        /\ \A i \in DOMAIN made : made'[i] = made[i]
    BY <1>0, <2>1, Appending DEF CacheInv, IsSeq
  <2>4. new.store = url /\ new.owner = owner /\ url.scheme = handle[t].url.scheme
    BY DEF StoreUrl
  <2>5. OwnedBy(owner, url.scheme) /\ (new.retry # None) = backends[owner].retries
    <3>1. OwnedBy(owner, url.scheme)
      BY <2>2, <2>4 DEF RoutedTo
    <3>2. owner \in DOMAIN backends /\ backends[owner].retries \in BOOLEAN
      BY <2>2, <3>1, RegistrationAssumption DEF OwnedBy, Sound
    <3>3. backends[owner].retries => retry # None
      BY <2>2, <3>2 DEF UsesRetries
    <3>4. (new.retry # None) = backends[owner].retries
      BY <3>2, <3>3
    <3>5. QED
      BY <3>1, <3>4
  <2>6. Moves(t) /\ pc'[t] \in {"claim", "list", "head"}
    BY <1>0, <2>1, WithClientMoves
  <2>7. handle'[t].client = n /\ handle'[t].url = handle[t].url
    BY <1>0, <2>1, <2>2, <2>3, GivenClient DEF WithClient
  <2>8. Shape' /\ RegistryInv'
    BY <1>0, <2>1, <2>2, <2>6 DEF Shape, Moves, RegistryInv, Sound, UniqueSchemes, UsesRetries
  <2>9. CacheInv' /\ OwnedInv'
    <3>1. /\ DOMAIN cache' = DOMAIN cache \cup {url} /\ cache'[url] = n
          /\ \A s \in DOMAIN cache : cache'[s] = cache[s]
      BY <2>1, <2>2, <2>3
    <3> HIDE DEF n, new, url, owner
    <3>3. CacheInv'
      BY <1>0, <2>2, <2>3, <2>4, <3>1 DEF CacheInv
    <3>4. ASSUME NEW i \in DOMAIN made'
          PROVE  /\ OwnedBy(made'[i].owner, made'[i].store.scheme)
                 /\ (made'[i].retry # None) = backends[made'[i].owner].retries
      BY <1>0, <2>3, <2>4, <2>5 DEF OwnedInv
    <3>5. OwnedInv'
      BY <2>1, <2>2, <3>4 DEF OwnedInv, OwnedBy
    <3>6. QED
      BY <3>3, <3>5
  <2>10. LockInv'
    <3>1. \A u \in Tasks \ {t} : pc[u] # "create"
      BY <1>0, <2>2 DEF LockInv
    <3>2. QED
      BY <1>0, <2>1, <2>6, <3>1, OthersKept DEF LockInv, Moves
  <2>11. HandleInv'
    <3> HIDE DEF n, new, url, owner
    <3>1. ASSUME NEW u \in Tasks \ {t}, handle'[u] # None, handle'[u].client # 0
          PROVE  /\ handle'[u].client \in DOMAIN made'
                 /\ made'[handle'[u].client].store = StoreUrl(handle'[u].url)
      BY <1>0, <2>3, <2>6, <3>1 DEF HandleInv, Moves
    <3>2. /\ handle'[t].client \in DOMAIN made'
          /\ made'[handle'[t].client].store = StoreUrl(handle'[t].url)
      BY <2>3, <2>4, <2>7 DEF url
    <3>3. QED
      BY <3>1, <3>2 DEF HandleInv, StoreUrl
  <2>12. QED
    BY <2>8, <2>9, <2>10, <2>11 DEF ClientInv
<1>9. ASSUME NEW t \in Tasks, CreateFails(t)
      PROVE  ClientInv'
  <2>1. /\ Moves(t) /\ pc[t] = "create" /\ pc'[t] = "failed"
        /\ UNCHANGED <<session, cache, made, handle>>
    BY <1>0, <1>9 DEF CreateFails, Shape, Places, Moves
  <2>2. Shape' /\ RegistryInv'
    BY <1>0, <2>1 DEF Shape, Moves, RegistryInv, Sound, UniqueSchemes, UsesRetries
  <2>3. CacheInv' /\ OwnedInv'
    BY <1>0, <2>1 DEF Moves, CacheInv, OwnedInv, OwnedBy
  <2>4. HandleInv'
    BY <1>0, <2>1 DEF HandleInv, StoreUrl
  <2>5. LockInv'
    <3>1. \A u \in Tasks \ {t} : pc[u] # "create"
      BY <1>0, <2>1 DEF LockInv
    <3>2. QED
      BY <1>0, <2>1, <3>1, OthersKept DEF LockInv, Moves
  <2>6. QED
    BY <2>2, <2>3, <2>4, <2>5 DEF ClientInv
<1>10. ASSUME NEW t \in Tasks, HeadObject(t) \/ ListEnd(t) \/ ListFails(t)
       PROVE  ClientInv'
  <2>1. Moves(t) /\ pc'[t] \in {"done", "failed"}
    BY <1>0, <1>10, StopMoves DEF HeadObject, ListEnd, ListFails, Kept, Places
  <2>2. QED
    BY <1>10, <2>1, Elsewhere DEF HeadObject, ListEnd, ListFails, Kept
<1>11. ASSUME NEW t \in Tasks, ListNext(t)
       PROVE  ClientInv'
  BY <1>1, <1>11 DEF ListNext, Kept
<1>12. ASSUME NEW t \in Tasks, Claim(t)
       PROVE  ClientInv'
  <2>1. Moves(t) /\ pc'[t] \in {"duplicate", "exists", "backend"}
    BY <1>0, <1>12, StopMoves DEF Claim, Kept, Places
  <2>2. QED
    BY <1>12, <2>1, Elsewhere DEF Claim, Kept
<1>13. ASSUME NEW t \in Tasks, CheckExisting(t) \/ PrepareBackend(t)
       PROVE  ClientInv'
  <2>1. Moves(t) /\ pc'[t] \in {"backend", "prepared", "unprepared"}
    BY <1>0, <1>13, StopMoves DEF CheckExisting, PrepareBackend, Unprepared, Kept, Places
  <2>2. QED
    BY <1>13, <2>1, Elsewhere DEF CheckExisting, PrepareBackend, Kept
<1>14. QED
  BY <1>2, <1>3, <1>4, <1>5, <1>6, <1>7, <1>8, <1>9, <1>10, <1>11, <1>12, <1>13 DEF Next

(* At first there is no client. *)
LEMMA ClientsFirst == Init => ClientInv
<1> SUFFICES ASSUME Init PROVE ClientInv
  OBVIOUS
<1>1. IsSeq(made) /\ DOMAIN made = {} /\ DOMAIN cache = {}
  BY DEF Init, IsSeq
<1>2. QED
  BY <1>1 DEF Init, ClientInv, Shape, Places, RegistryInv, CacheInv, OwnedInv,
              LockInv, HandleInv

(* A store has one client, however many tasks ask for it at once, made by the
   one backend that claims its scheme (StorageSession::create_handle). *)
THEOREM OneClient == Spec => []ClientOfStore
<1>1. Init => ClientInv
  BY ClientsFirst
<1>2. ClientInv => ClientOfStore
  <2> SUFFICES ASSUME ClientInv PROVE ClientOfStore
    OBVIOUS
  <2>1. \A i, j \in DOMAIN made : made[i].store = made[j].store => i = j
    BY DEF ClientInv, CacheInv
  <2>2. \A i \in DOMAIN made :
          /\ {b \in DOMAIN backends :
                made[i].store.scheme \in ToSet(backends[b].schemes)} = {made[i].owner}
          /\ (made[i].retry # None) = backends[made[i].owner].retries
    BY DEF ClientInv, OwnedInv, OwnedBy
  <2>3. \A t \in Tasks : handle[t] # None /\ handle[t].client # 0 =>
          made[handle[t].client].store = StoreUrl(handle[t].url)
    BY DEF ClientInv, HandleInv
  <2>4. QED
    BY <2>1, <2>2, <2>3 DEF ClientOfStore
<1>3. QED
  BY <1>1, <1>2, ClientsKept, PTL DEF Spec

-----------------------------------------------------------------------------
(* Matching *)

(* Where the pieces from the i-th on may begin, if f says it of the next. *)
FromAt(pieces, path, f, i) ==
  IF i > Len(pieces) THEN {Len(path) + 1}
  ELSE IF pieces[i] # Recursive
  THEN {j \in 1..Len(path) : path[j] \in pieces[i] /\ j + 1 \in f[i + 1]}
  ELSE IF i = Len(pieces) THEN 1..Len(path)
  ELSE {j \in 1..(Len(path) + 1) : \E k \in f[i + 1] : j <= k}

IsFrom(f, pieces, path) == f = [i \in 1..(Len(pieces) + 1) |-> FromAt(pieces, path, f, i)]

(* The recursion that defines Matches has a solution. *)
LEMMA FromExists ==
  ASSUME NEW pieces, NEW path, Len(pieces) \in Nat
  PROVE  \E f : IsFrom(f, pieces, path)
<1> DEFINE n == Len(pieces)
           Upper(k) == (n + 1 - k)..(n + 1)
           P == {k \in Nat : k <= n => \E f : f = [i \in Upper(k) |-> FromAt(pieces, path, f, i)]}
<1>0. n \in Nat
  OBVIOUS
<1>1. 0 \in P
  <2> DEFINE g == [i \in Upper(0) |-> {Len(path) + 1}]
  <2>1. ASSUME NEW i \in Upper(0) PROVE FromAt(pieces, path, g, i) = {Len(path) + 1}
    <3>1. i > Len(pieces)
      OBVIOUS
    <3> QED BY <3>1 DEF FromAt
  <2>2. g = [i \in Upper(0) |-> FromAt(pieces, path, g, i)]
    <3> DEFINE U == Upper(0)
               h == [i \in U |-> FromAt(pieces, path, g, i)]
    <3>1. \A i \in U : FromAt(pieces, path, g, i) = {Len(path) + 1}
      BY <2>1
    <3> HIDE DEF U
    <3> QED BY <3>1, Zenon DEF U
  <2> HIDE DEF g
  <2> QED BY <2>2
<1>2. ASSUME NEW k \in Nat, k \in P PROVE k + 1 \in P
  <2> DEFINE U == Upper(k + 1)
             V == Upper(k)
  <2> SUFFICES ASSUME k + 1 <= n
               PROVE  \E g : g = [i \in U |-> FromAt(pieces, path, g, i)]
    OBVIOUS
  <2>1. PICK f : f = [i \in V |-> FromAt(pieces, path, f, i)]
    BY <1>0, <1>2
  <2> DEFINE g == [i \in U |-> FromAt(pieces, path, f, i)]
  <2>2. V \subseteq U /\ \A i \in U : i + 1 \in V \/ i > Len(pieces)
    BY <1>0
  <2> HIDE DEF U, V, P
  <2>3. \A i \in V : g[i] = f[i]
    BY <2>1, <2>2
  <2>4. \A i \in U : FromAt(pieces, path, g, i) = FromAt(pieces, path, f, i)
    <3> HIDE DEF g
    <3>1. TAKE i \in U
    <3>2. CASE i > Len(pieces)
      BY <3>2 DEF FromAt
    <3>3. CASE i + 1 \in V
      <4>1. g[i + 1] = f[i + 1]
        BY <2>3, <3>3
      <4> QED BY <4>1, Zenon DEF FromAt
    <3> QED BY <2>2, <3>2, <3>3
  <2>5. g = [i \in U |-> FromAt(pieces, path, g, i)]
    <3>1. g = [i \in U |-> FromAt(pieces, path, f, i)]
      OBVIOUS
    <3> HIDE DEF g
    <3> QED BY <2>4, <3>1, Zenon
  <2> HIDE DEF g
  <2> QED BY <2>5
<1>3. Nat \subseteq P
  <2> HIDE DEF P
  <2> QED BY <1>1, <1>2, Inductive
<1>4. n \in P /\ Upper(n) = 1..(Len(pieces) + 1)
  <2>1. n + 1 - n = 1
    OBVIOUS
  <2> HIDE DEF P
  <2> QED BY <1>0, <1>3, <2>1
<1>5. \E f : f = [i \in Upper(n) |-> FromAt(pieces, path, f, i)]
  BY <1>4
<1> QED BY <1>4, <1>5 DEF IsFrom

(* A path matches if the first piece may begin at its first segment. *)
LEMMA MatchRule ==
  ASSUME NEW pieces, NEW path, Len(pieces) \in Nat
  PROVE  \E f : IsFrom(f, pieces, path) /\ (Matches(pieces, path) <=> 1 \in f[1])
<1>1. \E f : IsFrom(f, pieces, path)
  BY FromExists
<1> DEFINE F == CHOOSE f : IsFrom(f, pieces, path)
<1>2. IsFrom(F, pieces, path)
  BY <1>1
<1>3. Matches(pieces, path) <=> 1 \in F[1]
  BY Zenon DEF Matches, IsFrom, FromAt
<1> QED BY <1>2, <1>3

(* Where there is a piece left, there is a segment left. *)
LEMMA FromWithin ==
  ASSUME NEW pieces, NEW path, Len(pieces) \in Nat, Len(path) \in Nat,
         NEW f, IsFrom(f, pieces, path)
  PROVE  \A i \in 1..Len(pieces) : f[i] \subseteq 1..Len(path)
<1> DEFINE n == Len(pieces)
           P == {k \in Nat : \A i \in 1..n : i = n - k => f[i] \subseteq 1..Len(path)}
<1>0. \A i \in 1..n : f[i] = FromAt(pieces, path, f, i) /\ ~(i > n) /\ i \in Nat
  BY DEF IsFrom
<1>1. 0 \in P
  <2> SUFFICES ASSUME NEW i \in 1..n, i = n PROVE f[i] \subseteq 1..Len(path)
    OBVIOUS
  <2> QED BY <1>0 DEF FromAt
<1>2. ASSUME NEW k \in Nat, k \in P PROVE k + 1 \in P
  <2> SUFFICES ASSUME NEW i \in 1..n, i = n - (k + 1) PROVE f[i] \subseteq 1..Len(path)
    OBVIOUS
  <2> DEFINE j == i + 1
  <2>1. j \in 1..n /\ j = n - k /\ i # n
    OBVIOUS
  <2>2. f[j] \subseteq 1..Len(path)
    BY <1>2, <2>1
  <2> HIDE DEF P
  <2>3. f[i] = IF pieces[i] # Recursive
               THEN {l \in 1..Len(path) : path[l] \in pieces[i] /\ l + 1 \in f[j]}
               ELSE {l \in 1..(Len(path) + 1) : \E m \in f[j] : l <= m}
    BY <1>0, <2>1, Zenon DEF FromAt
  <2> HIDE DEF j, n
  <2>4. {l \in 1..(Len(path) + 1) : \E m \in f[j] : l <= m} \subseteq 1..Len(path)
    BY <2>2
  <2> QED BY <2>3, <2>4
<1>3. Nat \subseteq P
  <2> HIDE DEF P
  <2> QED BY <1>1, <1>2, Inductive
<1>4. ASSUME NEW i \in 1..n PROVE f[i] \subseteq 1..Len(path)
  <2>1. PICK k \in Nat : i = n - k
    <3>1. n - i \in Nat /\ i = n - (n - i)
      OBVIOUS
    <3> QED BY <3>1
  <2>2. k \in P
    <3> HIDE DEF P
    <3> QED BY <1>3
  <2> QED BY <2>1, <2>2
<1> QED BY <1>4

(* What a path begins with that matches pieces which begin with names. *)
LEMMA MatchedPrefix ==
  ASSUME NEW pieces, NEW path, Len(pieces) \in Nat, Len(path) \in Nat,
         NEW m \in Nat, m < Len(pieces), \A i \in 1..m : pieces[i] # Recursive,
         Matches(pieces, path)
  PROVE  m < Len(path) /\ \A i \in 1..m : path[i] \in pieces[i]
<1>1. PICK f : IsFrom(f, pieces, path) /\ 1 \in f[1]
  BY MatchRule
<1> DEFINE P == {k \in Nat : k <= m => k + 1 \in f[k + 1] /\ \A i \in 1..k : path[i] \in pieces[i]}
<1>2. \A i \in 1..m : f[i] = {j \in 1..Len(path) : path[j] \in pieces[i] /\ j + 1 \in f[i + 1]}
  <2>1. TAKE i \in 1..m
  <2>2. i \in 1..(Len(pieces) + 1) /\ ~(i > Len(pieces))
    OBVIOUS
  <2>3. f[i] = FromAt(pieces, path, f, i)
    BY <1>1, <2>2 DEF IsFrom
  <2> QED BY <2>2, <2>3, Zenon DEF FromAt
<1>3. 0 \in P
  <2>1. 0 + 1 = 1 /\ 1..0 = {}
    OBVIOUS
  <2> QED BY <1>1, <2>1
<1>4. ASSUME NEW k \in Nat, k \in P PROVE k + 1 \in P
  <2> DEFINE j == k + 1
  <2> SUFFICES ASSUME j <= m
               PROVE  j + 1 \in f[j + 1] /\ \A i \in 1..j : path[i] \in pieces[i]
    OBVIOUS
  <2>1. j \in f[j] /\ j \in 1..m /\ \A i \in 1..k : path[i] \in pieces[i]
    BY <1>4
  <2>2. \A i \in 1..j : i \in 1..k \/ i = j
    OBVIOUS
  <2> HIDE DEF P, j
  <2>3. path[j] \in pieces[j] /\ j + 1 \in f[j + 1]
    BY <1>2, <2>1
  <2> QED BY <2>1, <2>2, <2>3
<1>5. Nat \subseteq P
  <2> HIDE DEF P
  <2> QED BY <1>3, <1>4, Inductive
<1>6. m + 1 \in f[m + 1] /\ \A i \in 1..m : path[i] \in pieces[i]
  <2>1. m \in P
    BY <1>5
  <2> QED BY <2>1
<1>7. f[m + 1] \subseteq 1..Len(path)
  <2>1. m + 1 \in 1..Len(pieces)
    OBVIOUS
  <2> QED BY <1>1, <2>1, FromWithin
<1> HIDE DEF P
<1> QED BY <1>6, <1>7

IsGlob(url, segments) ==
  Active(segments) /\ IsPattern([base |-> url, segments |-> segments])

(* A piece that is one name. *)
IsName(x) == x # Recursive /\ \E n \in x : x = {n}

(* One sequence after another. *)
LEMMA JoinedAt ==
  ASSUME NEW S, NEW s \in Seq(S), NEW t \in Seq(S)
  PROVE  /\ DOMAIN (s \o t) = 1..(Len(s) + Len(t))
         /\ \A i \in 1..(Len(s) + Len(t)) :
              (s \o t)[i] = IF i <= Len(s) THEN s[i] ELSE t[i - Len(s)]
         /\ s \o t = [i \in 1..(Len(s) + Len(t)) |-> (s \o t)[i]]
<1>1. s \o t \in Seq(S) /\ Len(s \o t) = Len(s) + Len(t)
  OBVIOUS
<1>2. \A i \in 1..(Len(s) + Len(t)) :
        (s \o t)[i] = IF i <= Len(s) THEN s[i] ELSE t[i - Len(s)]
  OBVIOUS
<1>3. \A q \in Seq(S) : DOMAIN q = 1..Len(q) /\ q = [i \in 1..Len(q) |-> q[i]]
  OBVIOUS
<1> QED BY <1>1, <1>2, <1>3

(* Segments whose pieces are in T. *)
Made(s, T) == s \in Seq(ToSet(s)) /\ \A i \in 1..Len(s) : s[i].pieces \in Seq(T)

(* The pieces of segments joined are theirs, one after the other. *)
LEMMA PiecesJoin ==
  ASSUME NEW T, NEW s, NEW t, Made(s, T), Made(t, T)
  PROVE  Pieces(s) \in Seq(T) /\ Pieces(t) \in Seq(T) /\ Pieces(s \o t) = Pieces(s) \o Pieces(t)
<1> DEFINE f == [i \in DOMAIN s |-> s[i].pieces]
           g == [i \in DOMAIN t |-> t[i].pieces]
           h == [i \in DOMAIN (s \o t) |-> (s \o t)[i].pieces]
           U == ToSet(s) \cup ToSet(t)
<1>0. /\ s \in Seq(ToSet(s)) /\ t \in Seq(ToSet(t))
      /\ \A i \in 1..Len(s) : s[i].pieces \in Seq(T)
      /\ \A i \in 1..Len(t) : t[i].pieces \in Seq(T)
  BY DEF Made
<1>1. s \in Seq(U) /\ t \in Seq(U)
  <2>1. \A x \in Seq(ToSet(s)) : x \in Seq(U)
    OBVIOUS
  <2>2. \A x \in Seq(ToSet(t)) : x \in Seq(U)
    OBVIOUS
  <2> QED BY <1>0, <2>1, <2>2
<1> HIDE DEF U
<1>2. f \in Seq(Seq(T)) /\ Len(f) = Len(s) /\ g \in Seq(Seq(T)) /\ Len(g) = Len(t)
  <2>1. DOMAIN s = 1..Len(s) /\ DOMAIN t = 1..Len(t) /\ Len(s) \in Nat /\ Len(t) \in Nat
    BY <1>1
  <2>2. f \in [1..Len(s) -> Seq(T)] /\ g \in [1..Len(t) -> Seq(T)]
    BY <1>0, <2>1
  <2> QED BY <2>1, <2>2
<1>3. h = f \o g
  <2> DEFINE m == Len(s)
             n == Len(t)
  <2>1. /\ m \in Nat /\ n \in Nat /\ DOMAIN s = 1..m /\ DOMAIN t = 1..n
        /\ DOMAIN (s \o t) = 1..(m + n)
        /\ \A i \in 1..(m + n) : (s \o t)[i] = IF i <= m THEN s[i] ELSE t[i - m]
    BY <1>1
  <2>4. \A i \in 1..m : f[i] = s[i].pieces
    BY <2>1
  <2>5. \A i \in 1..n : g[i] = t[i].pieces
    BY <2>1
  <2> HIDE DEF f, g
  <2>2. /\ DOMAIN (f \o g) = 1..(m + n)
        /\ \A i \in 1..(m + n) : (f \o g)[i] = IF i <= m THEN f[i] ELSE g[i - m]
        /\ f \o g = [i \in 1..(m + n) |-> (f \o g)[i]]
    <3>1. f \in Seq(Seq(T)) /\ g \in Seq(Seq(T)) /\ Len(f) = m /\ Len(g) = n
      BY <1>2
    <3>2. /\ DOMAIN (f \o g) = 1..(Len(f) + Len(g))
          /\ \A i \in 1..(Len(f) + Len(g)) :
               (f \o g)[i] = IF i <= Len(f) THEN f[i] ELSE g[i - Len(f)]
          /\ f \o g = [i \in 1..(Len(f) + Len(g)) |-> (f \o g)[i]]
      BY <3>1, JoinedAt, Zenon
    <3> QED BY ONLY <3>1, <3>2
  <2> HIDE DEF m, n
  <2>6. ASSUME NEW i \in 1..(m + n) PROVE (s \o t)[i].pieces = (f \o g)[i]
    <3>1. CASE i <= m
      <4>1. i \in 1..m
        BY <2>1, <3>1
      <4> QED BY <2>1, <2>2, <2>4, <3>1, <4>1
    <3>2. CASE ~(i <= m)
      <4>1. i - m \in 1..n
        BY <2>1, <3>2
      <4>2. (s \o t)[i] = t[i - m] /\ (f \o g)[i] = g[i - m]
        BY <2>1, <2>2, <3>2
      <4> QED BY <2>5, <4>1, <4>2
    <3> QED BY <3>1, <3>2
  <2>7. h = [i \in 1..(m + n) |-> (s \o t)[i].pieces]
    BY <2>1
  <2> HIDE DEF h
  <2> QED BY <2>2, <2>6, <2>7
<1>4. Pieces(s) = FlattenSeq(f) /\ Pieces(t) = FlattenSeq(g) /\ Pieces(s \o t) = FlattenSeq(h)
  BY DEF Pieces
<1> HIDE DEF f, g, h
<1>5. FlattenSeq(f) \in Seq(T) /\ FlattenSeq(g) \in Seq(T)
  BY <1>2, FlattenKeeps
<1>6. FlattenSeq(f \o g) = FlattenSeq(f) \o FlattenSeq(g)
  BY <1>2, FlattenJoin
<1> QED BY <1>3, <1>4, <1>5, <1>6

(* One of the pieces of each segment is among all. *)
LEMMA PiecesOfFirst ==
  ASSUME NEW T, NEW s, Made(s, T), s # <<>>, s[1].pieces # <<>>
  PROVE  Len(Pieces(s)) # 0
<1> DEFINE f == [i \in DOMAIN s |-> s[i].pieces]
<1>1. DOMAIN s = 1..Len(s) /\ Len(s) \in Nat /\ 1 \in 1..Len(s)
      /\ \A i \in 1..Len(s) : s[i].pieces \in Seq(T)
  BY DEF Made
<1>2. f \in Seq(Seq(T)) /\ Len(f) = Len(s) /\ f[1] = s[1].pieces
  <2>1. f \in [1..Len(s) -> Seq(T)]
    BY <1>1
  <2> QED BY <1>1, <2>1
<1>3. Pieces(s) = FlattenSeq(f)
  BY DEF Pieces
<1> HIDE DEF f
<1>4. Among(f[1], FlattenSeq(f)) /\ FlattenSeq(f) \in Seq(T)
  BY <1>1, <1>2, FlattenKeeps
<1>5. f[1] \in Seq(T) /\ f[1] # <<>>
  BY <1>1, <1>2
<1>6. 1 \in 1..Len(f[1])
  BY <1>5
<1>7. PICK j \in 1..Len(FlattenSeq(f)) : TRUE
  BY <1>4, <1>6 DEF Among
<1>8. Len(FlattenSeq(f)) \in Nat
  BY <1>4
<1> QED BY <1>3, <1>7, <1>8

(* A glob divides into the segments before the first that is active, and the
   rest. *)
LEMMA GlobDivides ==
  ASSUME NEW s, s \in Seq(ToSet(s)), Active(s)
  PROVE  \E l, r : /\ s = l \o r /\ LiteralSegments(s) = l
                   /\ l \in Seq(ToSet(s)) /\ r \in Seq(ToSet(s))
                   /\ \A i \in 1..Len(l) : ~l[i].active
                   /\ r # <<>> /\ r[1].active
<1> DEFINE n == Len(s)
           I == {i \in 1..n : s[i].active}
<1>1. n \in Nat /\ DOMAIN s = 1..n
  OBVIOUS
<1>2. I # {} /\ I \subseteq Nat
  BY <1>1 DEF Active
<1>3. Min(I) \in I /\ \A i \in I : Min(I) <= i
  <2>1. \E x \in I : \A y \in I : x <= y
    BY <1>2, LeastNumber
  <2> HIDE DEF I
  <2> QED BY <2>1 DEF Min
<1>4. SelectInSeq(s, LAMBDA x : x.active) = Min(I)
  BY <1>2, Zenon DEF SelectInSeq
<1>5. PICK k : k = Min(I)
  OBVIOUS
<1>6. k \in 1..n /\ s[k].active /\ \A i \in 1..n : s[i].active => k <= i
  BY <1>3, <1>5
<1> DEFINE l == SubSeq(s, 1, k - 1)
           r == SubSeq(s, k, n)
<1>7. LiteralSegments(s) = l
  <2>1. SelectInSeq(s, LAMBDA x : x.active) = k /\ k # 0
    BY <1>4, <1>5, <1>6
  <2> QED BY <2>1, Zenon DEF LiteralSegments
<1> HIDE DEF I
<1>8. /\ l \in Seq(ToSet(s)) /\ r \in Seq(ToSet(s))
      /\ Len(l) = k - 1 /\ Len(r) = n - k + 1
      /\ \A i \in 1..(k - 1) : l[i] = s[i]
      /\ \A i \in 1..(n - k + 1) : r[i] = s[i + k - 1]
  BY <1>1, <1>6
<1>9. s = l \o r
  BY <1>1, <1>6
<1> HIDE DEF l, r, n
<1>10. \A i \in 1..Len(l) : ~l[i].active
  BY <1>1, <1>6, <1>8
<1>11. r # <<>> /\ r[1].active
  BY <1>1, <1>6, <1>8
<1> QED BY <1>7, <1>8, <1>9, <1>10, <1>11

(* An object that matches a glob is found under its literal prefix. *)
LEMMA MatchIsListed ==
  ASSUME NEW url, NEW s, IsGlob(url, s), NEW p \in Universe, Matches(Pieces(s), p)
  PROVE  IsStrictPrefix(LiteralPrefix(s), p)
<1> DEFINE pattern == [base |-> url, segments |-> s]
           T == UNION {ToSet(x.pieces) : x \in ToSet(s)}
           N == {x \in T : IsName(x)}
<1>1. s \in Seq(ToSet(s)) /\ Active(s)
      /\ \A x \in ToSet(s) :
           /\ x.pieces \in Seq(ToSet(x.pieces))
           /\ IF x.active THEN x.pieces # <<>> ELSE \A y \in ToSet(x.pieces) : IsName(y)
  <2>1. pattern.segments = s
    OBVIOUS
  <2> HIDE DEF pattern
  <2>2. IsPattern(pattern) /\ Active(s)
    BY DEF IsGlob, pattern
  <2> QED BY <2>1, <2>2 DEF IsPattern, IsName
<1>2. PICK l, r : /\ s = l \o r /\ LiteralSegments(s) = l
                  /\ l \in Seq(ToSet(s)) /\ r \in Seq(ToSet(s))
                  /\ \A i \in 1..Len(l) : ~l[i].active
                  /\ r # <<>> /\ r[1].active
  BY <1>1, GlobDivides
<1>3. \A x \in ToSet(s) : x.pieces \in Seq(T)
  <2>1. TAKE x \in ToSet(s)
  <2>2. x.pieces \in Seq(ToSet(x.pieces)) /\ ToSet(x.pieces) \subseteq T
    BY <1>1
  <2> HIDE DEF T
  <2> QED BY <2>2
<1>4. \A x \in ToSet(s) : ~x.active => x.pieces \in Seq(N)
  <2>1. SUFFICES ASSUME NEW x \in ToSet(s), ~x.active PROVE x.pieces \in Seq(N)
    OBVIOUS
  <2>2. x.pieces \in Seq(ToSet(x.pieces)) /\ ToSet(x.pieces) \subseteq N
    BY <1>1, <2>1
  <2> HIDE DEF N
  <2> QED BY <2>2
<1>5. /\ l \in Seq(ToSet(l)) /\ r \in Seq(ToSet(r))
      /\ \A i \in 1..Len(l) : l[i] \in ToSet(s)
      /\ \A i \in 1..Len(r) : r[i] \in ToSet(s)
  <2> HIDE DEF T, N, pattern
  <2>1. \A S : \A q \in Seq(S) : q \in Seq(ToSet(q)) /\ \A i \in 1..Len(q) : q[i] \in S
    BY DEF ToSet
  <2>2. PICK S : S = ToSet(s)
    OBVIOUS
  <2>3. l \in Seq(S) /\ r \in Seq(S)
    BY <1>2, <2>2
  <2> QED BY <2>1, <2>2, <2>3
<1>6. Pieces(l) \in Seq(N)
  <2>1. Made(l, N)
    BY <1>2, <1>4, <1>5 DEF Made
  <2> HIDE DEF T, N
  <2> QED BY <2>1, PiecesJoin
<1>7. /\ Pieces(s) = Pieces(l) \o Pieces(r) /\ Pieces(l) \in Seq(T) /\ Pieces(r) \in Seq(T)
      /\ Made(r, T)
  <2>1. Made(l, T) /\ Made(r, T)
    BY <1>3, <1>5 DEF Made
  <2> HIDE DEF T, N
  <2>2. Pieces(l \o r) = Pieces(l) \o Pieces(r) /\ Pieces(l) \in Seq(T) /\ Pieces(r) \in Seq(T)
    BY <2>1, PiecesJoin
  <2> QED BY <1>2, <2>1, <2>2
<1>8. Len(Pieces(r)) # 0
  <2>1. 1 \in 1..Len(r)
    BY <1>5, <1>2
  <2>2. r[1].pieces # <<>>
    BY <1>1, <1>2, <1>5, <2>1
  <2> HIDE DEF T, N
  <2> QED BY <1>2, <1>7, <2>2, PiecesOfFirst
<1> DEFINE m == Len(Pieces(l))
           pieces == Pieces(s)
<1>9. /\ m \in Nat /\ Len(pieces) \in Nat /\ m < Len(pieces)
      /\ \A i \in 1..m : pieces[i] = Pieces(l)[i]
  <2> HIDE DEF T, N
  <2>1. PICK a : a = Pieces(l)
    OBVIOUS
  <2>2. PICK b : b = Pieces(r)
    OBVIOUS
  <2>3. a \in Seq(T) /\ b \in Seq(T) /\ Len(b) # 0
    BY <1>7, <1>8, <2>1, <2>2
  <2>4. pieces = a \o b /\ m = Len(a)
    BY <1>7, <2>1, <2>2
  <2> QED BY <2>1, <2>3, <2>4
<1>10. \A i \in 1..m : IsName(pieces[i])
  <2>1. \A i \in 1..m : Pieces(l)[i] \in N
    BY <1>6
  <2> HIDE DEF pieces, m
  <2> QED BY <1>9, <2>1
<1>11. p \in Seq(DOMAIN Spell)
  BY UniverseAssumption
<1> HIDE DEF m, pieces, T, N
<1>12. m < Len(p) /\ \A i \in 1..m : p[i] \in pieces[i]
  <2>1. Matches(pieces, p) /\ Len(p) \in Nat
    BY <1>11 DEF pieces
  <2>2. \A i \in 1..m : pieces[i] # Recursive
    BY <1>10 DEF IsName
  <2> QED BY <1>9, <2>1, <2>2, MatchedPrefix
<1>13. \A i \in 1..m : TheName(pieces[i]) = p[i]
  BY <1>10, <1>12 DEF IsName, TheName
<1>14. LiteralPrefix(s) = [i \in 1..m |-> p[i]]
  <2>1. DOMAIN Pieces(l) = 1..m
    BY <1>6 DEF m
  <2>2. LiteralPrefix(s) = [i \in 1..m |-> TheName(Pieces(l)[i])]
    BY <1>2, <2>1 DEF LiteralPrefix
  <2>3. \A i \in 1..m : TheName(Pieces(l)[i]) = p[i]
    BY <1>9, <1>13
  <2> QED BY <2>2, <2>3
<1>15. PICK q : q = [i \in 1..m |-> p[i]]
  OBVIOUS
<1>16. /\ Len(q) = m /\ Len(p) \in Nat
       /\ SubSeq(q, 1, m) = SubSeq(p, 1, m)
  <2>1. q \in Seq(DOMAIN Spell) /\ Len(q) = m
    <3>1. \A i \in 1..m : p[i] \in DOMAIN Spell
      BY <1>9, <1>11, <1>12
    <3>2. q \in [1..m -> DOMAIN Spell]
      BY <1>15, <3>1
    <3> QED BY <1>9, <3>2
  <2>2. \A i \in 1..m : q[i] = p[i]
    BY <1>15
  <2> QED BY <1>9, <1>11, <1>12, <2>1, <2>2
<1>17. IsStrictPrefix(q, p)
  BY <1>9, <1>12, <1>16 DEF IsStrictPrefix, IsPrefix
<1> QED BY <1>14, <1>15, <1>17

(* The URL of an object found leads to it. *)
LEMMA UrlLeadsBack ==
  ASSUME NEW url, NEW segments, IsGlob(url, segments), NEW p \in Universe
  PROVE  /\ ObjectPath(MatchedUrl(url, p)) = p
         /\ StoreUrl(MatchedUrl(url, p)) = StoreUrl(url)
         /\ MatchedUrl(url, p).query = url.query
<1> DEFINE names == DOMAIN Spell \ {""}
           path == [i \in DOMAIN p |-> Spell[p[i]]]
<1>1. url = [scheme |-> url.scheme, authority |-> url.authority, path |-> url.path,
             query |-> url.query]
  <2> DEFINE pattern == [base |-> url, segments |-> segments]
  <2>1. pattern.base = url
    OBVIOUS
  <2> HIDE DEF pattern
  <2> QED BY <2>1 DEF IsGlob, IsPattern, pattern
<1>2. p \in Seq(DOMAIN Spell) /\ IsObjectPath(p)
  BY UniverseAssumption
<1>3. /\ MatchedUrl(url, p).path = path /\ MatchedUrl(url, p).query = url.query
      /\ MatchedUrl(url, p).scheme = url.scheme /\ MatchedUrl(url, p).authority = url.authority
  BY <1>1 DEF MatchedUrl
<1>4. Decoded(path) = p
  <2>1. DOMAIN path = DOMAIN p /\ \A i \in DOMAIN p : path[i] = Spell[p[i]]
    OBVIOUS
  <2>2. \A i \in DOMAIN p : p[i] \in DOMAIN Spell
    BY <1>2
  <2>3. \A i \in DOMAIN p : Decode[path[i]] = <<p[i]>>
    BY <2>1, <2>2, SpellingAssumption
  <2> HIDE DEF path
  <2>4. Decoded(path) = FlattenSeq([i \in DOMAIN p |-> <<p[i]>>])
    <3>1. [i \in DOMAIN path |-> Decode[path[i]]] = [i \in DOMAIN p |-> <<p[i]>>]
      BY <2>1, <2>3
    <3> QED BY <3>1 DEF Decoded
  <2>5. Filtered(p, DOMAIN p) = FlattenSeq([i \in DOMAIN p |-> <<p[i]>>])
    <3>1. Passed(p, DOMAIN p) = [i \in DOMAIN p |-> <<p[i]>>]
      BY DEF Passed
    <3> QED BY <3>1 DEF Filtered
  <2>6. 1..Len(p) \subseteq DOMAIN p
    BY <1>2
  <2>7. Filtered(p, DOMAIN p) = p
    BY <1>2, <2>6, FilterAll
  <2> QED BY <2>4, <2>5, <2>7
<1>5. p # <<>> => Last(p) # ""
  <2> SUFFICES ASSUME p # <<>> PROVE Last(p) # ""
    OBVIOUS
  <2>1. Len(p) \in DOMAIN p
    BY <1>2
  <2>2. p[Len(p)] \notin {"", "..", "."}
    BY <1>2, <2>1, Zenon DEF IsObjectPath
  <2>3. Last(p) = p[Len(p)]
    BY Zenon DEF Last
  <2> QED BY <2>2, <2>3
<1>6. ObjectPath(MatchedUrl(url, p)) = p
  BY <1>3, <1>4, <1>5, Zenon DEF ObjectPath
<1> QED BY <1>3, <1>6 DEF StoreUrl

-----------------------------------------------------------------------------
(* What a task gathers from a listing. *)

(* f has the objects that l returned and the glob matches, each once. *)
IsGathered(l, f, url, segments) ==
  /\ l = [returned |-> l.returned, steady |-> l.steady]
  /\ l.returned \subseteq Universe /\ l.steady \subseteq Universe
  /\ f \in Seq(ToSet(f))
  /\ \A i \in DOMAIN f :
       /\ f[i] = [url |-> MatchedUrl(url, f[i].path), path |-> f[i].path]
       /\ f[i].path \in l.returned /\ Matches(Pieces(segments), f[i].path)
  /\ \A p \in l.returned : Matches(Pieces(segments), p) => \E i \in DOMAIN f : f[i].path = p
  /\ \A i, j \in DOMAIN f : f[i].path = f[j].path => i = j

(* At first nothing is. *)
LEMMA GatheredNone ==
  ASSUME NEW S, S \subseteq Universe, NEW url, NEW segments
  PROVE  IsGathered([returned |-> {}, steady |-> S], <<>>, url, segments)
BY DEF IsGathered

(* Others changed an object. *)
LEMMA GatheredStill ==
  ASSUME NEW l, NEW f, NEW url, NEW segments, IsGathered(l, f, url, segments), NEW p
  PROVE  /\ IsGathered([l EXCEPT !.steady = @ \ {p}], f, url, segments)
         /\ [l EXCEPT !.steady = @ \ {p}].returned = l.returned
         /\ [l EXCEPT !.steady = @ \ {p}].steady \subseteq l.steady
<1>0. PICK a, b : l = [returned |-> a, steady |-> b]
  BY Zenon DEF IsGathered
<1>1. [l EXCEPT !.steady = @ \ {p}] = [returned |-> l.returned, steady |-> l.steady \ {p}]
  BY <1>0
<1> QED BY <1>1 DEF IsGathered

(* One more is returned. *)
LEMMA GatheredOne ==
  ASSUME NEW l, NEW f, NEW url, NEW segments, IsGathered(l, f, url, segments),
         NEW p \in Universe, p \notin l.returned
  PROVE  IsGathered([l EXCEPT !.returned = @ \cup {p}],
                    IF Matches(Pieces(segments), p)
                    THEN Append(f, [url |-> MatchedUrl(url, p), path |-> p]) ELSE f,
                    url, segments)
<1> DEFINE m == [l EXCEPT !.returned = @ \cup {p}]
           x == [url |-> MatchedUrl(url, p), path |-> p]
           g == Append(f, x)
<1>0. PICK a, b : l = [returned |-> a, steady |-> b]
  BY Zenon DEF IsGathered
<1>1. m = [returned |-> l.returned \cup {p}, steady |-> l.steady]
  BY <1>0
<1>2. m.returned = l.returned \cup {p} /\ m.steady = l.steady
      /\ m = [returned |-> m.returned, steady |-> m.steady]
  BY <1>1
<1>3. x = [url |-> MatchedUrl(url, x.path), path |-> x.path] /\ x.path = p
  OBVIOUS
<1> HIDE DEF m, x
<1>4. CASE ~Matches(Pieces(segments), p)
  <2>1. IsGathered(m, f, url, segments)
    BY <1>2, <1>4 DEF IsGathered
  <2> QED BY <1>4, <2>1 DEF m
<1>5. CASE Matches(Pieces(segments), p)
  <2>1. PICK S : f \in Seq(S) /\ x \in S
    <3>1. PICK T : T = ToSet(f)
      OBVIOUS
    <3>2. f \in Seq(T)
      BY <3>1 DEF IsGathered
    <3>3. f \in Seq(T \cup {x}) /\ x \in T \cup {x}
      BY <3>2
    <3> QED BY <3>3
  <2> DEFINE n == Len(f)
  <2>2. /\ n \in Nat /\ DOMAIN f = 1..n
        /\ DOMAIN g = 1..(n + 1) /\ g[n + 1] = x /\ \A i \in 1..n : g[i] = f[i]
        /\ g \in Seq(ToSet(g))
    <3>1. g \in Seq(S) /\ Len(g) = n + 1
      BY <2>1
    <3>2. g[n + 1] = x /\ \A i \in 1..n : g[i] = f[i]
      BY <2>1
    <3> HIDE DEF g
    <3>3. DOMAIN g = 1..(n + 1)
      BY <3>1
    <3>4. g \in Seq(ToSet(g))
      BY <3>1 DEF ToSet
    <3>5. n \in Nat /\ DOMAIN f = 1..n
      BY <2>1
    <3> QED BY <3>1, <3>2, <3>3, <3>4, <3>5
  <2> HIDE DEF n, g
  <2>3. \A i \in 1..(n + 1) : i \in 1..n \/ i = n + 1
    BY <2>2
  <2>4. 1..n \subseteq 1..(n + 1) /\ n + 1 \in 1..(n + 1)
    BY <2>2
  <2>5. \A i \in 1..n : /\ f[i] = [url |-> MatchedUrl(url, f[i].path), path |-> f[i].path]
                        /\ f[i].path \in l.returned /\ Matches(Pieces(segments), f[i].path)
    BY <2>2 DEF IsGathered
  <2>6. ASSUME NEW i \in DOMAIN g
        PROVE  /\ g[i] = [url |-> MatchedUrl(url, g[i].path), path |-> g[i].path]
               /\ g[i].path \in m.returned /\ Matches(Pieces(segments), g[i].path)
    <3>1. CASE i \in 1..n
      BY <1>2, <2>2, <2>5, <3>1
    <3>2. CASE i = n + 1
      BY <1>2, <1>3, <1>5, <2>2, <3>2
    <3> QED BY <2>2, <2>3, <3>1, <3>2
  <2>7. ASSUME NEW q \in m.returned, Matches(Pieces(segments), q)
        PROVE  \E i \in DOMAIN g : g[i].path = q
    <3>1. CASE q = p
      BY <1>3, <2>2, <2>4, <3>1
    <3>2. CASE q \in l.returned
      <4>1. PICK i \in 1..n : f[i].path = q
        BY <2>2, <2>7, <3>2 DEF IsGathered
      <4> QED BY <2>2, <2>4, <4>1
    <3> QED BY <1>2, <3>1, <3>2
  <2>8. ASSUME NEW i \in DOMAIN g, NEW j \in DOMAIN g, g[i].path = g[j].path PROVE i = j
    <3>1. \A c, d \in 1..n : f[c].path = f[d].path => c = d
      BY <2>2 DEF IsGathered
    <3>2. \A c \in 1..n : g[c].path # p /\ g[c].path = f[c].path
      BY <2>2, <2>5
    <3>3. g[n + 1].path = p
      BY <1>3, <2>2
    <3> QED BY <2>2, <2>3, <2>8, <3>1, <3>2, <3>3
  <2>9. m.returned \subseteq Universe /\ m.steady \subseteq Universe
    BY <1>2 DEF IsGathered
  <2>10. IsGathered(m, g, url, segments)
    BY <1>2, <2>2, <2>6, <2>7, <2>8, <2>9 DEF IsGathered
  <2> QED BY <1>5, <2>10 DEF m, g, x
<1> QED BY <1>4, <1>5

-----------------------------------------------------------------------------
(* Expansion *)

(* A task that looks for objects has a route, by a glob or to one object, and
   has found nothing before it asks. *)
RouteAt(t) ==
  /\ pc[t] \in {"store", "create", "list", "head", "done"} =>
       /\ handle[t] = [owner |-> handle[t].owner, url |-> handle[t].url,
                       segments |-> handle[t].segments, client |-> handle[t].client]
       /\ handle[t].segments # <<>> => IsGlob(handle[t].url, handle[t].segments)
  /\ pc[t] = "head" => handle[t].segments = <<>>
  /\ pc[t] = "list" => handle[t].segments # <<>>
  /\ pc[t] \in {"idle", "store", "create"} => found[t] = <<>>

(* What it gathers is of its glob; at the end, all that stayed was returned. *)
ListAt(t) ==
  pc[t] = "list" \/ (pc[t] = "done" /\ handle[t].segments # <<>>) =>
    /\ IsGathered(listing[t], found[t], handle[t].url, handle[t].segments)
    /\ pc[t] = "done" => listing[t].steady \cap Listed(t) \subseteq listing[t].returned

StoreInv == objects \in [Stores -> SUBSET Universe] /\ DOMAIN listing = Tasks /\ DOMAIN found = Tasks
FindInv == Shape /\ StoreInv /\ \A t \in Tasks : RouteAt(t) /\ ListAt(t)

(* A task that does nothing keeps what it has. *)
LEMMA FindStays ==
  ASSUME NEW u, RouteAt(u), ListAt(u), pc'[u] = pc[u], handle'[u] = handle[u],
         found'[u] = found[u], listing'[u] = listing[u]
  PROVE  RouteAt(u)' /\ ListAt(u)'
BY DEF RouteAt, ListAt, Listed

(* Only t moves, and keeps what it has or has nothing to do with objects. *)
LEMMA FindMoves ==
  ASSUME FindInv, NEW t \in Tasks, Moves(t), StoreInv', RouteAt(t)', ListAt(t)',
         \A u \in Tasks \ {t} : found'[u] = found[u] /\ listing'[u] = listing[u]
  PROVE  FindInv'
<1>1. ASSUME NEW u \in Tasks \ {t} PROVE RouteAt(u)' /\ ListAt(u)'
  <2>1. pc'[u] = pc[u] /\ handle'[u] = handle[u]
    BY DEF Moves
  <2>2. RouteAt(u) /\ ListAt(u)
    BY DEF FindInv
  <2> QED BY <2>1, <2>2, FindStays
<1>2. Shape'
  BY DEF Shape, Moves
<1>3. \A u \in Tasks : RouteAt(u)' /\ ListAt(u)'
  BY <1>1
<1> QED BY <1>2, <1>3 DEF FindInv

(* A task that is elsewhere has nothing to do with objects. *)
LEMMA FindElsewhere ==
  ASSUME FindInv, NEW t \in Tasks, Moves(t), UNCHANGED objects,
         pc'[t] \notin {"idle", "store", "create", "list", "head", "done"},
         UNCHANGED listing, DOMAIN found' = Tasks,
         \A u \in Tasks \ {t} : found'[u] = found[u]
  PROVE  FindInv'
<1>1. RouteAt(t)' /\ ListAt(t)'
  BY DEF RouteAt, ListAt
<1>2. StoreInv'
  BY DEF FindInv, StoreInv
<1> QED BY <1>1, <1>2, FindMoves

(* A request that is routed has a route of a glob or to one object. *)
LEMMA BeginRoutes ==
  ASSUME Shape, backends \in Registrations, NEW t \in Tasks, Begin(t)
  PROVE  \/ pc'[t] = "refused"
         \/ \E o, url, segments :
              /\ pc'[t] = "store"
              /\ handle'[t] = [owner |-> o, url |-> url, segments |-> segments, client |-> 0]
              /\ segments # <<>> => IsGlob(url, segments)
<1> DEFINE Good == \E o, url, segments :
              /\ pc'[t] = "store"
              /\ handle'[t] = [owner |-> o, url |-> url, segments |-> segments, client |-> 0]
              /\ segments # <<>> => IsGlob(url, segments)
           Refused == pc'[t] = "refused"
<1>1. ASSUME NEW o, NEW url, NEW segments, NEW direction,
             Route(t, o, url, segments, direction), segments # <<>> => IsGlob(url, segments)
      PROVE  Refused \/ Good
  <2>1. pc \in [Tasks -> Places] /\ DOMAIN handle = Tasks
    BY DEF Shape
  <2>2. \/ Refuse(t)
        \/ /\ pc' = [pc EXCEPT ![t] = "store"]
           /\ handle' = [handle EXCEPT ![t] =
                [owner |-> o, url |-> url, segments |-> segments, client |-> 0]]
    BY <1>1, Zenon DEF Route
  <2>3. CASE Refuse(t)
    BY <2>1, <2>3 DEF Refuse
  <2>4. CASE /\ pc' = [pc EXCEPT ![t] = "store"]
             /\ handle' = [handle EXCEPT ![t] =
                  [owner |-> o, url |-> url, segments |-> segments, client |-> 0]]
    <3>1. pc'[t] = "store"
      BY <2>1, <2>4
    <3>2. handle'[t] = [owner |-> o, url |-> url, segments |-> segments, client |-> 0]
      BY <2>1, <2>4
    <3> QED BY <1>1, <3>1, <3>2, Zenon
  <2> QED BY <2>2, <2>3, <2>4
<1>2. ASSUME NEW input, NEW direction, RouteInput(t, input, direction) PROVE Refused \/ Good
  <2> HIDE DEF Refused, Good
  <2>1. Route(t, Chosen(input),
              IF input.bare THEN BareUrl(Chosen(input), input.text) ELSE input.url,
              <<>>, direction)
    BY <1>2 DEF RouteInput
  <2> QED BY <1>1, <2>1
<1>3. Refuse(t) => Refused
  BY DEF Shape, Refuse
<1>4. ASSUME NEW r \in Requests, r.op = "expand", RoutePattern(t, r.pattern)
      PROVE  Refused \/ Good
  <2> HIDE DEF Refused, Good
  <2>1. PICK q : q = r.pattern
    OBVIOUS
  <2>2. /\ ~q.bare => IsPattern(q)
        /\ q.bare /\ Active(q.text.segments) =>
             \A i \in DOMAIN backends : backends[i].patterns # None =>
                \/ backends[i].patterns[q.text] = None
                \/ IsPattern(backends[i].patterns[q.text])
    BY <1>4, <2>1, PatternAssumption
  <2> DEFINE glob(p) == IF Active(p.segments) THEN p.segments ELSE <<>>
             mapped == BarePattern(BareOwner, q.text)
  <2>3. ASSUME NEW p, IsPattern(p), NEW o, Route(t, o, PatternUrl(p), glob(p), "input")
        PROVE  Refused \/ Good
    <3>1. glob(p) # <<>> => glob(p) = p.segments /\ Active(p.segments)
      OBVIOUS
    <3>2. Active(p.segments) => IsGlob(PatternUrl(p), p.segments)
      <4> DEFINE u == PatternUrl(p)
                 b == p.base
                 path == [i \in DOMAIN p.segments |-> p.segments[i].spelling]
                 r2 == [base |-> u, segments |-> p.segments]
      <4>1. PICK c1, c2, c3, c4 : b = [scheme |-> c1, authority |-> c2, path |-> c3, query |-> c4]
        BY <2>3, Zenon DEF IsPattern
      <4>2. u = [scheme |-> c1, authority |-> c2, path |-> path, query |-> c4]
        BY <4>1 DEF PatternUrl
      <4> HIDE DEF u, path, b
      <4>3. u = [scheme |-> u.scheme, authority |-> u.authority, path |-> u.path, query |-> u.query]
        BY <4>2
      <4>4. StoreUrl(u) = StoreUrl(b)
        BY <4>1, <4>2 DEF StoreUrl
      <4>5. r2.base = u /\ r2.segments = p.segments
        OBVIOUS
      <4> HIDE DEF r2
      <4>6. IsPattern(r2)
        BY <2>3, <4>3, <4>4, <4>5 DEF IsPattern, b
      <4> QED BY <4>6 DEF IsGlob, r2, u
    <3> HIDE DEF glob
    <3> QED BY <1>1, <2>3, <3>1, <3>2
  <2>4. CASE q.bare /\ ~Active(q.text.segments)
    <3>1. RouteInput(t, q, "input")
      BY <1>4, <2>1, <2>4 DEF RoutePattern
    <3> QED BY <1>2, <3>1
  <2>5. CASE q.bare /\ Active(q.text.segments)
    <3>1. \/ Refuse(t)
          \/ mapped # None /\ Route(t, BareOwner, PatternUrl(mapped), glob(mapped), "input")
      BY <1>4, <2>1, <2>5 DEF RoutePattern
    <3>2. mapped # None => IsPattern(mapped)
      <4>1. BareOwner = 0 \/ BareOwner \in DOMAIN backends
        <5> DEFINE I == {i \in 1..Len(backends) : backends[i].map # None}
        <5>1. BareOwner = IF I # {} THEN Max(I) ELSE 0
          BY DEF BareOwner, SelectLastInSeq
        <5>2. DOMAIN backends = 1..Len(backends) /\ Len(backends) \in Nat
          BY RegistrationAssumption
        <5>3. I # {} => Max(I) \in I
          <6> SUFFICES ASSUME I # {} PROVE Max(I) \in I
            OBVIOUS
          <6> DEFINE J == {Len(backends) - i : i \in I}
          <6>1. J \subseteq Nat /\ J # {}
            BY <5>2
          <6>2. PICK x \in J : \A y \in J : x <= y
            <7> HIDE DEF J
            <7> QED BY <6>1, LeastNumber
          <6>3. PICK k \in I : x = Len(backends) - k
            OBVIOUS
          <6>4. \A i \in I : Len(backends) - i \in J
            OBVIOUS
          <6>5. \A i \in I : i \in Nat
            BY <5>2
          <6> HIDE DEF I, J
          <6>6. \A i \in I : k >= i
            BY <5>2, <6>2, <6>3, <6>4, <6>5
          <6>7. \E z \in I : \A y \in I : z >= y
            BY <6>6
          <6> QED BY <6>7 DEF Max
        <5> QED BY <5>1, <5>2, <5>3
      <4>2. mapped # None => BareOwner # 0 /\ backends[BareOwner].patterns # None
                             /\ mapped = backends[BareOwner].patterns[q.text]
        BY DEF BarePattern
      <4> HIDE DEF mapped
      <4> QED BY <2>2, <2>5, <4>1, <4>2
    <3> HIDE DEF mapped, glob
    <3> QED BY <1>3, <2>3, <3>1, <3>2
  <2>6. CASE ~q.bare
    <3>1. Route(t, SchemeOwner(q.base.scheme), PatternUrl(q), glob(q), "input")
      BY <1>4, <2>1, <2>6 DEF RoutePattern
    <3> QED BY <2>2, <2>3, <2>6, <3>1
  <2> QED BY <2>4, <2>5, <2>6
<1>5. PICK r \in Requests :
        \/ \E direction : RouteInput(t, r.input, direction)
        \/ r.op = "expand" /\ RoutePattern(t, r.pattern)
  BY DEF Begin
<1>6. Refused \/ Good
  <2> HIDE DEF Refused, Good
  <2> QED BY <1>2, <1>4, <1>5
<1> QED BY <1>6

(* A request begins. *)
LEMMA FindBegin ==
  ASSUME FindInv, backends \in Registrations, NEW t \in Tasks, Begin(t)
  PROVE  FindInv'
<1>1. /\ Shape /\ RouteAt(t) /\ StoreInv /\ pc[t] = "idle" /\ UNCHANGED <<objects, listing, found>>
  BY DEF FindInv, Begin, store
<1>2. Moves(t)
  BY <1>1, BeginMoves DEF Turned
<1>3. found'[t] = <<>>
  BY <1>1 DEF RouteAt
<1>4. CASE pc'[t] = "refused"
  BY <1>1, <1>2, <1>4, FindElsewhere DEF StoreInv
<1>5. ASSUME NEW o, NEW url, NEW segments, pc'[t] = "store",
             handle'[t] = [owner |-> o, url |-> url, segments |-> segments, client |-> 0],
             segments # <<>> => IsGlob(url, segments)
      PROVE  FindInv'
  <2>1. /\ handle'[t] = [owner |-> handle'[t].owner, url |-> handle'[t].url,
                         segments |-> handle'[t].segments, client |-> handle'[t].client]
        /\ handle'[t].segments = segments /\ handle'[t].url = url
    BY <1>5
  <2>2. RouteAt(t)'
    BY <1>3, <1>5, <2>1 DEF RouteAt
  <2>3. ListAt(t)'
    BY <1>5 DEF ListAt
  <2>4. StoreInv'
    BY <1>1 DEF StoreInv
  <2> QED BY <1>1, <1>2, <2>2, <2>3, <2>4, FindMoves
<1> QED BY <1>1, <1>4, <1>5, BeginRoutes

(* A task gets its client and goes on. *)
LEMMA FindClient ==
  ASSUME FindInv, NEW t \in Tasks, pc[t] \in {"store", "create"}, NEW STATE c, WithClient(t, c),
         UNCHANGED <<objects, found>>
  PROVE  FindInv'
<1>1. Shape /\ RouteAt(t) /\ StoreInv /\ found[t] = <<>>
  BY DEF FindInv, RouteAt
<1>2. Moves(t)
  BY <1>1, WithClientMoves
<1>3. /\ pc \in [Tasks -> Places] /\ DOMAIN handle = Tasks /\ DOMAIN listing = Tasks
  BY <1>1 DEF Shape, StoreInv
<1>4. PICK o, url, segments, d : handle[t] = [owner |-> o, url |-> url, segments |-> segments, client |-> d]
  BY <1>1, Zenon DEF RouteAt
<1>5. handle'[t] = [owner |-> o, url |-> url, segments |-> segments, client |-> c]
  BY <1>3, <1>4 DEF WithClient
<1>6. segments # <<>> => IsGlob(url, segments)
  BY <1>1, <1>4 DEF RouteAt
<1>7. pc'[t] = Resumed(t) /\ Resumed(t) \in {"claim", "list", "head"}
      /\ (Resumed(t) = "list" => segments # <<>>) /\ (Resumed(t) = "head" => segments = <<>>)
  BY <1>3, <1>4 DEF WithClient, Resumed
<1>8. RouteAt(t)'
  <2>1. /\ handle'[t] = [owner |-> handle'[t].owner, url |-> handle'[t].url,
                         segments |-> handle'[t].segments, client |-> handle'[t].client]
        /\ handle'[t].segments = segments /\ handle'[t].url = url
    BY <1>5
  <2> QED BY <1>6, <1>7, <2>1 DEF RouteAt
<1>9. ListAt(t)'
  <2>1. CASE pc'[t] # "list"
    BY <1>7, <2>1 DEF ListAt
  <2>2. CASE pc'[t] = "list"
    <3>1. Resumed(t) = "list" /\ IsGlob(url, segments)
      BY <1>6, <1>7, <2>2
    <3>2. listing'[t] = [returned |-> {}, steady |-> objects[StoreUrl(url)]]
      BY <1>3, <1>4, <3>1 DEF WithClient
    <3>3. objects[StoreUrl(url)] \subseteq Universe
      <4> DEFINE pattern == [base |-> url, segments |-> segments]
      <4>1. pattern.base = url
        OBVIOUS
      <4> HIDE DEF pattern
      <4>2. StoreUrl(url) \in Stores
        BY <3>1, <4>1 DEF IsGlob, IsPattern, pattern
      <4> QED BY <1>1, <4>2 DEF StoreInv
    <3>4. found'[t] = <<>>
      BY <1>1
    <3>5. IsGathered(listing'[t], found'[t], handle'[t].url, handle'[t].segments)
      BY <3>2, <3>3, <3>4, GatheredNone
    <3> QED BY <2>2, <3>5 DEF ListAt
  <2> QED BY <2>1, <2>2
<1>10. StoreInv' /\ \A u \in Tasks \ {t} : listing'[u] = listing[u] /\ found'[u] = found[u]
  BY <1>1, <1>3 DEF StoreInv, WithClient
<1> QED BY <1>2, <1>8, <1>9, <1>10, FindMoves

(* The listing returns one more object. *)
LEMMA FindListed ==
  ASSUME FindInv, NEW t \in Tasks, ListNext(t)
  PROVE  FindInv'
<1>1. Shape /\ RouteAt(t) /\ ListAt(t) /\ StoreInv
  BY DEF FindInv
<1>2. PICK p \in (objects[StoreUrl(handle[t].url)] \cap Listed(t)) \ listing[t].returned :
       /\ listing' = [listing EXCEPT ![t].returned = @ \cup {p}]
       /\ found' = [found EXCEPT ![t] =
            IF Matches(Pieces(handle[t].segments), p)
            THEN Append(@, [url |-> MatchedUrl(handle[t].url, p), path |-> p])
            ELSE @]
  BY DEF ListNext
<1>3. pc[t] = "list" /\ UNCHANGED <<pc, handle, objects>>
  BY DEF ListNext, Kept, store
<1>4. p \in Universe /\ p \notin listing[t].returned
  BY <1>2 DEF Listed
<1>5. DOMAIN listing = Tasks /\ DOMAIN found = Tasks
  BY <1>1 DEF StoreInv
<1>6. PICK l, f, url, segments : /\ l = listing[t] /\ f = found[t]
                                 /\ url = handle[t].url /\ segments = handle[t].segments
  OBVIOUS
<1>7. /\ listing'[t] = [l EXCEPT !.returned = @ \cup {p}]
      /\ found'[t] = IF Matches(Pieces(segments), p)
                     THEN Append(f, [url |-> MatchedUrl(url, p), path |-> p]) ELSE f
  BY <1>2, <1>5, <1>6
<1>8. IsGathered(l, f, url, segments) /\ p \notin l.returned
  BY <1>1, <1>3, <1>4, <1>6 DEF ListAt
<1>9. IsGathered(listing'[t], found'[t], url, segments)
  BY <1>4, <1>7, <1>8, GatheredOne
<1>10. ListAt(t)'
  BY <1>3, <1>6, <1>9 DEF ListAt
<1>11. RouteAt(t)'
  BY <1>1, <1>3 DEF RouteAt
<1>12. StoreInv' /\ \A u \in Tasks \ {t} : listing'[u] = listing[u] /\ found'[u] = found[u]
  BY <1>1, <1>2, <1>3, <1>5 DEF StoreInv
<1>13. Moves(t)
  BY <1>1, <1>3 DEF Shape, Moves
<1> QED BY <1>10, <1>11, <1>12, <1>13, FindMoves

(* Others create or delete an object. *)
LEMMA FindChange ==
  ASSUME FindInv, Change
  PROVE  FindInv'
<1>1. PICK s \in Stores, p \in Universe :
       /\ objects' = [objects EXCEPT ![s] = IF p \in @ THEN @ \ {p} ELSE @ \cup {p}]
       /\ listing' = [t \in Tasks |->
            IF pc[t] = "list" /\ StoreUrl(handle[t].url) = s
            THEN [listing[t] EXCEPT !.steady = @ \ {p}] ELSE listing[t]]
  BY DEF Change
<1>2. UNCHANGED <<pc, handle, found>> /\ Shape /\ StoreInv
  BY DEF Change, FindInv
<1>3. StoreInv'
  <2>1. objects' \in [Stores -> SUBSET Universe]
    BY <1>1, <1>2 DEF StoreInv
  <2>2. DOMAIN listing' = Tasks /\ DOMAIN found' = Tasks
    BY <1>1, <1>2 DEF StoreInv
  <2> QED BY <2>1, <2>2 DEF StoreInv
<1>4. ASSUME NEW u \in Tasks PROVE RouteAt(u)' /\ ListAt(u)'
  <2>1. RouteAt(u) /\ ListAt(u)
    BY DEF FindInv
  <2>2. CASE listing'[u] = listing[u]
    BY <1>2, <2>1, <2>2, FindStays
  <2>3. CASE pc[u] = "list" /\ listing'[u] = [listing[u] EXCEPT !.steady = @ \ {p}]
    <3>1. RouteAt(u)'
      BY <1>2, <2>1 DEF RouteAt
    <3>2. IsGathered(listing[u], found[u], handle[u].url, handle[u].segments)
      BY <2>1, <2>3 DEF ListAt
    <3>3. IsGathered(listing'[u], found[u], handle[u].url, handle[u].segments)
      <4>1. PICK l, f, url, segments : /\ l = listing[u] /\ f = found[u]
                                       /\ url = handle[u].url /\ segments = handle[u].segments
        OBVIOUS
      <4>2. IsGathered([l EXCEPT !.steady = @ \ {p}], f, url, segments)
        BY <3>2, <4>1, GatheredStill
      <4> QED BY <2>3, <4>1, <4>2
    <3>4. ListAt(u)'
      BY <1>2, <2>3, <3>3 DEF ListAt
    <3> QED BY <3>1, <3>4
  <2> QED BY <1>1, <2>2, <2>3
<1> QED BY <1>2, <1>3, <1>4 DEF FindInv, Shape

(* Every step keeps the invariant of what is found. *)
LEMMA FindKept == FindInv /\ ClientInv /\ [Next]_vars => FindInv'
<1> SUFFICES ASSUME FindInv, ClientInv, [Next]_vars
             PROVE  FindInv'
  OBVIOUS
<1>0. Shape /\ StoreInv /\ (phase = "open" => backends \in Registrations)
      /\ DOMAIN found = Tasks /\ pc \in [Tasks -> Places]
      /\ \A t \in Tasks : RouteAt(t) /\ ListAt(t)
  BY DEF FindInv, ClientInv, RegistryInv, Sound, StoreInv, Shape
<1>1. ASSUME UNCHANGED <<pc, handle, listing, found, objects>>
      PROVE  FindInv'
  <2>1. ASSUME NEW u \in Tasks PROVE RouteAt(u)' /\ ListAt(u)'
    BY <1>0, <1>1, FindStays
  <2> QED BY <1>0, <1>1, <2>1 DEF FindInv, Shape, StoreInv
<1>2. CASE CreateSession
  BY <1>1, <1>2 DEF CreateSession, tasks, store
<1>3. CASE Change
  BY <1>3, FindChange
<1>4. CASE UNCHANGED vars
  BY <1>1, <1>4 DEF vars, store
<1>5. ASSUME NEW t \in Tasks, Begin(t)
      PROVE  FindInv'
  <2>1. backends \in Registrations
    BY <1>0, <1>5 DEF Begin
  <2> QED BY <1>5, <2>1, FindBegin
<1>6. ASSUME NEW t \in Tasks, UseCached(t) \/ CreateClient(t)
      PROVE  FindInv'
  <2>1. /\ pc[t] \in {"store", "create"} /\ UNCHANGED <<objects, found>>
        /\ WithClient(t, cache[StoreUrl(handle[t].url)]) \/ WithClient(t, Len(made'))
    BY <1>6 DEF UseCached, CreateClient, store
  <2> QED BY <2>1, FindClient
<1>7. ASSUME NEW t \in Tasks, FindVacant(t)
      PROVE  FindInv'
  <2>1. /\ pc[t] = "store" /\ pc' = [pc EXCEPT ![t] = "create"]
        /\ UNCHANGED <<objects, handle, listing, found>>
    BY <1>7 DEF FindVacant, store
  <2>2. Moves(t) /\ pc'[t] = "create"
    BY <1>0, <2>1 DEF Shape, Places, Moves
  <2>3. RouteAt(t)'
    BY <1>0, <2>1, <2>2 DEF RouteAt
  <2>4. ListAt(t)'
    BY <2>2 DEF ListAt
  <2>5. StoreInv'
    BY <1>0, <2>1 DEF StoreInv
  <2> QED BY <2>1, <2>2, <2>3, <2>4, <2>5, FindMoves
<1>8. ASSUME NEW t \in Tasks, CreateFails(t)
      PROVE  FindInv'
  <2>1. Moves(t) /\ pc'[t] = "failed"
    BY <1>0, <1>8 DEF CreateFails, Shape, Places, Moves
  <2> QED BY <1>0, <1>8, <2>1, FindElsewhere DEF CreateFails, store
<1>9. ASSUME NEW t \in Tasks, HeadObject(t)
      PROVE  FindInv'
  <2>1. /\ Moves(t) /\ pc'[t] \in {"done", "failed"} /\ pc[t] = "head"
        /\ UNCHANGED <<objects, handle, listing>>
    BY <1>0, <1>9, StopMoves DEF HeadObject, Kept, Places, store
  <2>2. DOMAIN found' = Tasks /\ \A u \in Tasks \ {t} : found'[u] = found[u]
    BY <1>0, <1>9 DEF HeadObject
  <2>3. handle'[t].segments = <<>>
    BY <1>0, <2>1 DEF RouteAt
  <2>4. RouteAt(t)' /\ ListAt(t)'
    BY <1>0, <2>1, <2>3 DEF RouteAt, ListAt
  <2>5. StoreInv'
    BY <1>0, <2>1, <2>2 DEF StoreInv
  <2> QED BY <2>1, <2>2, <2>4, <2>5, FindMoves
<1>10. ASSUME NEW t \in Tasks, ListNext(t)
       PROVE  FindInv'
  BY <1>10, FindListed
<1>11. ASSUME NEW t \in Tasks, ListEnd(t)
       PROVE  FindInv'
  <2>1. /\ Moves(t) /\ pc'[t] = "done" /\ pc[t] = "list"
        /\ UNCHANGED <<objects, handle, listing, found>>
        /\ listing[t].steady \cap Listed(t) \subseteq listing[t].returned
    BY <1>0, <1>11, StopMoves DEF ListEnd, Kept, Places, store
  <2>2. RouteAt(t)'
    BY <1>0, <2>1 DEF RouteAt
  <2>3. ListAt(t)'
    BY <1>0, <2>1 DEF ListAt, Listed
  <2>4. StoreInv'
    BY <1>0, <2>1 DEF StoreInv
  <2> QED BY <2>1, <2>2, <2>3, <2>4, FindMoves
<1>12. ASSUME NEW t \in Tasks, ListFails(t)
       PROVE  FindInv'
  <2>1. /\ Moves(t) /\ pc'[t] = "failed" /\ UNCHANGED <<objects, handle, listing>>
    BY <1>0, <1>12, StopMoves DEF ListFails, Kept, Places, store
  <2>2. DOMAIN found' = Tasks /\ \A u \in Tasks \ {t} : found'[u] = found[u]
    BY <1>0, <1>12 DEF ListFails
  <2> QED BY <2>1, <2>2, FindElsewhere
<1>13. ASSUME NEW t \in Tasks, Claim(t)
       PROVE  FindInv'
  <2>1. Moves(t) /\ pc'[t] \in {"duplicate", "exists", "backend"}
    BY <1>0, <1>13, StopMoves DEF Claim, Kept, Places
  <2> QED BY <1>0, <1>13, <2>1, FindElsewhere DEF Claim, Kept, store
<1>14. ASSUME NEW t \in Tasks, CheckExisting(t) \/ PrepareBackend(t)
       PROVE  FindInv'
  <2>1. Moves(t) /\ pc'[t] \in {"backend", "prepared", "unprepared"}
    BY <1>0, <1>14, StopMoves DEF CheckExisting, PrepareBackend, Unprepared, Kept, Places
  <2> QED BY <1>0, <1>14, <2>1, FindElsewhere DEF CheckExisting, PrepareBackend, Kept, store
<1>15. QED
  BY <1>2, <1>3, <1>4, <1>5, <1>6, <1>7, <1>8, <1>9, <1>10, <1>11, <1>12, <1>13, <1>14 DEF Next

(* What was gathered at the end is what the glob stands for. *)
LEMMA FoundIsExact == FindInv => ExpansionExact
<1> SUFFICES ASSUME FindInv, NEW t \in Tasks, pc[t] = "done", handle[t].segments # <<>>
             PROVE  LET pieces == Pieces(handle[t].segments)
                        paths  == {found[t][i].path : i \in DOMAIN found[t]}
                    IN  /\ {p \in listing[t].steady : Matches(pieces, p)} \subseteq paths
                        /\ \A i \in DOMAIN found[t] :
                             /\ Matches(pieces, found[t][i].path)
                             /\ ObjectPath(found[t][i].url) = found[t][i].path
                             /\ StoreUrl(found[t][i].url) = StoreUrl(handle[t].url)
                             /\ found[t][i].url.query = handle[t].url.query
                             /\ \A j \in DOMAIN found[t] :
                                  found[t][i].path = found[t][j].path => i = j
  BY Zenon DEF ExpansionExact
<1>1. RouteAt(t) /\ ListAt(t)
  BY DEF FindInv
<1>2. PICK l, f, url, segments : /\ l = listing[t] /\ f = found[t]
                                 /\ url = handle[t].url /\ segments = handle[t].segments
  OBVIOUS
<1>3. IsGlob(url, segments)
  BY <1>1, <1>2 DEF RouteAt
<1>4. IsGathered(l, f, url, segments) /\ l.steady \cap Listed(t) \subseteq l.returned
  BY <1>1, <1>2 DEF ListAt
<1>5. ASSUME NEW p \in l.steady, Matches(Pieces(segments), p)
      PROVE  \E i \in DOMAIN f : f[i].path = p
  <2>1. p \in Universe
    BY <1>4 DEF IsGathered
  <2>2. p \in Listed(t)
    BY <1>2, <1>3, <1>5, <2>1, MatchIsListed DEF Listed
  <2> QED BY <1>4, <1>5, <2>2 DEF IsGathered
<1>6. ASSUME NEW i \in DOMAIN f
      PROVE  /\ Matches(Pieces(segments), f[i].path)
             /\ ObjectPath(f[i].url) = f[i].path
             /\ StoreUrl(f[i].url) = StoreUrl(url)
             /\ f[i].url.query = url.query
  <2>1. PICK p : p = f[i].path
    OBVIOUS
  <2>2. /\ f[i] = [url |-> MatchedUrl(url, p), path |-> p] /\ p \in l.returned
        /\ Matches(Pieces(segments), p) /\ l.returned \subseteq Universe
    BY <1>4, <2>1 DEF IsGathered
  <2>3. f[i].url = MatchedUrl(url, p)
    BY <2>2
  <2> QED BY <1>3, <2>1, <2>2, <2>3, UrlLeadsBack
<1>7. \A i, j \in DOMAIN f : f[i].path = f[j].path => i = j
  BY <1>4 DEF IsGathered
<1> QED BY <1>2, <1>5, <1>6, <1>7

(* A glob that was expanded gave each matching object that was there the whole
   time, once, and none that does not match, by a URL that leads back to it
   (StorageSession::expand_input_pattern). *)
THEOREM ExpansionIsExact == Spec => []ExpansionExact
<1>1. Init => FindInv
  <2> SUFFICES ASSUME Init PROVE FindInv
    OBVIOUS
  <2>1. Shape
    BY DEF Init, Shape, Places
  <2>2. StoreInv
    <3>1. objects \in [Stores -> SUBSET Universe]
      BY UniverseAssumption DEF Init
    <3> QED BY <3>1 DEF Init, StoreInv
  <2>3. ASSUME NEW t \in Tasks PROVE RouteAt(t) /\ ListAt(t)
    BY DEF Init, RouteAt, ListAt
  <2> QED BY <2>1, <2>2, <2>3 DEF FindInv
<1>2. Init => ClientInv
  BY ClientsFirst
<1>3. QED
  BY <1>1, <1>2, ClientsKept, FindKept, FoundIsExact, PTL DEF Spec

-----------------------------------------------------------------------------
(***************************************************************************)
(* ArrowInput                                                              *)
(***************************************************************************)

-----------------------------------------------------------------------------
(* What a reader keeps *)

(* The bytes of the first n dictionaries of an object. *)
FirstBytes(o, n) == SumOf([i \in 1..n |-> o.dictionaries[i].len])

(* They are a number, none at first, and more with each dictionary. *)
LEMMA FirstBytesGrow ==
  ASSUME NEW o, IsObject(o), NEW n \in Nat, n <= Len(o.dictionaries)
  PROVE  /\ FirstBytes(o, n) \in Nat
         /\ n = 0 => FirstBytes(o, n) = 0
         /\ n < Len(o.dictionaries) =>
              FirstBytes(o, n + 1) = FirstBytes(o, n) + o.dictionaries[n + 1].len
<1>1. PICK d : d = o.dictionaries /\ d \in Seq(Range(d)) /\ \A b \in Range(d) : b.len \in Nat
  BY DEF IsObject
<1>2. Len(d) \in Nat /\ DOMAIN d = 1..Len(d) /\ \A i \in 1..Len(d) : d[i] \in Range(d)
  BY <1>1 DEF Range
<1>3. \A i \in 1..Len(d) : d[i].len \in Nat
  BY <1>1, <1>2
<1>4. PICK s : s = [i \in 1..n |-> d[i].len]
  OBVIOUS
<1>5. s \in Seq(Nat) /\ Len(s) = n /\ \A i \in 1..n : s[i] = d[i].len
  <2>1. \A i \in 1..n : d[i].len \in Nat
    BY <1>1, <1>2, <1>3
  <2>2. s \in [1..n -> Nat]
    BY <1>4, <2>1
  <2> QED BY <1>4, <2>2
<1>6. FirstBytes(o, n) = SumOf(s)
  BY <1>1, <1>4 DEF FirstBytes
<1>7. SumOf(s) \in Nat
  BY <1>5, SumType
<1>8. ASSUME n = 0 PROVE SumOf(s) = 0
  <2>1. s = <<>>
    BY <1>5, <1>8
  <2> QED BY <2>1, SumOfNothing
<1>9. ASSUME n < Len(d) PROVE FirstBytes(o, n + 1) = SumOf(s) + d[n + 1].len
  <2>1. d[n + 1].len \in Nat
    BY <1>2, <1>3, <1>9
  <2>2. PICK x : x = d[n + 1].len
    OBVIOUS
  <2>3. PICK t : t = [i \in 1..(n + 1) |-> d[i].len]
    OBVIOUS
  <2>4. t = Append(s, x)
    <3>1. Append(s, x) \in Seq(Nat) /\ Len(Append(s, x)) = n + 1
      BY <1>5, <2>1, <2>2
    <3>2. \A i \in 1..(n + 1) : Append(s, x)[i] = d[i].len
      <4>1. TAKE i \in 1..(n + 1)
      <4>2. i \in 1..n \/ i = n + 1
        OBVIOUS
      <4>3. CASE i \in 1..n
        <5>1. Append(s, x)[i] = s[i]
          BY <1>5, <2>1, <2>2, <4>3
        <5> QED BY <1>5, <4>3, <5>1
      <4>4. CASE i = n + 1
        <5>1. Append(s, x)[n + 1] = x
          BY <1>5, <2>1, <2>2
        <5> QED BY <2>2, <4>4, <5>1
      <4> QED BY <4>2, <4>3, <4>4
    <3>3. PICK u : u = Append(s, x)
      OBVIOUS
    <3>4. u = [i \in 1..(n + 1) |-> u[i]]
      <4>1. u \in Seq(Nat) /\ Len(u) = n + 1
        BY <3>1, <3>3
      <4> QED BY <4>1
    <3>5. \A i \in 1..(n + 1) : u[i] = d[i].len
      BY <3>2, <3>3
    <3> QED BY <2>3, <3>3, <3>4, <3>5, Zenon
  <2>5. FirstBytes(o, n + 1) = SumOf(t)
    BY <1>1, <2>3 DEF FirstBytes
  <2> QED BY <1>5, <2>1, <2>2, <2>4, <2>5, SumAppend
<1> QED BY <1>1, <1>6, <1>7, <1>8, <1>9

(* What a reader keeps are its first dictionaries. *)
LEMMA KeptIsFirst ==
  ASSUME NEW o, IsObject(o), NEW n \in Nat, n <= Len(o.dictionaries)
  PROVE  BytesOf(SubSeq(o.dictionaries, 1, n)) = FirstBytes(o, n)
<1>1. PICK d : d = o.dictionaries /\ d \in Seq(Range(d))
  BY DEF IsObject
<1>2. PICK s : s = SubSeq(d, 1, n)
  OBVIOUS
<1>3. DOMAIN s = 1..n /\ \A i \in 1..n : s[i] = d[i]
  BY <1>1, <1>2
<1>4. [i \in DOMAIN s |-> s[i].len] = [i \in 1..n |-> d[i].len]
  BY <1>3
<1> QED BY <1>1, <1>2, <1>4, Zenon DEF BytesOf, FirstBytes

(* Where a partition is with its file, and whether by its layout. *)
Busy == {"layout", "filling", "file", "block", "stream", "chunk", "yielded"}
Uses(r, v) == r \in {"layout", "filling", "file", "block"} \/ (r = "yielded" /\ v = "file")

HasNext(o, a) == a.batches < Len(o.batches)
NextEnd(o, a) == End(o.batches[a.batches + 1])
LastEnd(o, a) == End(o.batches[a.batches])

(* What is reserved, s, for a reader that stands at r in the object o, has read
   a of it and delivered its batch k last. *)
WithFile(r, o, a, s, k) ==
  /\ o.variant = "file" /\ a.dictionaries <= Len(o.dictionaries)
  /\ r \in {"layout", "filling"} => a.dictionaries = 0 /\ s = 0
  /\ r = "file" => s = FirstBytes(o, a.dictionaries)
  /\ r = "yielded" => /\ k \in DOMAIN o.batches
                      /\ s = FirstBytes(o, a.dictionaries) + o.batches[k].memory
WithStream(r, o, a, s, k) ==
  /\ o.variant = "stream"
  /\ r = "stream" => s = 0 /\ (HasNext(o, a) => a.bytes <= NextEnd(o, a))
  /\ r = "chunk" => (HasNext(o, a) => a.bytes - NextEnd(o, a) <= s)
  /\ r = "yielded" => /\ k \in DOMAIN o.batches /\ a.batches \in DOMAIN o.batches
                      /\ LastEnd(o, a) <= a.bytes
                      /\ a.bytes - LastEnd(o, a) + o.batches[k].memory <= s
MayRead(r, o, a, s, k) ==
  \/ r \in {"layout", "filling", "file", "block", "yielded"} /\ WithFile(r, o, a, s, k)
  \/ r \in {"stream", "chunk", "yielded"} /\ WithStream(r, o, a, s, k)

Counters == [dictionaries : Nat, batches : Nat, bytes : Nat]

(* One dictionary or one batch more. *)
LEMMA MoreCounted ==
  ASSUME NEW a \in Counters
  PROVE  /\ [a EXCEPT !.dictionaries = @ + 1]
              = [dictionaries |-> a.dictionaries + 1, batches |-> a.batches, bytes |-> a.bytes]
         /\ [a EXCEPT !.batches = @ + 1]
              = [dictionaries |-> a.dictionaries, batches |-> a.batches + 1, bytes |-> a.bytes]
         /\ [a EXCEPT !.dictionaries = @ + 1] \in Counters
         /\ [a EXCEPT !.batches = @ + 1] \in Counters
BY DEF Counters

(* More bytes. *)
LEMMA MoreBytes ==
  ASSUME NEW a \in Counters, NEW end \in Nat
  PROVE  /\ [a EXCEPT !.bytes = end]
              = [dictionaries |-> a.dictionaries, batches |-> a.batches, bytes |-> end]
         /\ [a EXCEPT !.bytes = end] \in Counters
BY DEF Counters

(* The numbers of an object's batches. *)
LEMMA BatchNumbers ==
  ASSUME NEW o, IsObject(o)
  PROVE  /\ Len(o.batches) \in Nat /\ DOMAIN o.batches = 1..Len(o.batches)
         /\ \A i \in 1..Len(o.batches) :
              /\ o.batches[i].memory \in Nat /\ o.batches[i].len \in Nat \ {0}
              /\ o.batches[i].at \in Nat /\ o.batches[i].rows \in Nat
              /\ End(o.batches[i]) \in Nat \ {0} /\ o.batches[i].at < End(o.batches[i])
         /\ o.variant = "stream" => \A i, j \in 1..Len(o.batches) :
              i < j => End(o.batches[i]) < End(o.batches[j])
<1>1. PICK b : b = o.batches /\ b \in Seq(Range(b))
               /\ \A x \in Range(b) : /\ x.at \in Nat /\ x.len \in Nat \ {0}
                                      /\ x.memory \in Nat /\ x.rows \in Nat
  BY DEF IsObject
<1>2. Len(b) \in Nat /\ DOMAIN b = 1..Len(b) /\ \A i \in 1..Len(b) : b[i] \in Range(b)
  BY <1>1 DEF Range
<1>3. \A i \in 1..Len(b) : /\ b[i].memory \in Nat /\ b[i].len \in Nat \ {0}
                           /\ b[i].at \in Nat /\ b[i].rows \in Nat
  BY <1>1, <1>2
<1>4. \A i \in 1..Len(b) : End(b[i]) \in Nat \ {0} /\ b[i].at < End(b[i])
  BY <1>3 DEF End
<1>5. o.variant = "stream" => \A i, j \in 1..Len(b) : i < j => End(b[i]) < End(b[j])
  <2> SUFFICES ASSUME o.variant = "stream", NEW i \in 1..Len(b), NEW j \in 1..Len(b), i < j
               PROVE  End(b[i]) < End(b[j])
    OBVIOUS
  <2>1. End(b[i]) <= b[j].at
    BY <1>1, <1>2 DEF IsObject
  <2>2. End(b[i]) \in Nat /\ b[j].at \in Nat /\ End(b[j]) \in Nat /\ b[j].at < End(b[j])
    BY <1>3, <1>4
  <2> QED BY ONLY <2>1, <2>2
<1> QED BY <1>1, <1>2, <1>3, <1>4, <1>5

(* The batch that is next, and where it ends. *)
LEMMA NextIs ==
  ASSUME NEW o, IsObject(o), NEW a \in Counters, HasNext(o, a)
  PROVE  a.batches + 1 \in 1..Len(o.batches) /\ NextEnd(o, a) \in Nat \ {0}
<1>1. PICK j : j = a.batches + 1
  OBVIOUS
<1>2. j \in 1..Len(o.batches)
  <2>1. Len(o.batches) \in Nat /\ a.batches \in Nat /\ a.batches < Len(o.batches)
    BY BatchNumbers DEF Counters, HasNext
  <2> QED BY <1>1, <2>1
<1>3. End(o.batches[j]) \in Nat \ {0}
  BY <1>2, BatchNumbers
<1> QED BY <1>1, <1>2, <1>3 DEF NextEnd

(* A file that is opened: nothing is read, nothing reserved. *)
LEMMA OpenFits ==
  ASSUME NEW o, IsObject(o), NEW k
  PROVE  /\ o.variant = "file" => MayRead("layout", o, AtStart, 0, k)
         /\ o.variant = "stream" => MayRead("stream", o, AtStart, 0, k)
<1>1. AtStart.dictionaries = 0 /\ AtStart.batches = 0 /\ AtStart.bytes = 0
  BY DEF AtStart
<1>2. Len(o.dictionaries) \in Nat
  <2>1. PICK d : d = o.dictionaries /\ d \in Seq(Range(d))
    BY DEF IsObject
  <2> QED BY <2>1
<1>3. o.variant = "file" => WithFile("layout", o, AtStart, 0, k)
  BY <1>1, <1>2 DEF WithFile
<1>4. HasNext(o, AtStart) => AtStart.bytes <= NextEnd(o, AtStart)
  BY <1>1, BatchNumbers DEF HasNext, NextEnd
<1>5. o.variant = "stream" => WithStream("stream", o, AtStart, 0, k)
  BY <1>4 DEF WithStream
<1> QED BY <1>3, <1>5 DEF MayRead

(* A layout is filled and found to be: nothing else changes. *)
LEMMA LayoutFits ==
  ASSUME NEW o, IsObject(o), NEW a, NEW s, NEW k,
         MayRead("layout", o, a, s, k) \/ MayRead("filling", o, a, s, k)
  PROVE  /\ MayRead("layout", o, a, s, k) /\ MayRead("filling", o, a, s, k)
         /\ MayRead("file", o, a, s, k) /\ o.variant = "file"
<1>1. o.variant = "file" /\ a.dictionaries = 0 /\ s = 0 /\ 0 <= Len(o.dictionaries)
  BY DEF MayRead, WithFile, WithStream
<1>2. FirstBytes(o, 0) = 0
  BY <1>1, FirstBytesGrow
<1> QED BY <1>1, <1>2 DEF MayRead, WithFile

(* A dictionary is read, and kept. *)
LEMMA DictionaryFits ==
  ASSUME NEW o, IsObject(o), NEW a \in Counters, NEW s, NEW k, MayRead("file", o, a, s, k),
         a.dictionaries < Len(o.dictionaries),
         NEW n, n = BytesOf(SubSeq(o.dictionaries, 1, a.dictionaries))
                      + o.dictionaries[a.dictionaries + 1].len
  PROVE  n \in Nat /\ MayRead("file", o, [a EXCEPT !.dictionaries = @ + 1], n, k)
<1>1. PICK m : m = a.dictionaries /\ m \in Nat
  BY DEF Counters
<1>2. o.variant = "file" /\ m < Len(o.dictionaries)
  BY <1>1 DEF MayRead, WithFile, WithStream
<1>3. Len(o.dictionaries) \in Nat
  <2>1. PICK d : d = o.dictionaries /\ d \in Seq(Range(d))
    BY DEF IsObject
  <2> QED BY <2>1
<1>4. n = FirstBytes(o, m) + o.dictionaries[m + 1].len
  BY <1>1, <1>2, <1>3, KeptIsFirst
<1>5. n = FirstBytes(o, m + 1)
  BY <1>1, <1>2, <1>3, <1>4, FirstBytesGrow
<1>6. n \in Nat
  BY <1>1, <1>2, <1>3, <1>5, FirstBytesGrow
<1>7a. PICK c : c = [a EXCEPT !.dictionaries = @ + 1]
  OBVIOUS
<1>7. c = [a EXCEPT !.dictionaries = @ + 1] /\ c.dictionaries = m + 1
  BY <1>7a, <1>1, MoreCounted
<1>8. WithFile("file", o, c, n, k)
  BY <1>1, <1>2, <1>3, <1>5, <1>7 DEF WithFile
<1> QED BY <1>6, <1>7, <1>8 DEF MayRead

(* What a reader of a file keeps is what is reserved for it. *)
LEMMA FileKeeps ==
  ASSUME NEW o, IsObject(o), NEW a \in Counters, NEW s, NEW k, MayRead("file", o, a, s, k)
  PROVE  /\ o.variant = "file" /\ s \in Nat
         /\ s = BytesOf(SubSeq(o.dictionaries, 1, a.dictionaries))
<1>1. o.variant = "file" /\ a.dictionaries <= Len(o.dictionaries)
      /\ s = FirstBytes(o, a.dictionaries) /\ a.dictionaries \in Nat
  BY DEF MayRead, WithFile, WithStream, Counters
<1> QED BY <1>1, KeptIsFirst, FirstBytesGrow

(* A block is reserved beside the dictionaries, *)
LEMMA BlockTaken ==
  ASSUME NEW o, IsObject(o), NEW a \in Counters, NEW s, NEW k, MayRead("file", o, a, s, k),
         NEW j \in DOMAIN o.batches, NEW n,
         n = BytesOf(SubSeq(o.dictionaries, 1, a.dictionaries)) + o.batches[j].len
  PROVE  n \in Nat /\ MayRead("block", o, a, n, k) /\ o.variant = "file"
<1>1. o.variant = "file" /\ a.dictionaries <= Len(o.dictionaries) /\ s \in Nat
      /\ n = s + o.batches[j].len
  BY FileKeeps DEF MayRead, WithFile, WithStream
<1>2. n \in Nat
  BY <1>1, BatchNumbers
<1> QED BY <1>1, <1>2 DEF MayRead, WithFile

(* and then decoded to a batch. *)
LEMMA BlockFits ==
  ASSUME NEW o, IsObject(o), NEW a \in Counters, NEW s, NEW k, MayRead("block", o, a, s, k),
         NEW j \in DOMAIN o.batches, NEW n,
         n = BytesOf(SubSeq(o.dictionaries, 1, a.dictionaries)) + o.batches[j].memory
  PROVE  n \in Nat /\ MayRead("yielded", o, [a EXCEPT !.batches = @ + 1], n, j)
         /\ o.variant = "file"
<1>1. o.variant = "file" /\ a.dictionaries <= Len(o.dictionaries) /\ a.dictionaries \in Nat
  BY DEF MayRead, WithFile, WithStream, Counters
<1>2. n = FirstBytes(o, a.dictionaries) + o.batches[j].memory
      /\ FirstBytes(o, a.dictionaries) \in Nat
  BY <1>1, KeptIsFirst, FirstBytesGrow
<1>3a. PICK c : c = [a EXCEPT !.batches = @ + 1]
  OBVIOUS
<1>3. c = [a EXCEPT !.batches = @ + 1] /\ c.dictionaries = a.dictionaries
  BY <1>3a, MoreCounted
<1>4. n \in Nat
  BY <1>2, BatchNumbers
<1>5. WithFile("yielded", o, c, n, j)
  BY <1>1, <1>2, <1>3 DEF WithFile
<1> QED BY <1>1, <1>3, <1>4, <1>5 DEF MayRead

(* The batch of a file is gone. *)
LEMMA FilePolled ==
  ASSUME NEW o, IsObject(o), NEW a \in Counters, NEW s, NEW k, MayRead("yielded", o, a, s, k),
         o.variant = "file", NEW n, n = BytesOf(SubSeq(o.dictionaries, 1, a.dictionaries))
  PROVE  n \in Nat /\ n <= s /\ MayRead("file", o, a, n, k)
<1>1. WithFile("yielded", o, a, s, k)
  BY DEF MayRead, WithStream
<1>2. a.dictionaries <= Len(o.dictionaries) /\ a.dictionaries \in Nat
      /\ k \in DOMAIN o.batches /\ s = FirstBytes(o, a.dictionaries) + o.batches[k].memory
  BY <1>1 DEF WithFile, Counters
<1>3. n = FirstBytes(o, a.dictionaries) /\ n \in Nat /\ o.batches[k].memory \in Nat
  <2>1. o.batches[k].memory \in Nat
    BY <1>2, BatchNumbers
  <2> QED BY <1>2, <2>1, KeptIsFirst, FirstBytesGrow
<1>4. WithFile("file", o, a, n, k)
  BY <1>2, <1>3 DEF WithFile
<1> QED BY <1>2, <1>3, <1>4 DEF MayRead

(* A chunk is read: it begins before the next batch ends. *)
LEMMA ChunkFits ==
  ASSUME NEW o, IsObject(o), NEW a \in Counters, NEW s, NEW k, MayRead("stream", o, a, s, k),
         NEW end \in Nat, a.bytes < end
  PROVE  end - a.bytes \in Nat /\ MayRead("chunk", o, [a EXCEPT !.bytes = end], end - a.bytes, k)
<1>1. o.variant = "stream" /\ (HasNext(o, a) => a.bytes <= NextEnd(o, a))
  BY DEF MayRead, WithFile, WithStream
<1>2a. PICK c : c = [a EXCEPT !.bytes = end]
  OBVIOUS
<1>2. c = [a EXCEPT !.bytes = end] /\ c.batches = a.batches /\ c.bytes = end
  BY <1>2a, MoreBytes
<1>3. a.bytes \in Nat /\ a.batches \in Nat
  BY DEF Counters
<1>4. HasNext(o, c) => c.bytes - NextEnd(o, c) <= end - a.bytes
  <2> SUFFICES ASSUME HasNext(o, c) PROVE c.bytes - NextEnd(o, c) <= end - a.bytes
    OBVIOUS
  <2>1. HasNext(o, a) /\ NextEnd(o, c) = NextEnd(o, a)
    BY <1>2 DEF HasNext, NextEnd
  <2>2. NextEnd(o, a) \in Nat
    BY <2>1, NextIs
  <2> QED BY <1>1, <1>2, <1>3, <2>1, <2>2
<1>5. WithStream("chunk", o, c, end - a.bytes, k)
  BY <1>1, <1>4 DEF WithStream
<1> QED BY <1>2, <1>3, <1>5 DEF MayRead

(* A batch that ends in the chunk is decoded. *)
LEMMA DecodeFits ==
  ASSUME NEW o, IsObject(o), NEW a \in Counters, NEW s \in Nat, NEW k,
         MayRead("chunk", o, a, s, k), HasNext(o, a), NextEnd(o, a) <= a.bytes,
         NEW n, n = s + o.batches[a.batches + 1].memory
  PROVE  n \in Nat /\ MayRead("yielded", o, [a EXCEPT !.batches = @ + 1], n, a.batches + 1)
<1>1. o.variant = "stream" /\ a.bytes - NextEnd(o, a) <= s
  BY DEF MayRead, WithFile, WithStream
<1>2. a.bytes \in Nat /\ a.batches \in Nat
  BY DEF Counters
<1>3. PICK j : j = a.batches + 1 /\ j \in 1..Len(o.batches)
  BY <1>2, BatchNumbers DEF HasNext
<1>4a. PICK c : c = [a EXCEPT !.batches = @ + 1]
  OBVIOUS
<1>4. c = [a EXCEPT !.batches = @ + 1] /\ c.batches = j /\ c.bytes = a.bytes
  BY <1>4a, <1>3, MoreCounted
<1>5. NextEnd(o, a) \in Nat /\ o.batches[j].memory \in Nat /\ j \in DOMAIN o.batches
  BY <1>3, BatchNumbers DEF NextEnd
<1>6. LastEnd(o, c) = NextEnd(o, a)
  BY <1>3, <1>4 DEF LastEnd, NextEnd
<1>7. n = s + o.batches[j].memory
  BY <1>3
<1>8. n \in Nat
  BY <1>5, <1>7
<1>9. c.bytes - LastEnd(o, c) + o.batches[j].memory <= n /\ LastEnd(o, c) <= c.bytes
  <2>1. PICK e, m : e = NextEnd(o, a) /\ m = o.batches[j].memory
    OBVIOUS
  <2>2. e \in Nat /\ m \in Nat /\ a.bytes - e <= s /\ e <= a.bytes /\ n = s + m
    BY <1>1, <1>5, <1>7, <2>1
  <2>3. a.bytes - e + m <= n
    BY <1>2, <2>2
  <2> QED BY <1>4, <1>6, <2>1, <2>2, <2>3
<1>10. WithStream("yielded", o, c, n, j)
  BY <1>1, <1>4, <1>5, <1>9 DEF WithStream
<1> QED BY <1>3, <1>4, <1>8, <1>10 DEF MayRead

(* No batch ends in the rest of the chunk. *)
LEMMA ChunkEndsFits ==
  ASSUME NEW o, IsObject(o), NEW a \in Counters, NEW s, NEW k, MayRead("chunk", o, a, s, k),
         ~(HasNext(o, a) /\ NextEnd(o, a) <= a.bytes)
  PROVE  MayRead("stream", o, a, 0, k)
<1>1. o.variant = "stream" /\ a.bytes \in Nat /\ a.batches \in Nat
  BY DEF MayRead, WithFile, WithStream, Counters
<1>2. HasNext(o, a) => a.bytes <= NextEnd(o, a)
  <2> SUFFICES ASSUME HasNext(o, a) PROVE a.bytes <= NextEnd(o, a)
    OBVIOUS
  <2>1. NextEnd(o, a) \in Nat
    BY NextIs
  <2> QED BY <1>1, <2>1
<1> QED BY <1>1, <1>2 DEF MayRead, WithStream

(* The batch of a stream is gone, the rest of the chunk stays. *)
LEMMA StreamPolled ==
  ASSUME NEW o, IsObject(o), NEW a \in Counters, NEW s \in Nat, NEW k,
         MayRead("yielded", o, a, s, k),
         o.variant # "file", NEW n, n = a.bytes - LastEnd(o, a)
  PROVE  n \in Nat /\ n <= s /\ MayRead("chunk", o, a, n, k)
<1>1. WithStream("yielded", o, a, s, k)
  BY DEF MayRead, WithFile
<1>2. /\ k \in DOMAIN o.batches /\ a.batches \in DOMAIN o.batches
      /\ LastEnd(o, a) <= a.bytes /\ n + o.batches[k].memory <= s /\ o.variant = "stream"
  BY <1>1 DEF WithStream
<1>3. LastEnd(o, a) \in Nat /\ o.batches[k].memory \in Nat /\ a.bytes \in Nat /\ a.batches \in Nat
  BY <1>2, BatchNumbers DEF LastEnd, Counters
<1>4. n \in Nat /\ n <= s
  BY <1>2, <1>3
<1>5. HasNext(o, a) => a.bytes - NextEnd(o, a) <= n
  <2> SUFFICES ASSUME HasNext(o, a) PROVE a.bytes - NextEnd(o, a) <= n
    OBVIOUS
  <2>0. Len(o.batches) \in Nat /\ a.batches \in 1..Len(o.batches) /\ a.batches < Len(o.batches)
    BY <1>2, BatchNumbers DEF HasNext
  <2>1. PICK i, j : i = a.batches /\ j = i + 1 /\ i \in 1..Len(o.batches) /\ j \in 1..Len(o.batches)
    BY <2>0
  <2>2. LastEnd(o, a) = End(o.batches[i]) /\ NextEnd(o, a) = End(o.batches[j])
    BY <2>1 DEF LastEnd, NextEnd
  <2>3. LastEnd(o, a) <= NextEnd(o, a) /\ NextEnd(o, a) \in Nat
    <3>1. i < j
      BY <2>0, <2>1
    <3>2. End(o.batches[i]) < End(o.batches[j]) /\ End(o.batches[i]) \in Nat /\ End(o.batches[j]) \in Nat
      BY <1>2, <2>1, <3>1, BatchNumbers
    <3> QED BY <2>2, <3>2
  <2> QED BY <1>3, <2>3
<1>6. WithStream("chunk", o, a, n, k)
  BY <1>2, <1>5 DEF WithStream
<1> QED BY <1>4, <1>6 DEF MayRead

ReaderPlaces == Busy \cup Ended \cup {"next"}
FileRanges == [file : Files, lo : Int, hi : Int]
Offers == Files \X Nat

(* The types that the argument needs. *)
ArrowTypes ==
  /\ group \in Groups /\ target \in Targets
  /\ IsFiniteSet(Partitions) /\ reader \in [Partitions -> ReaderPlaces]
  /\ work \in [Partitions -> Seq(FileRanges)] /\ at \in [Partitions -> Counters]
  /\ out \in [Partitions -> Seq(Offers)] /\ reserved \in [Partitions -> Nat]
  /\ leases \in [Files -> SUBSET Partitions]
  /\ cell \in [Files -> {"empty", "filling", "ready"}]

(* Who is with a file may be, and reserves what it needs; who is with none
   reserves nothing. *)
ReadersFit == \A p \in Partitions :
  /\ reader[p] \in Busy =>
       /\ work[p] # <<>>
       /\ MayRead(reader[p], Source(p), at[p], reserved[p], Last(out[p])[2])
  /\ reader[p] \notin Busy => reserved[p] = 0

(* Partition p reads file f by its layout. *)
HasLayout(p, f) ==
  work[p] # <<>> /\ File(p) = f /\ Uses(reader[p], group[f].variant)

(* The leases are those who read by the layout. *)
LeasesFit == \A p \in Partitions, f \in Files : p \in leases[f] <=> HasLayout(p, f)

(* A cell that nobody leases is empty; one that is being filled has one who
   fills it; whoever reads by a layout has it ready. *)
CellsFit ==
  /\ \A f \in Files : leases[f] = {} => cell[f] = "empty"
  /\ \A p \in Partitions, f \in Files : HasLayout(p, f) /\ reader[p] = "filling" =>
       /\ cell[f] = "filling"
       /\ \A q \in Partitions : HasLayout(q, f) /\ reader[q] = "filling" => q = p
  /\ \A p \in Partitions, f \in Files :
       HasLayout(p, f) /\ reader[p] \in {"file", "block", "yielded"} => cell[f] = "ready"

PoolFits == PoolUsed <= PoolSize

(* A block that is read is one of the range, and has its reservation. *)
BlocksFit == \A p \in Partitions : reader[p] = "block" =>
  /\ at[p].batches < Len(Mine(p))
  /\ reserved[p] = Needed(p, NextBlock(p).block.len)

ArrowInv == ArrowTypes /\ ReadersFit /\ LeasesFit /\ CellsFit /\ PoolFits

-----------------------------------------------------------------------------
(* What a group of files is *)

(* The objects of a group. *)
LEMMA GroupFits ==
  ASSUME group \in Groups
  PROVE  /\ Len(group) \in Nat \ {0} /\ Files = 1..Len(group) /\ IsFiniteSet(Files)
         /\ \A f \in Files : IsObject(group[f])
         /\ \A f \in Files : /\ group[f].footer \in Nat /\ group[f].size \in Nat \ {0}
                             /\ group[f].variant \in {"file", "stream"}
<1>1. PICK g : g = group /\ g # <<>> /\ g \in Seq(Range(g)) /\ \A o \in Range(g) : IsObject(o)
  BY ArrowInputAssumption
<1>2. Len(g) \in Nat \ {0} /\ DOMAIN g = 1..Len(g)
  BY <1>1
<1>3. \A f \in DOMAIN g : IsObject(g[f])
  BY <1>1 DEF Range
<1>4. IsFiniteSet(1..Len(g))
  BY <1>2, FS_Interval
<1>5. \A f \in DOMAIN g : /\ g[f].footer \in Nat /\ g[f].size \in Nat \ {0}
                          /\ g[f].variant \in {"file", "stream"}
  BY <1>3 DEF IsObject
<1> QED BY <1>1, <1>2, <1>3, <1>4, <1>5 DEF Files

-----------------------------------------------------------------------------
(* The pool *)

(* What the layouts in the cells c hold. *)
LayoutsOf(g, c) == [f \in DOMAIN g |-> IF c[f] = "empty" THEN 0 ELSE g[f].footer]

(* The pool holds what the readers and the layouts do. *)
LEMMA PoolIs ==
  PoolUsed = SumOf(reserved) + SumOf(LayoutsOf(group, cell))
BY Zenon DEF PoolUsed, LayoutsOf, LayoutBytes, Files

(* And after a step. *)
LEMMA PoolBecomes ==
  PoolUsed' = SumOf(reserved') + SumOf(LayoutsOf(group', cell'))
BY Zenon DEF PoolUsed, LayoutsOf, LayoutBytes, Files

(* It is a number. *)
LEMMA PoolNumber ==
  ASSUME ArrowTypes
  PROVE  /\ SumOf(reserved) \in Nat /\ SumOf(LayoutsOf(group, cell)) \in Nat
         /\ PoolUsed \in Nat
<1>1. IsFiniteSet(DOMAIN reserved) /\ \A p \in DOMAIN reserved : reserved[p] \in Nat
  BY DEF ArrowTypes
<1>2. PICK l : l = LayoutsOf(group, cell)
  OBVIOUS
<1>3. IsFiniteSet(DOMAIN l) /\ \A f \in DOMAIN l : l[f] \in Nat
  BY <1>2, GroupFits DEF ArrowTypes, LayoutsOf, Files
<1>4. SumOf(reserved) \in Nat /\ SumOf(l) \in Nat
  BY <1>1, <1>3, SumIsNumber
<1> QED BY <1>2, <1>4, PoolIs

(* Partition p moves to r; its file, batches and reservation become these. *)
ReaderMoves(p, r, a, s, o, w) ==
  /\ reader' = [reader EXCEPT ![p] = r] /\ at' = [at EXCEPT ![p] = a]
  /\ reserved' = [reserved EXCEPT ![p] = s] /\ out' = [out EXCEPT ![p] = o]
  /\ work' = [work EXCEPT ![p] = w] /\ UNCHANGED plannedVars

(* The types of what it becomes. *)
Typed(r, a, s, o, w) ==
  r \in ReaderPlaces /\ a \in Counters /\ s \in Nat /\ o \in Seq(Offers) /\ w \in Seq(FileRanges)

(* The pool follows a reservation. *)
LEMMA PoolResized ==
  ASSUME ArrowTypes, NEW p \in Partitions, NEW s \in Nat,
         reserved' = [reserved EXCEPT ![p] = s], group' = group, cell' = cell
  PROVE  PoolUsed' = PoolUsed - reserved[p] + s
<1>1. PICK h : h = [reserved EXCEPT ![p] = s]
  OBVIOUS
<1>2. /\ IsFiniteSet(Partitions) /\ reserved \in [Partitions -> Nat] /\ h \in [Partitions -> Nat]
      /\ h[p] = s /\ \A q \in Partitions \ {p} : h[q] = reserved[q]
  BY <1>1 DEF ArrowTypes
<1>3. SumOf(h) = SumOf(reserved) - reserved[p] + h[p]
  BY <1>2, SumMoved
<1>4. PoolUsed' = SumOf(h) + SumOf(LayoutsOf(group, cell))
  BY <1>1, PoolBecomes
<1>5. reserved[p] \in Nat
  BY <1>2
<1> QED BY <1>2, <1>3, <1>4, <1>5, PoolIs, PoolNumber

(* A layout that is let go of holds nothing. *)
LEMMA PoolEmptied ==
  ASSUME ArrowTypes, NEW p \in Partitions, NEW f \in Files,
         reserved' = [reserved EXCEPT ![p] = 0], group' = group,
         cell' \in {cell, [cell EXCEPT ![f] = "empty"]}
  PROVE  PoolUsed' <= PoolUsed
<1>1. PICK h : h = [reserved EXCEPT ![p] = 0]
  OBVIOUS
<1>2. /\ IsFiniteSet(Partitions) /\ reserved \in [Partitions -> Nat] /\ h \in [Partitions -> Nat]
      /\ h[p] = 0 /\ \A q \in Partitions \ {p} : h[q] = reserved[q]
  BY <1>1 DEF ArrowTypes
<1>3. SumOf(h) = SumOf(reserved) - reserved[p] + h[p]
  BY <1>2, SumMoved
<1>4. PICK c : c = cell'
  OBVIOUS
<1>5. PICK k, l : k = LayoutsOf(group, cell) /\ l = LayoutsOf(group, c)
  OBVIOUS
<1>6. /\ k \in [Files -> Nat] /\ l \in [Files -> Nat] /\ IsFiniteSet(Files)
      /\ l[f] <= k[f] /\ \A g \in Files \ {f} : l[g] = k[g]
  <2>1. /\ \A g \in Files : group[g].footer \in Nat
        /\ cell \in [Files -> {"empty", "filling", "ready"}] /\ IsFiniteSet(Files)
    BY GroupFits DEF ArrowTypes
  <2>2. \A g \in Files \ {f} : c[g] = cell[g]
    BY <1>4, <2>1
  <2>3. c[f] = cell[f] \/ c[f] = "empty"
    BY <1>4, <2>1
  <2>4. \A g \in Files : /\ k[g] = IF cell[g] = "empty" THEN 0 ELSE group[g].footer
                         /\ l[g] = IF c[g] = "empty" THEN 0 ELSE group[g].footer
    BY <1>5 DEF LayoutsOf, Files
  <2>5. k \in [Files -> Nat] /\ l \in [Files -> Nat]
    BY <1>5, <2>1 DEF LayoutsOf, Files
  <2> QED BY <2>1, <2>2, <2>3, <2>4, <2>5
<1>7. SumOf(l) = SumOf(k) - k[f] + l[f]
  BY <1>6, SumMoved
<1>8. PoolUsed' = SumOf(h) + SumOf(l)
  BY <1>1, <1>4, <1>5, PoolBecomes
<1>9. reserved[p] \in Nat /\ k[f] \in Nat /\ l[f] \in Nat /\ SumOf(k) \in Nat
  BY <1>2, <1>5, <1>6, PoolNumber
<1> QED BY <1>2, <1>3, <1>5, <1>6, <1>7, <1>8, <1>9, PoolIs, PoolNumber

(* A layout that is being filled is reserved. *)
LEMMA PoolFilled ==
  ASSUME ArrowTypes, NEW f \in Files, reserved' = reserved, group' = group, cell[f] = "empty",
         cell' = [cell EXCEPT ![f] = "filling"]
  PROVE  PoolUsed' = PoolUsed + group[f].footer
<1>1. PICK c : c = cell'
  OBVIOUS
<1>2. PICK k, l : k = LayoutsOf(group, cell) /\ l = LayoutsOf(group, c)
  OBVIOUS
<1>3. /\ k \in [Files -> Nat] /\ l \in [Files -> Nat] /\ IsFiniteSet(Files)
      /\ k[f] = 0 /\ l[f] = group[f].footer /\ \A g \in Files \ {f} : l[g] = k[g]
  <2>1. /\ \A g \in Files : group[g].footer \in Nat
        /\ cell \in [Files -> {"empty", "filling", "ready"}] /\ IsFiniteSet(Files)
    BY GroupFits DEF ArrowTypes
  <2>2. c[f] = "filling" /\ \A g \in Files \ {f} : c[g] = cell[g]
    BY <1>1, <2>1
  <2>4. \A g \in Files : /\ k[g] = IF cell[g] = "empty" THEN 0 ELSE group[g].footer
                         /\ l[g] = IF c[g] = "empty" THEN 0 ELSE group[g].footer
    BY <1>2 DEF LayoutsOf, Files
  <2>5. k \in [Files -> Nat] /\ l \in [Files -> Nat]
    BY <1>2, <2>1 DEF LayoutsOf, Files
  <2> QED BY <2>1, <2>2, <2>4, <2>5
<1>7. SumOf(l) = SumOf(k) - k[f] + l[f]
  BY <1>3, SumMoved
<1>8. PoolUsed' = SumOf(reserved) + SumOf(l)
  BY <1>1, <1>2, PoolBecomes
<1>9. SumOf(k) \in Nat /\ SumOf(reserved) \in Nat /\ group[f].footer \in Nat
  BY <1>2, PoolNumber, GroupFits DEF ArrowTypes
<1> QED BY <1>2, <1>3, <1>7, <1>8, <1>9, PoolIs

(* A layout that was filled keeps what it had. *)
LEMMA PoolReady ==
  ASSUME ArrowTypes, NEW f \in Files, reserved' = reserved, group' = group, cell[f] = "filling",
         cell' = [cell EXCEPT ![f] = "ready"]
  PROVE  PoolUsed' = PoolUsed
<1>1. PICK c : c = cell'
  OBVIOUS
<1>2. \A g \in Files : c[g] = "empty" <=> cell[g] = "empty"
  BY <1>1 DEF ArrowTypes
<1>3. LayoutsOf(group, c) = LayoutsOf(group, cell)
  BY <1>2 DEF LayoutsOf, Files
<1>4. PoolUsed' = SumOf(reserved) + SumOf(LayoutsOf(group, c))
  BY <1>1, PoolBecomes
<1> QED BY <1>3, <1>4, PoolIs

(* What a partition's step changes, and what of the others it does not. *)
LEMMA MovedTo ==
  ASSUME ArrowTypes, NEW p \in Partitions, NEW r, NEW a, NEW s, NEW o, NEW w,
         ReaderMoves(p, r, a, s, o, w)
  PROVE  /\ Partitions' = Partitions /\ group' = group /\ target' = target
         /\ reader'[p] = r /\ at'[p] = a /\ reserved'[p] = s /\ out'[p] = o /\ work'[p] = w
         /\ \A q \in Partitions \ {p} :
              /\ reader'[q] = reader[q] /\ at'[q] = at[q] /\ reserved'[q] = reserved[q]
              /\ out'[q] = out[q] /\ work'[q] = work[q]
<1>1. /\ reader' = [reader EXCEPT ![p] = r] /\ at' = [at EXCEPT ![p] = a]
      /\ reserved' = [reserved EXCEPT ![p] = s] /\ out' = [out EXCEPT ![p] = o]
      /\ work' = [work EXCEPT ![p] = w] /\ group' = group /\ target' = target
  BY DEF ReaderMoves, plannedVars
<1>2. /\ DOMAIN reader = Partitions /\ DOMAIN at = Partitions /\ DOMAIN reserved = Partitions
      /\ DOMAIN out = Partitions /\ DOMAIN work = Partitions
  BY DEF ArrowTypes, Partitions
<1>3. Partitions' = Partitions
  BY <1>1 DEF Partitions
<1> QED BY <1>1, <1>2, <1>3

(* The types are kept. *)
LEMMA MovedTypes ==
  ASSUME ArrowTypes, NEW p \in Partitions, NEW r, NEW a, NEW s, NEW o, NEW w,
         ReaderMoves(p, r, a, s, o, w), Typed(r, a, s, o, w),
         leases' \in [Files -> SUBSET Partitions],
         cell' \in [Files -> {"empty", "filling", "ready"}]
  PROVE  ArrowTypes'
<1>1. /\ reader' = [reader EXCEPT ![p] = r] /\ at' = [at EXCEPT ![p] = a]
      /\ reserved' = [reserved EXCEPT ![p] = s] /\ out' = [out EXCEPT ![p] = o]
      /\ work' = [work EXCEPT ![p] = w] /\ group' = group /\ target' = target
  BY DEF ReaderMoves, plannedVars
<1>2. Partitions' = Partitions /\ Files' = Files
  BY <1>1, MovedTo DEF Files
<1>3. FileRanges' = FileRanges /\ Offers' = Offers
  BY <1>2 DEF FileRanges, Offers
<1>4. /\ reader' \in [Partitions -> ReaderPlaces] /\ at' \in [Partitions -> Counters]
      /\ reserved' \in [Partitions -> Nat]
  BY <1>1 DEF ArrowTypes, Typed
<1>5. work' \in [Partitions -> Seq(FileRanges)]
  <2>1. work \in [Partitions -> Seq(FileRanges)] /\ w \in Seq(FileRanges)
    BY DEF ArrowTypes, Typed
  <2> QED BY <1>1, <2>1
<1>6. out' \in [Partitions -> Seq(Offers)]
  <2>1. out \in [Partitions -> Seq(Offers)] /\ o \in Seq(Offers)
    BY DEF ArrowTypes, Typed
  <2> QED BY <1>1, <2>1
<1> QED BY <1>1, <1>2, <1>3, <1>4, <1>5, <1>6 DEF ArrowTypes

(* The readers fit when the one that moved does. *)
LEMMA MovedReaders ==
  ASSUME ArrowTypes, ReadersFit, NEW p \in Partitions, NEW r, NEW a, NEW s, NEW o, NEW w,
         ReaderMoves(p, r, a, s, o, w),
         r \in Busy => w # <<>> /\ MayRead(r, group[Head(w).file], a, s, Last(o)[2]),
         r \notin Busy => s = 0
  PROVE  ReadersFit'
<1>1. /\ Partitions' = Partitions /\ group' = group
      /\ reader'[p] = r /\ at'[p] = a /\ reserved'[p] = s /\ out'[p] = o /\ work'[p] = w
      /\ \A q \in Partitions \ {p} :
              /\ reader'[q] = reader[q] /\ at'[q] = at[q] /\ reserved'[q] = reserved[q]
              /\ out'[q] = out[q] /\ work'[q] = work[q]
  BY MovedTo
<1> SUFFICES ASSUME NEW q \in Partitions
             PROVE  /\ reader'[q] \in Busy =>
                         /\ work'[q] # <<>>
                         /\ MayRead(reader'[q], group[Head(work'[q]).file], at'[q], reserved'[q],
                                    Last(out'[q])[2])
                    /\ reader'[q] \notin Busy => reserved'[q] = 0
  BY <1>1 DEF ReadersFit, Source, File, Task
<1>2. CASE q = p
  BY <1>1, <1>2
<1>3. CASE q # p
  <2>1. /\ reader'[q] = reader[q] /\ at'[q] = at[q] /\ reserved'[q] = reserved[q]
        /\ out'[q] = out[q] /\ work'[q] = work[q]
    BY <1>1, <1>3
  <2>2. /\ reader[q] \in Busy =>
             /\ work[q] # <<>>
             /\ MayRead(reader[q], group[Head(work[q]).file], at[q], reserved[q], Last(out[q])[2])
        /\ reader[q] \notin Busy => reserved[q] = 0
    BY DEF ReadersFit, Source, File, Task
  <2> QED BY <2>1, <2>2
<1> QED BY <1>2, <1>3

(* The others read by the layouts they did. *)
LEMMA MovedLayouts ==
  ASSUME ArrowTypes, NEW p \in Partitions, NEW r, NEW a, NEW s, NEW o, NEW w,
         ReaderMoves(p, r, a, s, o, w), NEW f \in Files
  PROVE  /\ \A q \in Partitions \ {p} : HasLayout(q, f)' <=> HasLayout(q, f)
         /\ HasLayout(p, f)' <=> w # <<>> /\ Head(w).file = f /\ Uses(r, group[f].variant)
<1>1. /\ group' = group /\ reader'[p] = r /\ work'[p] = w
      /\ \A q \in Partitions \ {p} : reader'[q] = reader[q] /\ work'[q] = work[q]
  BY MovedTo
<1>2. \A q : HasLayout(q, f)' <=>
        work'[q] # <<>> /\ Head(work'[q]).file = f /\ Uses(reader'[q], group[f].variant)
  BY <1>1 DEF HasLayout, File, Task
<1>3. \A q : HasLayout(q, f) <=>
        work[q] # <<>> /\ Head(work[q]).file = f /\ Uses(reader[q], group[f].variant)
  BY DEF HasLayout, File, Task
<1> QED BY <1>1, <1>2, <1>3

(* A reader has the layout of one file. *)
LEMMA OneLayout ==
  ASSUME NEW p, NEW f, NEW g, HasLayout(p, f), HasLayout(p, g)
  PROVE  f = g /\ f = File(p) /\ work[p] # <<>>
BY DEF HasLayout

(* The rules of leases and cells, of whoever has a layout H[p, f], is at R[p], and the
   leases L and cells C. *)
LayoutsFit(P, F, H, R, L, C) ==
  /\ \A p \in P, f \in F : p \in L[f] <=> <<p, f>> \in H
  /\ \A f \in F : L[f] = {} => C[f] = "empty"
  /\ \A p \in P, f \in F : <<p, f>> \in H /\ R[p] = "filling" =>
       C[f] = "filling" /\ \A q \in P : <<q, f>> \in H /\ R[q] = "filling" => q = p
  /\ \A p \in P, f \in F : <<p, f>> \in H /\ R[p] \in {"file", "block", "yielded"} => C[f] = "ready"

Having == {x \in Partitions \X Files : HasLayout(x[1], x[2])}

(* That is what the invariant says. *)
LEMMA LayoutRules ==
  LeasesFit /\ CellsFit <=> LayoutsFit(Partitions, Files, Having, reader, leases, cell)
<1>1. \A p \in Partitions, f \in Files : <<p, f>> \in Having <=> HasLayout(p, f)
  BY DEF Having
<1>2. LeasesFit <=> \A p \in Partitions, f \in Files : p \in leases[f] <=> <<p, f>> \in Having
  BY <1>1 DEF LeasesFit
<1>3. CellsFit <=>
       /\ \A f \in Files : leases[f] = {} => cell[f] = "empty"
       /\ \A p \in Partitions, f \in Files : <<p, f>> \in Having /\ reader[p] = "filling" =>
            /\ cell[f] = "filling"
            /\ \A q \in Partitions : <<q, f>> \in Having /\ reader[q] = "filling" => q = p
       /\ \A p \in Partitions, f \in Files :
            <<p, f>> \in Having /\ reader[p] \in {"file", "block", "yielded"} => cell[f] = "ready"
  BY <1>1 DEF CellsFit
<1> QED BY <1>2, <1>3 DEF LayoutsFit

(* And after a step. *)
LEMMA LayoutRulesNext ==
  (LeasesFit /\ CellsFit)' <=> LayoutsFit(Partitions', Files', Having', reader', leases', cell')
<1>1. \A p \in Partitions', f \in Files' : <<p, f>> \in Having' <=> HasLayout(p, f)'
  BY DEF Having
<1>2. LeasesFit' <=>
        \A p \in Partitions', f \in Files' : p \in leases'[f] <=> <<p, f>> \in Having'
  BY <1>1 DEF LeasesFit
<1>3. CellsFit' <=>
       /\ \A f \in Files' : leases'[f] = {} => cell'[f] = "empty"
       /\ \A p \in Partitions', f \in Files' : <<p, f>> \in Having' /\ reader'[p] = "filling" =>
            /\ cell'[f] = "filling"
            /\ \A q \in Partitions' : <<q, f>> \in Having' /\ reader'[q] = "filling" => q = p
       /\ \A p \in Partitions', f \in Files' :
            <<p, f>> \in Having' /\ reader'[p] \in {"file", "block", "yielded"} => cell'[f] = "ready"
  BY <1>1 DEF CellsFit
<1> QED BY <1>2, <1>3 DEF LayoutsFit

(* From H and R to I and S only partition p changes. *)
OnlyOf(p, P, F, H, R, I, S) ==
  \A q \in P \ {p} : S[q] = R[q] /\ \A f \in F : <<q, f>> \in I <=> <<q, f>> \in H

(* A step that leaves the layouts alone. *)
LEMMA RulesStay ==
  ASSUME NEW P, NEW F, NEW H, NEW R, NEW L, NEW C, LayoutsFit(P, F, H, R, L, C),
         NEW p \in P, NEW I, NEW S, OnlyOf(p, P, F, H, R, I, S),
         \A f \in F : <<p, f>> \in I <=> <<p, f>> \in H,
         S[p] # "filling",
         \A f \in F : <<p, f>> \in I /\ S[p] \in {"file", "block", "yielded"} => C[f] = "ready"
  PROVE  LayoutsFit(P, F, I, S, L, C)
<1>1. \A q \in P, f \in F : <<q, f>> \in I <=> <<q, f>> \in H
  BY DEF OnlyOf
<1>2. \A q \in P : q = p \/ S[q] = R[q]
  BY DEF OnlyOf
<1>3. \A q \in P, f \in F : q \in L[f] <=> <<q, f>> \in I
  BY <1>1 DEF LayoutsFit
<1>4. \A f \in F : L[f] = {} => C[f] = "empty"
  BY DEF LayoutsFit
<1>5. \A q \in P, f \in F : <<q, f>> \in I /\ S[q] = "filling" =>
        C[f] = "filling" /\ \A u \in P : <<u, f>> \in I /\ S[u] = "filling" => u = q
  BY <1>1, <1>2 DEF LayoutsFit
<1>6. \A q \in P, f \in F : <<q, f>> \in I /\ S[q] \in {"file", "block", "yielded"} => C[f] = "ready"
  BY <1>1, <1>2 DEF LayoutsFit
<1> QED BY <1>3, <1>4, <1>5, <1>6 DEF LayoutsFit

(* A step that takes the lease of a layout. *)
LEMMA RulesTake ==
  ASSUME NEW P, NEW F, NEW H, NEW R, NEW L \in [F -> SUBSET P], NEW C,
         LayoutsFit(P, F, H, R, L, C),
         NEW p \in P, NEW I, NEW S, OnlyOf(p, P, F, H, R, I, S), NEW g \in F,
         \A f \in F : <<p, f>> \notin H, \A f \in F : <<p, f>> \in I <=> f = g,
         S[p] = "layout"
  PROVE  LayoutsFit(P, F, I, S, [L EXCEPT ![g] = @ \cup {p}], C)
<1>1. PICK M : M = [L EXCEPT ![g] = @ \cup {p}]
  OBVIOUS
<1>2. M[g] = L[g] \cup {p} /\ \A f \in F \ {g} : M[f] = L[f]
  BY <1>1
<1>3. \A q \in P : q = p \/ (S[q] = R[q] /\ \A f \in F : <<q, f>> \in I <=> <<q, f>> \in H)
  BY DEF OnlyOf
<1>4. \A q \in P, f \in F : q \in M[f] <=> <<q, f>> \in I
  <2> SUFFICES ASSUME NEW q \in P, NEW f \in F PROVE q \in M[f] <=> <<q, f>> \in I
    OBVIOUS
  <2>1. q \in L[f] <=> <<q, f>> \in H
    BY DEF LayoutsFit
  <2>2. CASE q = p
    <3>1. q \in M[f] <=> f = g
      BY <1>2, <2>1, <2>2
    <3> QED BY <2>2, <3>1
  <2>3. CASE q # p
    <3>1. q \in M[f] <=> q \in L[f]
      BY <1>2, <2>3
    <3> QED BY <1>3, <2>1, <2>3, <3>1
  <2> QED BY <2>2, <2>3
<1>5. \A f \in F : M[f] = {} => C[f] = "empty"
  BY <1>2 DEF LayoutsFit
<1>6. \A q \in P, f \in F : <<q, f>> \in I /\ S[q] = "filling" =>
        C[f] = "filling" /\ \A u \in P : <<u, f>> \in I /\ S[u] = "filling" => u = q
  BY <1>3 DEF LayoutsFit
<1>7. \A q \in P, f \in F : <<q, f>> \in I /\ S[q] \in {"file", "block", "yielded"} => C[f] = "ready"
  BY <1>3 DEF LayoutsFit
<1> QED BY <1>1, <1>4, <1>5, <1>6, <1>7 DEF LayoutsFit

(* A step that begins to fill a layout. *)
LEMMA RulesFill ==
  ASSUME NEW P, NEW F, NEW H, NEW R, NEW L, NEW C, LayoutsFit(P, F, H, R, L, C), DOMAIN C = F,
         NEW p \in P, NEW I, NEW S, OnlyOf(p, P, F, H, R, I, S), NEW g \in F,
         \A f \in F : <<p, f>> \in I <=> <<p, f>> \in H, \A f \in F : <<p, f>> \in H <=> f = g,
         S[p] = "filling", C[g] = "empty"
  PROVE  LayoutsFit(P, F, I, S, L, [C EXCEPT ![g] = "filling"])
<1>1. PICK D : D = [C EXCEPT ![g] = "filling"]
  OBVIOUS
<1>2. D[g] = "filling" /\ \A f \in F \ {g} : D[f] = C[f]
  BY <1>1
<1>3. \A q \in P : q = p \/ S[q] = R[q]
  BY DEF OnlyOf
<1>3a. \A q \in P, f \in F : <<q, f>> \in I <=> <<q, f>> \in H
  BY DEF OnlyOf
<1>4. \A q \in P, f \in F : q \in L[f] <=> <<q, f>> \in I
  BY <1>3a DEF LayoutsFit
<1>5. \A f \in F : L[f] = {} => D[f] = "empty"
  <2>1. L[g] # {}
    BY DEF LayoutsFit
  <2> QED BY <1>2, <2>1 DEF LayoutsFit
<1>6. \A q \in P : q # p => ~(<<q, g>> \in I /\ S[q] \in {"filling", "file", "block", "yielded"})
  BY <1>3, <1>3a DEF LayoutsFit
<1>7. \A q \in P, f \in F : <<q, f>> \in I /\ S[q] = "filling" =>
        D[f] = "filling" /\ \A u \in P : <<u, f>> \in I /\ S[u] = "filling" => u = q
  <2> SUFFICES ASSUME NEW q \in P, NEW f \in F, <<q, f>> \in I, S[q] = "filling"
               PROVE D[f] = "filling" /\ \A u \in P : <<u, f>> \in I /\ S[u] = "filling" => u = q
    OBVIOUS
  <2>1. CASE f = g
    BY <1>2, <1>6, <2>1
  <2>2. CASE f # g
    <3>1. q # p /\ S[q] = R[q] /\ <<q, f>> \in H
      BY <1>3, <1>3a, <2>2
    <3>2. C[f] = "filling" /\ \A u \in P : <<u, f>> \in H /\ R[u] = "filling" => u = q
      BY <3>1 DEF LayoutsFit
    <3>3. <<p, f>> \notin I
      BY <2>2
    <3> QED BY <1>2, <1>3, <1>3a, <2>2, <3>2, <3>3
  <2> QED BY <2>1, <2>2
<1>8. \A q \in P, f \in F : <<q, f>> \in I /\ S[q] \in {"file", "block", "yielded"} => D[f] = "ready"
  <2> SUFFICES ASSUME NEW q \in P, NEW f \in F, <<q, f>> \in I, S[q] \in {"file", "block", "yielded"}
               PROVE D[f] = "ready"
    OBVIOUS
  <2>1. q # p
    OBVIOUS
  <2>2. f # g
    BY <1>6, <2>1
  <2>3. C[f] = "ready"
    BY <1>3, <1>3a, <2>1 DEF LayoutsFit
  <2> QED BY <1>2, <2>2, <2>3
<1> QED BY <1>1, <1>4, <1>5, <1>7, <1>8 DEF LayoutsFit

(* A step that has filled it. *)
LEMMA RulesFilled ==
  ASSUME NEW P, NEW F, NEW H, NEW R, NEW L, NEW C, LayoutsFit(P, F, H, R, L, C), DOMAIN C = F,
         NEW p \in P, NEW I, NEW S, OnlyOf(p, P, F, H, R, I, S), NEW g \in F,
         \A f \in F : <<p, f>> \in I <=> <<p, f>> \in H, \A f \in F : <<p, f>> \in H <=> f = g,
         S[p] = "layout", R[p] = "filling"
  PROVE  LayoutsFit(P, F, I, S, L, [C EXCEPT ![g] = "ready"])
<1>1. PICK D : D = [C EXCEPT ![g] = "ready"]
  OBVIOUS
<1>2. D[g] = "ready" /\ \A f \in F \ {g} : D[f] = C[f]
  BY <1>1
<1>3. \A q \in P : q = p \/ S[q] = R[q]
  BY DEF OnlyOf
<1>3a. \A q \in P, f \in F : <<q, f>> \in I <=> <<q, f>> \in H
  BY DEF OnlyOf
<1>4. \A q \in P, f \in F : q \in L[f] <=> <<q, f>> \in I
  BY <1>3a DEF LayoutsFit
<1>5. \A f \in F : L[f] = {} => D[f] = "empty"
  <2>1. L[g] # {}
    BY DEF LayoutsFit
  <2> QED BY <1>2, <2>1 DEF LayoutsFit
<1>6. \A q \in P : <<q, g>> \in H /\ R[q] = "filling" => q = p
  BY DEF LayoutsFit
<1>7. \A q \in P, f \in F : <<q, f>> \in I /\ S[q] = "filling" =>
        D[f] = "filling" /\ \A u \in P : <<u, f>> \in I /\ S[u] = "filling" => u = q
  <2> SUFFICES ASSUME NEW q \in P, NEW f \in F, <<q, f>> \in I, S[q] = "filling"
               PROVE D[f] = "filling" /\ \A u \in P : <<u, f>> \in I /\ S[u] = "filling" => u = q
    OBVIOUS
  <2>1. q # p /\ S[q] = R[q] /\ <<q, f>> \in H
    BY <1>3, <1>3a
  <2>2. f # g
    BY <1>6, <2>1
  <2>3. C[f] = "filling" /\ \A u \in P : <<u, f>> \in H /\ R[u] = "filling" => u = q
    BY <2>1 DEF LayoutsFit
  <2> QED BY <1>2, <1>3, <1>3a, <2>2, <2>3
<1>8. \A q \in P, f \in F : <<q, f>> \in I /\ S[q] \in {"file", "block", "yielded"} => D[f] = "ready"
  <2> SUFFICES ASSUME NEW q \in P, NEW f \in F, <<q, f>> \in I, S[q] \in {"file", "block", "yielded"}
               PROVE D[f] = "ready"
    OBVIOUS
  <2>1. q # p
    OBVIOUS
  <2>3. C[f] = "ready"
    BY <1>3, <1>3a, <2>1 DEF LayoutsFit
  <2> QED BY <1>2, <2>3
<1> QED BY <1>1, <1>4, <1>5, <1>7, <1>8 DEF LayoutsFit

(* A step that leaves a layout: the cell is emptied when nobody else has it, or
   when it was being filled. *)
LEMMA RulesLeave ==
  ASSUME NEW P, NEW F, NEW H, NEW R, NEW L \in [F -> SUBSET P], NEW C,
         LayoutsFit(P, F, H, R, L, C), DOMAIN C = F,
         NEW p \in P, NEW I, NEW S, OnlyOf(p, P, F, H, R, I, S), NEW g \in F,
         \A f \in F : <<p, f>> \notin I, \A f \in F : <<p, f>> \in H <=> f = g
  PROVE  LayoutsFit(P, F, I, S, [L EXCEPT ![g] = @ \ {p}],
           [C EXCEPT ![g] = IF L[g] = {p} \/ R[p] = "filling" THEN "empty" ELSE @])
<1>1. PICK D, M : /\ M = [L EXCEPT ![g] = @ \ {p}]
                  /\ D = [C EXCEPT ![g] = IF L[g] = {p} \/ R[p] = "filling" THEN "empty" ELSE @]
  OBVIOUS
<1>2. /\ M[g] = L[g] \ {p} /\ \A f \in F \ {g} : M[f] = L[f] /\ D[f] = C[f]
      /\ D[g] = IF L[g] = {p} \/ R[p] = "filling" THEN "empty" ELSE C[g]
  BY <1>1
<1>3. \A q \in P : q = p \/ (S[q] = R[q] /\ \A f \in F : <<q, f>> \in I <=> <<q, f>> \in H)
  BY DEF OnlyOf
<1>4. \A q \in P, f \in F : q \in M[f] <=> <<q, f>> \in I
  <2> SUFFICES ASSUME NEW q \in P, NEW f \in F PROVE q \in M[f] <=> <<q, f>> \in I
    OBVIOUS
  <2>1. q \in L[f] <=> <<q, f>> \in H
    BY DEF LayoutsFit
  <2>2. CASE q = p
    <3>1. q \notin M[f]
      BY <1>2, <2>1, <2>2
    <3> QED BY <2>2, <3>1
  <2>3. CASE q # p
    <3>1. q \in M[f] <=> q \in L[f]
      BY <1>2, <2>3
    <3> QED BY <1>3, <2>1, <2>3, <3>1
  <2> QED BY <2>2, <2>3
<1>5. \A f \in F : M[f] = {} => D[f] = "empty"
  <2> SUFFICES ASSUME NEW f \in F, M[f] = {} PROVE D[f] = "empty"
    OBVIOUS
  <2>1. CASE f # g
    BY <1>2, <2>1 DEF LayoutsFit
  <2>2. CASE f = g
    <3>1. p \in L[g]
      BY DEF LayoutsFit
    <3>2. L[g] = {p}
      BY <1>2, <2>2, <3>1
    <3> QED BY <1>2, <2>2, <3>2
  <2> QED BY <2>1, <2>2
<1>6. ASSUME NEW q \in P, NEW f \in F, <<q, f>> \in I PROVE q # p /\ <<q, f>> \in H /\ S[q] = R[q]
  BY <1>3, <1>6
<1>7. \A q \in P, f \in F : <<q, f>> \in I /\ S[q] = "filling" =>
        D[f] = "filling" /\ \A u \in P : <<u, f>> \in I /\ S[u] = "filling" => u = q
  <2> SUFFICES ASSUME NEW q \in P, NEW f \in F, <<q, f>> \in I, S[q] = "filling"
               PROVE D[f] = "filling" /\ \A u \in P : <<u, f>> \in I /\ S[u] = "filling" => u = q
    OBVIOUS
  <2>1. q # p /\ <<q, f>> \in H /\ R[q] = "filling"
    BY <1>6
  <2>2. C[f] = "filling" /\ \A u \in P : <<u, f>> \in H /\ R[u] = "filling" => u = q
    BY <2>1 DEF LayoutsFit
  <2>3. \A u \in P : <<u, f>> \in I /\ S[u] = "filling" => u = q
    BY <1>6, <2>2
  <2>4. D[f] = "filling"
    <3>1. CASE f # g
      BY <1>2, <2>2, <3>1
    <3>2. CASE f = g
      <4>1. R[p] # "filling"
        BY <2>1, <2>2, <3>2
      <4>2. q \in L[g]
        BY <2>1, <3>2 DEF LayoutsFit
      <4>3. L[g] # {p}
        BY <2>1, <4>2
      <4> QED BY <1>2, <2>2, <3>2, <4>1, <4>3
    <3> QED BY <3>1, <3>2
  <2> QED BY <2>3, <2>4
<1>8. \A q \in P, f \in F : <<q, f>> \in I /\ S[q] \in {"file", "block", "yielded"} => D[f] = "ready"
  <2> SUFFICES ASSUME NEW q \in P, NEW f \in F, <<q, f>> \in I, S[q] \in {"file", "block", "yielded"}
               PROVE D[f] = "ready"
    OBVIOUS
  <2>1. q # p /\ <<q, f>> \in H /\ R[q] \in {"file", "block", "yielded"}
    BY <1>6
  <2>2. C[f] = "ready"
    BY <2>1 DEF LayoutsFit
  <2>3. CASE f # g
    BY <1>2, <2>2, <2>3
  <2>4. CASE f = g
    <3>1. R[p] # "filling"
      <4> SUFFICES ASSUME R[p] = "filling" PROVE FALSE
        OBVIOUS
      <4>1. C[g] = "filling"
        BY DEF LayoutsFit
      <4> QED BY <2>2, <2>4, <4>1
    <3>2. q \in L[g]
      BY <2>1, <2>4 DEF LayoutsFit
    <3>3. L[g] # {p}
      BY <2>1, <3>2
    <3> QED BY <1>2, <2>2, <2>4, <3>1, <3>3
  <2> QED BY <2>3, <2>4
<1> QED BY <1>1, <1>4, <1>5, <1>7, <1>8 DEF LayoutsFit

(* What a step of p must see to it that the readers fit. *)
Fitting(r, a, s, o, w) ==
  /\ r \in Busy => w # <<>> /\ MayRead(r, group[Head(w).file], a, s, Last(o)[2])
  /\ r \notin Busy => s = 0

(* Who moves, for the rules of layouts. *)
LEMMA MovedRules ==
  ASSUME ArrowTypes, NEW p \in Partitions, NEW r, NEW a, NEW s, NEW o, NEW w,
         ReaderMoves(p, r, a, s, o, w)
  PROVE  /\ OnlyOf(p, Partitions, Files, Having, reader, Having', reader')
         /\ reader'[p] = r /\ Partitions' = Partitions /\ Files' = Files
         /\ \A f \in Files : <<p, f>> \in Having <=> HasLayout(p, f)
         /\ \A f \in Files : <<p, f>> \in Having' <=>
              w # <<>> /\ Head(w).file = f /\ Uses(r, group[f].variant)
<1>1. Partitions' = Partitions /\ Files' = Files /\ reader'[p] = r
      /\ \A q \in Partitions \ {p} : reader'[q] = reader[q]
  BY MovedTo DEF Files
<1>2. \A q \in Partitions, f \in Files : <<q, f>> \in Having <=> HasLayout(q, f)
  BY DEF Having
<1>3. \A q \in Partitions', f \in Files' : <<q, f>> \in Having' <=> HasLayout(q, f)'
  BY DEF Having
<1>4. \A f \in Files : \A q \in Partitions \ {p} : HasLayout(q, f)' <=> HasLayout(q, f)
  BY MovedLayouts
<1>5. \A f \in Files :
        HasLayout(p, f)' <=> w # <<>> /\ Head(w).file = f /\ Uses(r, group[f].variant)
  BY MovedLayouts
<1>6. OnlyOf(p, Partitions, Files, Having, reader, Having', reader')
  BY <1>1, <1>2, <1>3, <1>4 DEF OnlyOf
<1> QED BY <1>1, <1>2, <1>3, <1>5, <1>6

(* A step that leaves the layouts alone keeps the invariant. *)
LEMMA StepStays ==
  ASSUME ArrowInv, NEW p \in Partitions, NEW r, NEW a, NEW s, NEW o, NEW w,
         ReaderMoves(p, r, a, s, o, w), Typed(r, a, s, o, w), Fitting(r, a, s, o, w),
         UNCHANGED layoutVars, r # "filling",
         \A f \in Files : HasLayout(p, f) <=>
           w # <<>> /\ Head(w).file = f /\ Uses(r, group[f].variant),
         \A f \in Files : HasLayout(p, f) /\ r \in {"file", "block", "yielded"} => cell[f] = "ready",
         PoolUsed - reserved[p] + s <= PoolSize
  PROVE  ArrowInv'
<1>1. ArrowTypes /\ ReadersFit /\ LayoutsFit(Partitions, Files, Having, reader, leases, cell)
  BY LayoutRules DEF ArrowInv
<1>2. leases' = leases /\ cell' = cell
  BY DEF layoutVars
<1>3. ArrowTypes'
  BY <1>1, <1>2, MovedTypes DEF ArrowTypes
<1>4. ReadersFit'
  BY <1>1, MovedReaders DEF Fitting
<1>5. /\ OnlyOf(p, Partitions, Files, Having, reader, Having', reader')
      /\ reader'[p] = r /\ Partitions' = Partitions /\ Files' = Files
      /\ \A f \in Files : <<p, f>> \in Having <=> HasLayout(p, f)
      /\ \A f \in Files : <<p, f>> \in Having' <=>
              w # <<>> /\ Head(w).file = f /\ Uses(r, group[f].variant)
  BY <1>1, MovedRules
<1>6. LayoutsFit(Partitions, Files, Having', reader', leases, cell)
  <2>1. \A f \in Files : <<p, f>> \in Having' <=> <<p, f>> \in Having
    BY <1>5
  <2>2. \A f \in Files : <<p, f>> \in Having' /\ reader'[p] \in {"file", "block", "yielded"} =>
          cell[f] = "ready"
    BY <1>5, <2>1
  <2>3. reader'[p] # "filling"
    BY <1>5
  <2> QED BY <1>1, <1>5, <2>1, <2>2, <2>3, RulesStay
<1>7. (LeasesFit /\ CellsFit)'
  BY <1>2, <1>5, <1>6, LayoutRulesNext
<1>8. PoolFits'
  <2>1. PoolUsed' = PoolUsed - reserved[p] + s
    BY <1>1, <1>2, PoolResized DEF ReaderMoves, Typed, plannedVars
  <2> QED BY <2>1 DEF PoolFits
<1> QED BY <1>3, <1>4, <1>7, <1>8 DEF ArrowInv

(* What p was at, and its file. *)
LEMMA Standing ==
  ASSUME ArrowInv, NEW p \in Partitions
  PROVE  /\ reader[p] \in ReaderPlaces /\ at[p] \in Counters /\ reserved[p] \in Nat
         /\ out[p] \in Seq(Offers) /\ work[p] \in Seq(FileRanges) /\ PoolUsed \in Nat
         /\ reader[p] \in Busy \/ work[p] # <<>> =>
              /\ work[p] # <<>> /\ Head(work[p]) \in FileRanges /\ File(p) \in Files
              /\ IsObject(Source(p)) /\ Source(p) = group[Head(work[p]).file]
              /\ Source(p).variant \in {"file", "stream"}
              /\ Source(p).footer \in Nat
         /\ reader[p] \in Busy => MayRead(reader[p], Source(p), at[p], reserved[p], Last(out[p])[2])
<1>1. ArrowTypes /\ ReadersFit
  BY DEF ArrowInv
<1>2. /\ reader[p] \in ReaderPlaces /\ at[p] \in Counters /\ reserved[p] \in Nat
      /\ out[p] \in Seq(Offers) /\ work[p] \in Seq(FileRanges)
  BY <1>1 DEF ArrowTypes
<1>3. PoolUsed \in Nat
  BY <1>1, PoolNumber
<1>4. reader[p] \in Busy =>
        work[p] # <<>> /\ MayRead(reader[p], Source(p), at[p], reserved[p], Last(out[p])[2])
  BY <1>1 DEF ReadersFit
<1>5. ASSUME work[p] # <<>>
      PROVE  /\ Head(work[p]) \in FileRanges /\ File(p) \in Files
             /\ Source(p) = group[Head(work[p]).file] /\ Source(p) = group[File(p)]
  <2>1. Head(work[p]) \in FileRanges
    BY <1>2, <1>5, QueueHead
  <2>2. File(p) = Head(work[p]).file /\ File(p) \in Files
    BY <2>1 DEF File, Task, FileRanges
  <2> QED BY <2>1, <2>2 DEF Source
<1>6. \A f \in Files : /\ IsObject(group[f]) /\ group[f].footer \in Nat
                       /\ group[f].variant \in {"file", "stream"}
  BY <1>1, GroupFits DEF ArrowTypes
<1>7. ASSUME work[p] # <<>>
      PROVE  /\ IsObject(Source(p)) /\ Source(p).footer \in Nat
             /\ Source(p).variant \in {"file", "stream"}
  BY <1>5, <1>6, <1>7
<1> QED BY <1>2, <1>3, <1>4, <1>5, <1>7

(* Which layout it has. *)
LEMMA StandingLayout ==
  ASSUME ArrowInv, NEW p \in Partitions
  PROVE  /\ \A f \in Files : HasLayout(p, f) <=>
              work[p] # <<>> /\ File(p) = f /\ Uses(reader[p], Source(p).variant)
         /\ \A f \in Files : p \in leases[f] <=> HasLayout(p, f)
         /\ \A f \in Files : HasLayout(p, f) /\ reader[p] \in {"file", "block", "yielded"} =>
              cell[f] = "ready"
<1>1. \A f \in Files : HasLayout(p, f) <=>
              work[p] # <<>> /\ File(p) = f /\ Uses(reader[p], Source(p).variant)
  BY DEF HasLayout, Source
<1> QED BY <1>1 DEF ArrowInv, LeasesFit, CellsFit

(* A step that changes what p is at, but not its file nor the layouts. *)
LEMMA StepWithin ==
  ASSUME ArrowInv, NEW p \in Partitions, NEW r \in Busy, NEW a \in Counters, NEW s \in Nat,
         NEW o \in Seq(Offers), ReaderMoves(p, r, a, s, o, work[p]), work[p] # <<>>,
         MayRead(r, Source(p), a, s, Last(o)[2]), UNCHANGED layoutVars, r # "filling",
         Uses(r, Source(p).variant) <=> Uses(reader[p], Source(p).variant),
         Uses(r, Source(p).variant) /\ r \in {"file", "block", "yielded"} => cell[File(p)] = "ready",
         PoolUsed - reserved[p] + s <= PoolSize
  PROVE  ArrowInv'
<1>1. /\ work[p] \in Seq(FileRanges) /\ Source(p) = group[Head(work[p]).file]
      /\ Source(p) = group[File(p)] /\ File(p) = Head(work[p]).file
  BY Standing DEF Source, File, Task
<1>2. \A f \in Files : HasLayout(p, f) <=>
        work[p] # <<>> /\ Head(work[p]).file = f /\ Uses(r, group[f].variant)
  BY <1>1 DEF HasLayout
<1>3. \A f \in Files : HasLayout(p, f) /\ r \in {"file", "block", "yielded"} => cell[f] = "ready"
  BY <1>1, <1>2
<1>4. Typed(r, a, s, o, work[p])
  BY <1>1 DEF Typed, ReaderPlaces
<1>5. Fitting(r, a, s, o, work[p])
  BY <1>1 DEF Fitting
<1> QED BY <1>2, <1>3, <1>4, <1>5, StepStays

(* Nothing is nothing's step. *)
LEMMA SameAt ==
  ASSUME ArrowTypes, NEW p \in Partitions
  PROVE  /\ [reader EXCEPT ![p] = reader[p]] = reader /\ [at EXCEPT ![p] = at[p]] = at
         /\ [reserved EXCEPT ![p] = reserved[p]] = reserved
         /\ [out EXCEPT ![p] = out[p]] = out /\ [work EXCEPT ![p] = work[p]] = work
BY DEF ArrowTypes

(* Leaving a file keeps the invariant. *)
LEMMA StepLeaves ==
  ASSUME ArrowInv, NEW p \in Partitions, NEW r \in {"next", "failed", "dropped"},
         Leave(p, r), UNCHANGED <<at, out>>, UNCHANGED plannedVars,
         work' = work \/ (work[p] # <<>> /\ work' = [work EXCEPT ![p] = Tail(@)])
  PROVE  ArrowInv'
<1>1. ArrowTypes /\ ReadersFit /\ LayoutsFit(Partitions, Files, Having, reader, leases, cell)
      /\ PoolUsed <= PoolSize
  BY LayoutRules DEF ArrowInv, PoolFits
<1>2. \E w \in Seq(FileRanges) : ReaderMoves(p, r, at[p], 0, out[p], w)
  <2>1. work[p] \in Seq(FileRanges) /\ (work[p] # <<>> => Tail(work[p]) \in Seq(FileRanges))
    BY Standing, QueueHead
  <2>2. \E w \in Seq(FileRanges) : work' = [work EXCEPT ![p] = w]
    BY <1>1, <2>1, SameAt
  <2> QED BY <1>1, <2>2, SameAt DEF ReaderMoves, Leave, Goto, Resize
<1>3. PICK w \in Seq(FileRanges) : ReaderMoves(p, r, at[p], 0, out[p], w)
  BY <1>2
<1>4. r \in ReaderPlaces /\ r \notin Busy
  BY DEF ReaderPlaces, Busy, Ended
<1>5. Typed(r, at[p], 0, out[p], w) /\ Fitting(r, at[p], 0, out[p], w)
  BY <1>4, Standing DEF Typed, Fitting
<1>6. /\ OnlyOf(p, Partitions, Files, Having, reader, Having', reader')
      /\ reader'[p] = r /\ Partitions' = Partitions /\ Files' = Files
      /\ \A f \in Files : <<p, f>> \in Having <=> HasLayout(p, f)
      /\ \A f \in Files : <<p, f>> \notin Having'
  <2>1. \A f \in Files : ~Uses(r, group[f].variant)
    BY DEF Uses
  <2> QED BY <1>1, <1>3, <2>1, MovedRules
<1>7. leases \in [Files -> SUBSET Partitions] /\ cell \in [Files -> {"empty", "filling", "ready"}]
  BY <1>1 DEF ArrowTypes
<1>8. CASE \E f \in Files : HasLayout(p, f)
  <2>1. PICK f \in Files : HasLayout(p, f)
    BY <1>8
  <2>2. f = File(p) /\ work[p] # <<>> /\ p \in leases[f] /\ \A g \in Files : HasLayout(p, g) => g = f
    BY <2>1, StandingLayout DEF HasLayout
  <2>3. leases' = [leases EXCEPT ![f] = @ \ {p}] /\ cell' = AfterLease(p, f)
    BY <2>2 DEF Leave, LetGo
  <2>4. cell' = [cell EXCEPT ![f] = IF leases[f] = {p} \/ reader[p] = "filling" THEN "empty" ELSE @]
    BY <2>3 DEF AfterLease
  <2>5. leases' \in [Files -> SUBSET Partitions] /\ cell' \in [Files -> {"empty", "filling", "ready"}]
    BY <1>7, <2>3, <2>4
  <2>6. LayoutsFit(Partitions, Files, Having', reader', leases', cell')
    <3>1. \A g \in Files : <<p, g>> \in Having <=> g = f
      BY <1>6, <2>1, <2>2
    <3>2. DOMAIN cell = Files
      BY <1>7
    <3>3. LayoutsFit(Partitions, Files, Having', reader', [leases EXCEPT ![f] = @ \ {p}],
            [cell EXCEPT ![f] = IF leases[f] = {p} \/ reader[p] = "filling" THEN "empty" ELSE @])
      BY ONLY <1>1, <1>6, <1>7, <3>1, <3>2, f \in Files, p \in Partitions, RulesLeave
    <3> QED BY ONLY <2>3, <2>4, <3>3
  <2>7. PoolUsed' <= PoolUsed
    <3>1. cell' \in {cell, [cell EXCEPT ![f] = "empty"]}
      BY <1>7, <2>4
    <3>2. reserved' = [reserved EXCEPT ![p] = 0] /\ group' = group
      BY <1>3 DEF ReaderMoves, plannedVars
    <3> QED BY <1>1, <3>1, <3>2, PoolEmptied
  <2>8. PoolUsed' \in Nat /\ PoolUsed \in Nat /\ ArrowTypes'
    <3>1. ArrowTypes'
      BY <1>1, <1>3, <1>5, <2>5, MovedTypes
    <3>2. (ArrowTypes => PoolUsed \in Nat)'
      BY PoolNumber, PTL
    <3> QED BY <1>1, <3>1, <3>2, PoolNumber
  <2>9. PoolFits'
    BY <1>1, <2>7, <2>8, ArrowInputAssumption DEF PoolFits
  <2>10. ReadersFit'
    BY <1>1, <1>3, <1>5, MovedReaders DEF Fitting
  <2>11. (LeasesFit /\ CellsFit)'
    BY <1>6, <2>6, LayoutRulesNext
  <2> QED BY <2>8, <2>9, <2>10, <2>11 DEF ArrowInv
<1>9. CASE ~\E f \in Files : HasLayout(p, f)
  <2>1. ~(work[p] # <<>> /\ p \in leases[File(p)])
    BY <1>9, Standing, StandingLayout
  <2>2. UNCHANGED layoutVars
    BY <2>1 DEF Leave, LetGo
  <2>3. \A f \in Files : ~Uses(r, group[f].variant)
    BY DEF Uses
  <2>4. PoolUsed - reserved[p] + 0 <= PoolSize
    <3>1. PoolUsed \in Nat /\ reserved[p] \in Nat /\ PoolSize \in Nat
      BY Standing, ArrowInputAssumption
    <3> QED BY <1>1, <3>1
  <2>5. /\ r # "filling" /\ r \notin {"file", "block", "yielded"}
        /\ \A f \in Files : HasLayout(p, f) <=>
             w # <<>> /\ Head(w).file = f /\ Uses(r, group[f].variant)
    BY <1>9, <2>3
  <2> QED BY <1>3, <1>5, <2>2, <2>4, <2>5, StepStays
<1> QED BY <1>8, <1>9

(* A partition's stream fails. *)
LEMMA FailKeeps ==
  ASSUME ArrowInv, NEW p \in Partitions, FailStream(p), UNCHANGED plannedVars
  PROVE  ArrowInv'
BY StepLeaves DEF FailStream

(* A file is opened. *)
LEMMA OpenKeeps ==
  ASSUME ArrowInv, NEW p \in Partitions, Open(p), UNCHANGED plannedVars
  PROVE  ArrowInv'
<1>1. ArrowTypes /\ ReadersFit /\ LayoutsFit(Partitions, Files, Having, reader, leases, cell)
      /\ PoolUsed <= PoolSize
  BY LayoutRules DEF ArrowInv, PoolFits
<1>2. /\ reader[p] = "next" /\ work[p] # <<>> /\ at' = [at EXCEPT ![p] = AtStart]
      /\ UNCHANGED <<work, out, reserved, cell>>
  BY DEF Open
<1>3. reserved[p] = 0
  BY <1>1, <1>2 DEF ReadersFit, Busy
<1>4. /\ at[p] \in Counters /\ out[p] \in Seq(Offers) /\ work[p] \in Seq(FileRanges)
      /\ PoolUsed \in Nat /\ File(p) \in Files /\ IsObject(Source(p))
      /\ Source(p) = group[Head(work[p]).file] /\ Source(p).variant \in {"file", "stream"}
      /\ File(p) = Head(work[p]).file /\ Source(p) = group[File(p)]
  BY <1>2, Standing DEF Source, File, Task
<1>5. AtStart \in Counters
  BY DEF AtStart, Counters
<1>6. \A f \in Files : ~HasLayout(p, f)
  BY <1>2 DEF HasLayout, Uses
<1>7. CASE Source(p).variant = "file"
  <2>1. Goto(p, "layout") /\ leases' = [leases EXCEPT ![File(p)] = @ \cup {p}]
    BY <1>7 DEF Open
  <2>2. ReaderMoves(p, "layout", AtStart, 0, out[p], work[p])
    BY <1>1, <1>2, <1>3, <2>1, SameAt DEF ReaderMoves, Goto
  <2>3. MayRead("layout", Source(p), AtStart, 0, Last(out[p])[2])
    BY <1>4, <1>7, OpenFits
  <2>4. /\ Typed("layout", AtStart, 0, out[p], work[p])
        /\ Fitting("layout", AtStart, 0, out[p], work[p])
    BY <1>2, <1>4, <1>5, <2>3 DEF Typed, Fitting, ReaderPlaces, Busy
  <2>5. leases \in [Files -> SUBSET Partitions] /\ cell \in [Files -> {"empty", "filling", "ready"}]
    BY <1>1 DEF ArrowTypes
  <2>6. leases' \in [Files -> SUBSET Partitions] /\ cell' \in [Files -> {"empty", "filling", "ready"}]
    BY <1>2, <1>4, <2>1, <2>5
  <2>7. ArrowTypes'
    BY <1>1, <2>2, <2>4, <2>6, MovedTypes
  <2>8. ReadersFit'
    BY <1>1, <2>2, <2>4, MovedReaders DEF Fitting
  <2>9. /\ OnlyOf(p, Partitions, Files, Having, reader, Having', reader')
        /\ reader'[p] = "layout" /\ Partitions' = Partitions /\ Files' = Files
        /\ \A f \in Files : <<p, f>> \in Having <=> HasLayout(p, f)
        /\ \A f \in Files : <<p, f>> \in Having' <=>
                work[p] # <<>> /\ Head(work[p]).file = f /\ Uses("layout", group[f].variant)
    BY <1>1, <2>2, MovedRules
  <2>10. LayoutsFit(Partitions, Files, Having', reader', leases', cell)
    <3>1. \A f \in Files : <<p, f>> \notin Having
      BY <1>6, <2>9
    <3>2. \A f \in Files : <<p, f>> \in Having' <=> f = File(p)
      BY <1>2, <1>4, <2>9 DEF Uses
    <3> QED BY <1>1, <1>4, <2>1, <2>5, <2>9, <3>1, <3>2, RulesTake
  <2>11. (LeasesFit /\ CellsFit)'
    BY <1>2, <2>9, <2>10, LayoutRulesNext
  <2>12. PoolFits'
    <3>1. PoolUsed' = PoolUsed
      <4>1. group' = group /\ reserved' = reserved /\ cell' = cell
        BY <1>2 DEF plannedVars
      <4> QED BY <4>1, PoolIs, PoolBecomes
    <3> QED BY <1>1, <3>1 DEF PoolFits
  <2> QED BY <2>7, <2>8, <2>11, <2>12 DEF ArrowInv
<1>8. CASE Source(p).variant # "file"
  <2>1. Goto(p, "stream") /\ leases' = leases
    BY <1>8 DEF Open
  <2>2. ReaderMoves(p, "stream", AtStart, 0, out[p], work[p])
    BY <1>1, <1>2, <1>3, <2>1, SameAt DEF ReaderMoves, Goto
  <2>3. MayRead("stream", Source(p), AtStart, 0, Last(out[p])[2])
    BY <1>4, <1>8, OpenFits
  <2>4. UNCHANGED layoutVars
    BY <1>2, <2>1 DEF layoutVars
  <2>5. PoolUsed - reserved[p] + 0 <= PoolSize
    BY <1>1, <1>3, <1>4
  <2>6. /\ ~Uses("stream", Source(p).variant) /\ ~Uses(reader[p], Source(p).variant)
        /\ "stream" \in Busy /\ "stream" # "filling"
    BY <1>2 DEF Uses, Busy
  <2> QED BY <1>2, <1>4, <1>5, <2>2, <2>3, <2>4, <2>5, <2>6, StepWithin
<1> QED BY <1>7, <1>8

(* A layout begins to be filled, or cannot be. *)
LEMMA FillKeeps ==
  ASSUME ArrowInv, NEW p \in Partitions, FillLayout(p), UNCHANGED plannedVars
  PROVE  ArrowInv'
<1>1. ArrowTypes /\ ReadersFit /\ LayoutsFit(Partitions, Files, Having, reader, leases, cell)
      /\ PoolUsed <= PoolSize
  BY LayoutRules DEF ArrowInv, PoolFits
<1>2. CASE ~(TrailerRead(Source(p)) /\ PoolUsed + Source(p).footer <= PoolSize)
  BY <1>2, FailKeeps DEF FillLayout
<1>3. CASE TrailerRead(Source(p)) /\ PoolUsed + Source(p).footer <= PoolSize
  <2>1. /\ reader[p] = "layout" /\ cell[File(p)] = "empty"
        /\ cell' = [cell EXCEPT ![File(p)] = "filling"] /\ Goto(p, "filling")
        /\ UNCHANGED <<work, at, out, reserved, leases>>
    BY <1>3 DEF FillLayout
  <2>2. reader[p] \in Busy /\ "filling" \in Busy /\ "filling" \in ReaderPlaces
    BY <2>1 DEF Busy, ReaderPlaces
  <2>3. /\ at[p] \in Counters /\ reserved[p] \in Nat /\ out[p] \in Seq(Offers)
        /\ work[p] \in Seq(FileRanges) /\ work[p] # <<>> /\ File(p) \in Files
        /\ IsObject(Source(p)) /\ Source(p) = group[Head(work[p]).file]
        /\ MayRead(reader[p], Source(p), at[p], reserved[p], Last(out[p])[2])
        /\ File(p) = Head(work[p]).file /\ Source(p) = group[File(p)]
    BY <2>2, Standing DEF Source, File, Task
  <2>4. MayRead("filling", Source(p), at[p], reserved[p], Last(out[p])[2])
        /\ Source(p).variant = "file"
    BY <2>1, <2>3, LayoutFits
  <2>5. ReaderMoves(p, "filling", at[p], reserved[p], out[p], work[p])
    BY <1>1, <2>1, SameAt DEF ReaderMoves, Goto
  <2>6. /\ Typed("filling", at[p], reserved[p], out[p], work[p])
        /\ Fitting("filling", at[p], reserved[p], out[p], work[p])
    BY <2>2, <2>3, <2>4 DEF Typed, Fitting
  <2>7. leases \in [Files -> SUBSET Partitions] /\ cell \in [Files -> {"empty", "filling", "ready"}]
    BY <1>1 DEF ArrowTypes
  <2>8. leases' \in [Files -> SUBSET Partitions] /\ cell' \in [Files -> {"empty", "filling", "ready"}]
    BY <2>1, <2>3, <2>7
  <2>9. ArrowTypes'
    BY <1>1, <2>5, <2>6, <2>8, MovedTypes
  <2>10. ReadersFit'
    BY <1>1, <2>5, <2>6, MovedReaders DEF Fitting
  <2>11. /\ OnlyOf(p, Partitions, Files, Having, reader, Having', reader')
         /\ reader'[p] = "filling" /\ Partitions' = Partitions /\ Files' = Files
         /\ \A f \in Files : <<p, f>> \in Having <=> HasLayout(p, f)
         /\ \A f \in Files : <<p, f>> \in Having' <=>
                 work[p] # <<>> /\ Head(work[p]).file = f /\ Uses("filling", group[f].variant)
    BY <1>1, <2>5, MovedRules
  <2>12. /\ \A f \in Files : <<p, f>> \in Having <=> f = File(p)
         /\ \A f \in Files : <<p, f>> \in Having' <=> <<p, f>> \in Having
    BY <2>1, <2>3, <2>11 DEF HasLayout, Uses
  <2>13. LayoutsFit(Partitions, Files, Having', reader', leases, cell')
    <3>1. DOMAIN cell = Files
      BY <2>7
    <3>2. LayoutsFit(Partitions, Files, Having', reader', leases,
                     [cell EXCEPT ![File(p)] = "filling"])
      BY <1>1, <2>1, <2>3, <2>11, <2>12, <3>1, RulesFill
    <3> QED BY <2>1, <3>2
  <2>14. (LeasesFit /\ CellsFit)'
    BY <2>1, <2>11, <2>13, LayoutRulesNext
  <2>15. PoolFits'
    <3>1. group' = group
      BY DEF plannedVars
    <3>2. PoolUsed' = PoolUsed + group[File(p)].footer
      BY <1>1, <2>1, <2>3, <3>1, PoolFilled
    <3> QED BY <1>3, <2>3, <3>2 DEF PoolFits
  <2> QED BY <2>9, <2>10, <2>14, <2>15 DEF ArrowInv
<1> QED BY <1>2, <1>3

(* A layout has been filled. *)
LEMMA FilledKeeps ==
  ASSUME ArrowInv, NEW p \in Partitions, LayoutFilled(p), UNCHANGED plannedVars
  PROVE  ArrowInv'
<1>1. ArrowTypes /\ ReadersFit /\ LayoutsFit(Partitions, Files, Having, reader, leases, cell)
      /\ PoolUsed <= PoolSize
  BY LayoutRules DEF ArrowInv, PoolFits
<1>0. PICK f : f = File(p)
  OBVIOUS
<1>2. /\ reader[p] = "filling" /\ cell' = [cell EXCEPT ![f] = "ready"] /\ Goto(p, "layout")
      /\ UNCHANGED <<work, at, out, reserved, leases>>
  BY <1>0 DEF LayoutFilled
<1>3. reader[p] \in Busy /\ "layout" \in Busy /\ "layout" \in ReaderPlaces
  BY <1>2 DEF Busy, ReaderPlaces
<1>4. /\ at[p] \in Counters /\ reserved[p] \in Nat /\ out[p] \in Seq(Offers)
      /\ work[p] \in Seq(FileRanges) /\ work[p] # <<>> /\ f \in Files
      /\ IsObject(Source(p)) /\ Source(p) = group[Head(work[p]).file]
      /\ MayRead(reader[p], Source(p), at[p], reserved[p], Last(out[p])[2])
      /\ f = Head(work[p]).file /\ Source(p) = group[f]
  BY <1>0, <1>3, Standing DEF Source, File, Task
<1>5. MayRead("layout", Source(p), at[p], reserved[p], Last(out[p])[2])
      /\ Source(p).variant = "file"
  BY <1>2, <1>4, LayoutFits
<1>6. ReaderMoves(p, "layout", at[p], reserved[p], out[p], work[p])
  BY <1>1, <1>2, SameAt DEF ReaderMoves, Goto
<1>7. /\ Typed("layout", at[p], reserved[p], out[p], work[p])
      /\ Fitting("layout", at[p], reserved[p], out[p], work[p])
  BY <1>3, <1>4, <1>5 DEF Typed, Fitting
<1>8. leases \in [Files -> SUBSET Partitions] /\ cell \in [Files -> {"empty", "filling", "ready"}]
  BY <1>1 DEF ArrowTypes
<1>9. leases' \in [Files -> SUBSET Partitions] /\ cell' \in [Files -> {"empty", "filling", "ready"}]
  BY <1>2, <1>4, <1>8
<1>10. ArrowTypes'
  BY <1>1, <1>6, <1>7, <1>9, MovedTypes
<1>11. ReadersFit'
  BY <1>1, <1>6, <1>7, MovedReaders DEF Fitting
<1>12. /\ OnlyOf(p, Partitions, Files, Having, reader, Having', reader')
       /\ reader'[p] = "layout" /\ Partitions' = Partitions /\ Files' = Files
       /\ \A g \in Files : <<p, g>> \in Having <=> HasLayout(p, g)
       /\ \A g \in Files : <<p, g>> \in Having' <=>
               work[p] # <<>> /\ Head(work[p]).file = g /\ Uses("layout", group[g].variant)
  BY <1>1, <1>6, MovedRules
<1>13. /\ \A g \in Files : <<p, g>> \in Having <=> g = f
       /\ \A g \in Files : <<p, g>> \in Having' <=> <<p, g>> \in Having
  BY <1>0, <1>2, <1>4, <1>5, <1>12 DEF HasLayout, Uses
<1>14. LayoutsFit(Partitions, Files, Having', reader', leases, cell')
  <2>1. DOMAIN cell = Files
    BY <1>8
  <2>2. LayoutsFit(Partitions, Files, Having', reader', leases, [cell EXCEPT ![f] = "ready"])
    <3>1. LayoutsFit(Partitions, Files, Having, reader, leases, cell)
      BY <1>1
    <3>2. f \in Files /\ reader[p] = "filling" /\ reader'[p] = "layout"
      BY <1>2, <1>4, <1>12
    <3>3. /\ OnlyOf(p, Partitions, Files, Having, reader, Having', reader')
          /\ \A g \in Files : <<p, g>> \in Having' <=> <<p, g>> \in Having
          /\ \A g \in Files : <<p, g>> \in Having <=> g = f
      BY <1>12, <1>13
    <3> QED BY ONLY p \in Partitions, <2>1, <3>1, <3>2, <3>3, RulesFilled
  <2> QED BY <1>2, <2>2
<1>15. (LeasesFit /\ CellsFit)'
  BY <1>2, <1>12, <1>14, LayoutRulesNext
<1>16. PoolFits'
  <2>1. group' = group
    BY DEF plannedVars
  <2>2. cell[f] = "filling"
    <3>1. <<p, f>> \in Having
      BY <1>4, <1>13
    <3> QED BY <1>1, <1>2, <1>4, <3>1 DEF LayoutsFit
  <2>3. PoolUsed' = PoolUsed
    BY <1>1, <1>2, <1>4, <2>1, <2>2, PoolReady
  <2> QED BY <1>1, <2>3 DEF PoolFits
<1> QED BY <1>10, <1>11, <1>15, <1>16 DEF ArrowInv

(* A layout is found ready: the reader stays with it. *)
LEMMA ReadyKeeps ==
  ASSUME ArrowInv, NEW p \in Partitions, LayoutReady(p), UNCHANGED plannedVars
  PROVE  ArrowInv'
<1>1. ArrowTypes /\ PoolUsed <= PoolSize
  BY DEF ArrowInv, PoolFits
<1>2. CASE ~SameSchema(Schema, Source(p))
  BY <1>2, FailKeeps DEF LayoutReady
<1>3. CASE SameSchema(Schema, Source(p))
  <2>1. /\ reader[p] = "layout" /\ cell[File(p)] = "ready" /\ Goto(p, "file")
        /\ UNCHANGED <<work, at, out, reserved, layoutVars>>
    BY <1>3 DEF LayoutReady
  <2>2. reader[p] \in Busy /\ "file" \in Busy
    BY <2>1 DEF Busy
  <2>3. /\ at[p] \in Counters /\ reserved[p] \in Nat /\ out[p] \in Seq(Offers)
        /\ work[p] # <<>> /\ IsObject(Source(p)) /\ PoolUsed \in Nat
        /\ MayRead(reader[p], Source(p), at[p], reserved[p], Last(out[p])[2])
    BY <2>2, Standing
  <2>4. MayRead("file", Source(p), at[p], reserved[p], Last(out[p])[2])
    BY <2>1, <2>3, LayoutFits
  <2>5. ReaderMoves(p, "file", at[p], reserved[p], out[p], work[p])
    BY <1>1, <2>1, SameAt DEF ReaderMoves, Goto
  <2>6. /\ UNCHANGED layoutVars /\ PoolUsed - reserved[p] + reserved[p] <= PoolSize
        /\ Uses("file", Source(p).variant) /\ Uses(reader[p], Source(p).variant)
    BY <1>1, <2>1, <2>3 DEF Uses, layoutVars
  <2> QED BY <2>1, <2>2, <2>3, <2>4, <2>5, <2>6, StepWithin
<1> QED BY <1>2, <1>3

(* A dictionary is read. *)
LEMMA DictionaryKeeps ==
  ASSUME ArrowInv, NEW p \in Partitions, ReadDictionary(p), UNCHANGED plannedVars
  PROVE  ArrowInv'
<1>1. ArrowTypes /\ PoolUsed <= PoolSize
  BY DEF ArrowInv, PoolFits
<1>2. PICK size : size = DictionaryBytes(p) + Source(p).dictionaries[at[p].dictionaries + 1].len
  OBVIOUS
<1>3. /\ reader[p] = "file" /\ at[p].dictionaries < Len(Source(p).dictionaries)
      /\ \/ FailStream(p)
         \/ /\ Fits(p, size) /\ Resize(p, size)
            /\ at' = [at EXCEPT ![p].dictionaries = @ + 1]
            /\ UNCHANGED <<work, reader, out, layoutVars>>
  BY <1>2 DEF ReadDictionary
<1>4. CASE FailStream(p)
  BY <1>4, FailKeeps
<1>5. CASE ~FailStream(p)
  <2>1. /\ Fits(p, size) /\ Resize(p, size) /\ at' = [at EXCEPT ![p].dictionaries = @ + 1]
        /\ UNCHANGED <<work, reader, out, layoutVars>>
    BY <1>3, <1>5
  <2>2. reader[p] \in Busy /\ "file" \in Busy
    BY <1>3 DEF Busy
  <2>3. /\ at[p] \in Counters /\ reserved[p] \in Nat /\ out[p] \in Seq(Offers)
        /\ work[p] # <<>> /\ IsObject(Source(p)) /\ PoolUsed \in Nat
        /\ File(p) \in Files
        /\ MayRead("file", Source(p), at[p], reserved[p], Last(out[p])[2])
    BY <1>3, <2>2, Standing
  <2>4. PICK a : a = [at[p] EXCEPT !.dictionaries = @ + 1]
    OBVIOUS
  <2>5. a \in Counters
    BY <2>3, <2>4, MoreCounted
  <2>6. size \in Nat /\ MayRead("file", Source(p), a, size, Last(out[p])[2])
    BY <1>2, <1>3, <2>3, <2>4, DictionaryFits DEF DictionaryBytes
  <2>7. at' = [at EXCEPT ![p] = a]
    BY <1>1, <2>1, <2>4 DEF ArrowTypes
  <2>8. ReaderMoves(p, "file", a, size, out[p], work[p])
    BY <1>1, <1>3, <2>1, <2>7, SameAt DEF ReaderMoves, Resize
  <2>9. cell[File(p)] = "ready"
    <3>1. HasLayout(p, File(p))
      BY <1>3, <2>3, StandingLayout DEF Uses
    <3> QED BY <1>3, <2>3, <3>1, StandingLayout
  <2>10. UNCHANGED layoutVars /\ PoolUsed - reserved[p] + size <= PoolSize
    BY <2>1 DEF Fits, layoutVars
  <2> QED BY <1>3, <2>2, <2>3, <2>5, <2>6, <2>8, <2>9, <2>10, StepWithin
<1> QED BY <1>4, <1>5

(* The blocks of the object o that belong to the task w, by their places e. *)
AreMine(e, o, w, m) ==
  /\ e \in Seq(DOMAIN o.batches) /\ Len(m) = Len(e) /\ DOMAIN m = 1..Len(e)
  /\ \A k \in 1..Len(e) : /\ e[k] \in DOMAIN o.batches
                          /\ m[k] = [index |-> e[k], block |-> o.batches[e[k]]]
  /\ \A j, k \in 1..Len(e) : j < k => e[j] < e[k]
  /\ \A i \in DOMAIN o.batches : InRange(w, o.batches[i]) <=> \E k \in 1..Len(e) : e[k] = i

(* What the task w is to read of the object o. *)
MineOf(o, w) ==
  Filter([i \in DOMAIN o.batches |-> [index |-> i, block |-> o.batches[i]]],
         LAMBDA e : InRange(w, e.block))

(* These are its blocks, in order. *)
LEMMA MineOfIs ==
  ASSUME NEW o, IsObject(o), NEW w
  PROVE  \E e : AreMine(e, o, w, MineOf(o, w))
<1>2. PICK b : b = o.batches /\ b \in Seq(Range(b))
  BY DEF IsObject
<1>3. PICK s : s = [i \in DOMAIN b |-> [index |-> i, block |-> b[i]]]
  OBVIOUS
<1>4. PICK T : T = {i \in DOMAIN b : InRange(w, b[i])}
  OBVIOUS
<1>5. PICK S : S = [index : DOMAIN b, block : Range(b)]
  OBVIOUS
<1>6. s \in Seq(S) /\ DOMAIN s = DOMAIN b /\ Len(s) \in Nat /\ DOMAIN s = 1..Len(s)
  <2>1. DOMAIN b = 1..Len(b) /\ Len(b) \in Nat /\ \A i \in DOMAIN b : b[i] \in Range(b)
    BY <1>2 DEF Range
  <2>2. \A i \in DOMAIN b : [index |-> i, block |-> b[i]] \in S
    BY <1>5, <2>1
  <2>3. s \in [1..Len(b) -> S]
    BY <1>3, <2>1, <2>2
  <2>4. s \in Seq(S)
    BY <2>1, <2>3
  <2> QED BY <1>3, <2>1, <2>3, <2>4
<1>7. MineOf(o, w) = Filtered(s, T)
  <2>1. \A i \in DOMAIN s : i \in T <=> InRange(w, s[i].block)
    BY <1>3, <1>4
  <2>2. MineOf(o, w) = FlattenSeq([i \in DOMAIN s |->
                    IF InRange(w, s[i].block) THEN <<s[i]>> ELSE <<>>])
    BY <1>2, <1>3, Zenon DEF MineOf, Filter
  <2>3. [i \in DOMAIN s |-> IF InRange(w, s[i].block) THEN <<s[i]>> ELSE <<>>]
         = [i \in DOMAIN s |-> IF i \in T THEN <<s[i]>> ELSE <<>>]
    BY <2>1, Zenon
  <2> QED BY <2>2, <2>3, Zenon DEF Filtered, Passed
<1>8. PICK e : IsPick(e, s, T, Filtered(s, T))
  BY <1>6, FilterPicks
<1>9. /\ e \in Seq(DOMAIN b) /\ Len(e) \in Nat /\ DOMAIN e = 1..Len(e)
      /\ MineOf(o, w) = [k \in 1..Len(e) |-> s[e[k]]]
      /\ \A j, k \in DOMAIN e : j < k => e[j] < e[k]
      /\ \A i \in DOMAIN b : i \in T <=> \E k \in DOMAIN e : e[k] = i
  <2>1. e \in Seq(DOMAIN s)
    BY <1>8 DEF IsPick
  <2> QED BY <1>6, <1>7, <1>8, <2>1 DEF IsPick
<1>10. \A k \in 1..Len(e) : e[k] \in DOMAIN b
  BY <1>9
<1>11. PICK m : m = MineOf(o, w)
  OBVIOUS
<1>12. Len(m) = Len(e) /\ DOMAIN m = 1..Len(e)
  BY <1>9, <1>11
<1>13. \A k \in 1..Len(e) : m[k] = [index |-> e[k], block |-> b[e[k]]]
  BY <1>3, <1>9, <1>10, <1>11
<1>14. \A i \in DOMAIN b : InRange(w, b[i]) <=> \E k \in 1..Len(e) : e[k] = i
  BY <1>4, <1>9
<1>15. AreMine(e, o, w, m)
  BY <1>2, <1>9, <1>10, <1>12, <1>13, <1>14 DEF AreMine
<1> QED BY <1>11, <1>15

(* A partition reads those of its task. *)
LEMMA MineIs ==
  ASSUME NEW p, IsObject(Source(p))
  PROVE  /\ Mine(p) = MineOf(Source(p), Task(p))
         /\ \E e : AreMine(e, Source(p), Task(p), Mine(p))
<1>1. Mine(p) = MineOf(Source(p), Task(p))
  BY Zenon DEF Mine, MineOf
<1> QED BY <1>1, MineOfIs

(* The last batch is the one that was delivered last. *)
LEMMA LastOffer ==
  ASSUME NEW o \in Seq(Offers), NEW f \in Files, NEW j \in Nat
  PROVE  /\ Append(o, <<f, j>>) \in Seq(Offers) /\ Last(Append(o, <<f, j>>)) = <<f, j>>
<1>1. <<f, j>> \in Offers
  BY DEF Offers
<1>2. PICK x : x = <<f, j>> /\ x \in Offers
  BY <1>1
<1>3. Append(o, x) \in Seq(Offers) /\ Append(o, x)[Len(Append(o, x))] = x
  BY <1>2
<1> QED BY <1>2, <1>3 DEF Last

(* The block that is next in the range of a partition. *)
LEMMA NextBlockIs ==
  ASSUME NEW p, IsObject(Source(p)), at[p] \in Counters, at[p].batches < Len(Mine(p))
  PROVE  \E j \in DOMAIN Source(p).batches :
           j \in Nat /\ NextBlock(p) = [index |-> j, block |-> Source(p).batches[j]]
<1>1. PICK e : AreMine(e, Source(p), Task(p), Mine(p))
  BY MineIs
<1>2. PICK k : k = at[p].batches + 1 /\ k \in 1..Len(e)
  <2>1. Len(Mine(p)) = Len(e) /\ at[p].batches \in Nat /\ Len(e) \in Nat
    BY <1>1 DEF AreMine, Counters
  <2> QED BY <2>1
<1>3. e[k] \in DOMAIN Source(p).batches
      /\ NextBlock(p) = [index |-> e[k], block |-> Source(p).batches[e[k]]]
  BY <1>1, <1>2 DEF AreMine, NextBlock
<1>4. e[k] \in Nat
  BY <1>3, BatchNumbers
<1> QED BY <1>3, <1>4

(* A block is read, or does not fit. *)
LEMMA ReadBlockKeeps ==
  ASSUME ArrowInv, NEW p \in Partitions, ReadBlock(p), UNCHANGED plannedVars
  PROVE  ArrowInv'
<1>1. ArrowTypes /\ PoolUsed <= PoolSize
  BY DEF ArrowInv, PoolFits
<1>2. reader[p] = "file" /\ at[p].batches < Len(Mine(p)) /\ {"file", "block"} \subseteq Busy
  BY DEF ReadBlock, Busy
<1>3. CASE FailStream(p)
  BY <1>3, FailKeeps
<1>4. CASE ~FailStream(p)
  <2>1. PICK s : s = Needed(p, NextBlock(p).block.len)
    OBVIOUS
  <2>2. Fits(p, s) /\ Resize(p, s) /\ Goto(p, "block") /\ UNCHANGED <<work, at, out, layoutVars>>
    BY <1>4, <2>1 DEF ReadBlock
  <2>3. /\ at[p] \in Counters /\ reserved[p] \in Nat /\ out[p] \in Seq(Offers)
        /\ work[p] # <<>> /\ IsObject(Source(p)) /\ PoolUsed \in Nat
        /\ File(p) \in Files
        /\ MayRead("file", Source(p), at[p], reserved[p], Last(out[p])[2])
    BY <1>2, Standing
  <2>4. PICK j \in DOMAIN Source(p).batches :
          NextBlock(p) = [index |-> j, block |-> Source(p).batches[j]]
    BY <1>2, <2>3, NextBlockIs
  <2>5. s = BytesOf(SubSeq(Source(p).dictionaries, 1, at[p].dictionaries))
              + Source(p).batches[j].len
    BY <2>1, <2>4 DEF Needed, DictionaryBytes
  <2>6. s \in Nat /\ MayRead("block", Source(p), at[p], s, Last(out[p])[2])
        /\ Source(p).variant = "file"
    BY <2>3, <2>5, BlockTaken
  <2>7. ReaderMoves(p, "block", at[p], s, out[p], work[p])
    BY <1>1, <2>2, SameAt DEF ReaderMoves, Resize, Goto
  <2>8. cell[File(p)] = "ready"
    <3>1. HasLayout(p, File(p))
      BY <1>2, <2>3, StandingLayout DEF Uses
    <3> QED BY <1>2, <2>3, <3>1, StandingLayout
  <2>9. UNCHANGED layoutVars /\ PoolUsed - reserved[p] + s <= PoolSize
    BY <2>2 DEF Fits, layoutVars
  <2>10. Uses("block", Source(p).variant) /\ Uses(reader[p], Source(p).variant)
    BY <1>2 DEF Uses
  <2> QED BY <1>2, <2>3, <2>6, <2>7, <2>8, <2>9, <2>10, StepWithin
<1> QED BY <1>3, <1>4

(* It is decoded, or its batch does not fit. *)
LEMMA DecodeBlockKeeps ==
  ASSUME ArrowInv, BlocksFit, NEW p \in Partitions, DecodeBlock(p), UNCHANGED plannedVars
  PROVE  ArrowInv'
<1>1. ArrowTypes /\ PoolUsed <= PoolSize
  BY DEF ArrowInv, PoolFits
<1>2. reader[p] = "block" /\ at[p].batches < Len(Mine(p)) /\ {"block", "yielded"} \subseteq Busy
  BY DEF DecodeBlock, BlocksFit, Busy
<1>3. CASE FailStream(p)
  BY <1>3, FailKeeps
<1>4. CASE ~FailStream(p)
  <2>1. PICK s : s = Needed(p, NextBlock(p).block.memory)
    OBVIOUS
  <2>2. /\ Fits(p, s) /\ Resize(p, s) /\ Goto(p, "yielded")
        /\ at' = [at EXCEPT ![p].batches = @ + 1]
        /\ out' = [out EXCEPT ![p] = Append(@, <<File(p), NextBlock(p).index>>)]
        /\ UNCHANGED <<work, layoutVars>>
    BY <1>4, <2>1 DEF DecodeBlock
  <2>3. /\ at[p] \in Counters /\ reserved[p] \in Nat /\ out[p] \in Seq(Offers)
        /\ work[p] # <<>> /\ IsObject(Source(p)) /\ PoolUsed \in Nat
        /\ File(p) \in Files
        /\ MayRead("block", Source(p), at[p], reserved[p], Last(out[p])[2])
    BY <1>2, Standing
  <2>4. PICK j \in DOMAIN Source(p).batches :
          j \in Nat /\ NextBlock(p) = [index |-> j, block |-> Source(p).batches[j]]
    BY <1>2, <2>3, NextBlockIs
  <2>5. PICK a, o : a = [at[p] EXCEPT !.batches = @ + 1] /\ o = Append(out[p], <<File(p), j>>)
    OBVIOUS
  <2>6. a \in Counters /\ o \in Seq(Offers) /\ Last(o)[2] = j
    <3>1. Last(o) = <<File(p), j>> /\ o \in Seq(Offers)
      BY <2>3, <2>4, <2>5, LastOffer
    <3>2. a \in Counters
      BY <2>3, <2>5, MoreCounted
    <3> QED BY <3>1, <3>2
  <2>7. s = BytesOf(SubSeq(Source(p).dictionaries, 1, at[p].dictionaries))
              + Source(p).batches[j].memory
    BY <2>1, <2>4 DEF Needed, DictionaryBytes
  <2>8. s \in Nat /\ MayRead("yielded", Source(p), a, s, j) /\ Source(p).variant = "file"
    BY <2>3, <2>5, <2>7, BlockFits
  <2>9. ReaderMoves(p, "yielded", a, s, o, work[p])
    <3>1. at' = [at EXCEPT ![p] = a]
      BY <1>1, <2>2, <2>5 DEF ArrowTypes
    <3>2. out' = [out EXCEPT ![p] = o]
      BY <1>1, <2>2, <2>4, <2>5 DEF ArrowTypes
    <3> QED BY <1>1, <2>2, <3>1, <3>2, SameAt DEF ReaderMoves, Resize, Goto
  <2>10. cell[File(p)] = "ready"
    <3>1. HasLayout(p, File(p))
      BY <1>2, <2>3, StandingLayout DEF Uses
    <3> QED BY <1>2, <2>3, <3>1, StandingLayout
  <2>11. UNCHANGED layoutVars /\ PoolUsed - reserved[p] + s <= PoolSize
    BY <2>2 DEF Fits, layoutVars
  <2>12. Uses("yielded", Source(p).variant) /\ Uses(reader[p], Source(p).variant)
    BY <1>2, <2>8 DEF Uses
  <2> QED BY <1>2, <2>3, <2>6, <2>8, <2>9, <2>10, <2>11, <2>12, StepWithin
<1> QED BY <1>3, <1>4

(* A chunk is read, or does not fit. *)
LEMMA ChunkKeeps ==
  ASSUME ArrowInv, NEW p \in Partitions, ReadChunk(p), UNCHANGED plannedVars
  PROVE  ArrowInv'
<1>1. ArrowTypes /\ PoolUsed <= PoolSize
  BY DEF ArrowInv, PoolFits
<1>2. PICK end \in (at[p].bytes + 1)..Source(p).size :
        /\ reader[p] = "stream"
        /\ \/ FailStream(p)
           \/ /\ Fits(p, end - at[p].bytes) /\ Resize(p, end - at[p].bytes)
              /\ at' = [at EXCEPT ![p].bytes = end]
              /\ Goto(p, "chunk") /\ UNCHANGED <<work, out, layoutVars>>
  BY DEF ReadChunk
<1>3. CASE FailStream(p)
  BY <1>3, FailKeeps
<1>4. CASE ~FailStream(p)
  <2>1. /\ Fits(p, end - at[p].bytes) /\ Resize(p, end - at[p].bytes)
        /\ at' = [at EXCEPT ![p].bytes = end]
        /\ Goto(p, "chunk") /\ UNCHANGED <<work, out, layoutVars>>
    BY <1>2, <1>4
  <2>2. reader[p] \in Busy /\ "chunk" \in Busy
    BY <1>2 DEF Busy
  <2>3. /\ at[p] \in Counters /\ reserved[p] \in Nat /\ out[p] \in Seq(Offers)
        /\ work[p] # <<>> /\ IsObject(Source(p)) /\ PoolUsed \in Nat
        /\ MayRead("stream", Source(p), at[p], reserved[p], Last(out[p])[2])
    BY <1>2, <2>2, Standing
  <2>4. end \in Nat /\ at[p].bytes < end
    BY <2>3 DEF Counters
  <2>5. PICK a, s : a = [at[p] EXCEPT !.bytes = end] /\ s = end - at[p].bytes
    OBVIOUS
  <2>6. a \in Counters /\ s \in Nat /\ MayRead("chunk", Source(p), a, s, Last(out[p])[2])
    BY <2>3, <2>4, <2>5, ChunkFits, MoreBytes
  <2>7. ReaderMoves(p, "chunk", a, s, out[p], work[p])
    <3>1. at' = [at EXCEPT ![p] = a]
      BY <1>1, <2>1, <2>5 DEF ArrowTypes
    <3> QED BY <1>1, <2>1, <2>5, <3>1, SameAt DEF ReaderMoves, Resize, Goto
  <2>8. UNCHANGED layoutVars /\ PoolUsed - reserved[p] + s <= PoolSize
    BY <2>1, <2>5 DEF Fits, layoutVars
  <2>9. ~Uses("chunk", Source(p).variant) /\ ~Uses(reader[p], Source(p).variant)
    BY <1>2 DEF Uses
  <2> QED BY <2>2, <2>3, <2>6, <2>7, <2>8, <2>9, StepWithin
<1> QED BY <1>3, <1>4

(* A batch of a chunk is decoded, or the chunk is used up. *)
LEMMA DecodeKeeps ==
  ASSUME ArrowInv, NEW p \in Partitions, DecodeChunk(p), UNCHANGED plannedVars
  PROVE  ArrowInv'
<1>1. ArrowTypes /\ PoolUsed <= PoolSize
  BY DEF ArrowInv, PoolFits
<1>2. reader[p] = "chunk" /\ reader[p] \in Busy /\ {"chunk", "yielded", "stream"} \subseteq Busy
  BY DEF DecodeChunk, Busy
<1>3. /\ at[p] \in Counters /\ reserved[p] \in Nat /\ out[p] \in Seq(Offers)
      /\ work[p] # <<>> /\ IsObject(Source(p)) /\ PoolUsed \in Nat /\ File(p) \in Files
      /\ MayRead("chunk", Source(p), at[p], reserved[p], Last(out[p])[2])
  BY <1>2, Standing
<1>4. HasMore(p) /\ End(NextBatch(p)) <= at[p].bytes <=>
        HasNext(Source(p), at[p]) /\ NextEnd(Source(p), at[p]) <= at[p].bytes
  BY DEF HasMore, NextBatch, HasNext, NextEnd
<1>5. Source(p).variant = "stream"
  BY <1>3 DEF MayRead, WithFile, WithStream
<1>6. /\ ~Uses("chunk", Source(p).variant) /\ ~Uses("yielded", Source(p).variant)
      /\ ~Uses("stream", Source(p).variant)
  BY <1>5 DEF Uses
<1>7. CASE FailStream(p)
  BY <1>7, FailKeeps
<1>8. CASE ~FailStream(p) /\ HasMore(p) /\ End(NextBatch(p)) <= at[p].bytes
  <2>1. PICK a, s, o : /\ a = [at[p] EXCEPT !.batches = @ + 1]
                       /\ s = reserved[p] + Source(p).batches[at[p].batches + 1].memory
                       /\ o = Append(out[p], <<File(p), at[p].batches + 1>>)
    OBVIOUS
  <2>2. /\ Fits(p, s) /\ Resize(p, s) /\ Goto(p, "yielded")
        /\ out' = [out EXCEPT ![p] = Append(@, <<File(p), at[p].batches + 1>>)]
        /\ at' = [at EXCEPT ![p].batches = @ + 1] /\ UNCHANGED <<work, layoutVars>>
    BY <1>8, <2>1 DEF DecodeChunk, NextBatch
  <2>3. s \in Nat /\ MayRead("yielded", Source(p), a, s, at[p].batches + 1)
    BY <1>3, <1>4, <1>8, <2>1, DecodeFits
  <2>4. a \in Counters /\ o \in Seq(Offers) /\ Last(o)[2] = at[p].batches + 1
    <3>1. at[p].batches + 1 \in Nat
      BY <1>3 DEF Counters
    <3>2. Last(o) = <<File(p), at[p].batches + 1>> /\ o \in Seq(Offers)
      BY <1>3, <2>1, <3>1, LastOffer
    <3>3. a \in Counters
      BY <1>3, <2>1, MoreCounted
    <3> QED BY <3>2, <3>3
  <2>5. ReaderMoves(p, "yielded", a, s, o, work[p])
    <3>1. at' = [at EXCEPT ![p] = a]
      BY <1>1, <2>1, <2>2 DEF ArrowTypes
    <3>2. out' = [out EXCEPT ![p] = o]
      BY <1>1, <2>1, <2>2 DEF ArrowTypes
    <3> QED BY <1>1, <2>2, <3>1, <3>2, SameAt DEF ReaderMoves, Resize, Goto
  <2>6. UNCHANGED layoutVars /\ PoolUsed - reserved[p] + s <= PoolSize
    BY <2>2 DEF Fits, layoutVars
  <2> QED BY <1>2, <1>3, <1>6, <2>3, <2>4, <2>5, <2>6, StepWithin
<1>9. CASE ~FailStream(p) /\ ~(HasMore(p) /\ End(NextBatch(p)) <= at[p].bytes)
  <2>1. Goto(p, "stream") /\ Resize(p, 0) /\ UNCHANGED <<work, at, out, layoutVars>>
    BY <1>9 DEF DecodeChunk
  <2>2. MayRead("stream", Source(p), at[p], 0, Last(out[p])[2])
    BY <1>3, <1>4, <1>9, ChunkEndsFits
  <2>3. ReaderMoves(p, "stream", at[p], 0, out[p], work[p])
    BY <1>1, <2>1, SameAt DEF ReaderMoves, Resize, Goto
  <2>4. UNCHANGED layoutVars /\ PoolUsed - reserved[p] + 0 <= PoolSize
    <3>1. PoolSize \in Nat
      BY ArrowInputAssumption
    <3> QED BY <1>1, <1>3, <2>1, <3>1 DEF layoutVars
  <2> QED BY <1>2, <1>3, <1>6, <2>2, <2>3, <2>4, StepWithin
<1> QED BY <1>7, <1>8, <1>9

(* The consumer takes the batch and asks for more. *)
LEMMA PolledKeeps ==
  ASSUME ArrowInv, NEW p \in Partitions, Polled(p), UNCHANGED plannedVars
  PROVE  ArrowInv'
<1>1. ArrowTypes /\ PoolUsed <= PoolSize
  BY DEF ArrowInv, PoolFits
<1>2. /\ reader[p] = "yielded" /\ reader[p] \in Busy /\ {"file", "chunk"} \subseteq Busy
      /\ UNCHANGED <<work, at, out, layoutVars>>
  BY DEF Polled, Busy
<1>3. /\ at[p] \in Counters /\ reserved[p] \in Nat /\ out[p] \in Seq(Offers)
      /\ work[p] # <<>> /\ IsObject(Source(p)) /\ PoolUsed \in Nat /\ File(p) \in Files
      /\ MayRead("yielded", Source(p), at[p], reserved[p], Last(out[p])[2])
  BY <1>2, Standing
<1>4. PoolSize \in Nat
  BY ArrowInputAssumption
<1>5. CASE Source(p).variant = "file"
  <2>1. PICK s : s = DictionaryBytes(p)
    OBVIOUS
  <2>2. Goto(p, "file") /\ Resize(p, s)
    BY <1>5, <2>1 DEF Polled
  <2>3. s \in Nat /\ s <= reserved[p] /\ MayRead("file", Source(p), at[p], s, Last(out[p])[2])
    BY <1>3, <1>5, <2>1, FilePolled DEF DictionaryBytes
  <2>4. ReaderMoves(p, "file", at[p], s, out[p], work[p])
    BY <1>1, <1>2, <2>2, SameAt DEF ReaderMoves, Resize, Goto
  <2>5. UNCHANGED layoutVars /\ PoolUsed - reserved[p] + s <= PoolSize
    BY <1>1, <1>2, <1>3, <1>4, <2>3 DEF layoutVars
  <2>6. Uses("file", Source(p).variant) /\ Uses(reader[p], Source(p).variant)
    BY <1>2, <1>5 DEF Uses
  <2>7. cell[File(p)] = "ready"
    <3>1. HasLayout(p, File(p))
      BY <1>3, <2>6, StandingLayout
    <3> QED BY <1>2, <1>3, <3>1, StandingLayout
  <2> QED BY <1>2, <1>3, <2>3, <2>4, <2>5, <2>6, <2>7, StepWithin
<1>6. CASE Source(p).variant # "file"
  <2>1. PICK s : s = at[p].bytes - LastEnd(Source(p), at[p])
    OBVIOUS
  <2>2. Goto(p, "chunk") /\ Resize(p, s)
    BY <1>6, <2>1 DEF Polled, LastEnd
  <2>3. s \in Nat /\ s <= reserved[p] /\ MayRead("chunk", Source(p), at[p], s, Last(out[p])[2])
    BY <1>3, <1>6, <2>1, StreamPolled
  <2>4. ReaderMoves(p, "chunk", at[p], s, out[p], work[p])
    BY <1>1, <1>2, <2>2, SameAt DEF ReaderMoves, Resize, Goto
  <2>5. UNCHANGED layoutVars /\ PoolUsed - reserved[p] + s <= PoolSize
    BY <1>1, <1>2, <1>3, <1>4, <2>3 DEF layoutVars
  <2>6. ~Uses("chunk", Source(p).variant) /\ ~Uses(reader[p], Source(p).variant)
    BY <1>2, <1>6 DEF Uses
  <2> QED BY <1>2, <1>3, <2>3, <2>4, <2>5, <2>6, StepWithin
<1> QED BY <1>5, <1>6

(* A partition that has nothing left is done. *)
LEMMA ExhaustedKeeps ==
  ASSUME ArrowInv, NEW p \in Partitions, Exhausted(p), UNCHANGED plannedVars
  PROVE  ArrowInv'
<1>1. ArrowTypes /\ ReadersFit /\ PoolUsed <= PoolSize
  BY DEF ArrowInv, PoolFits
<1>2. /\ reader[p] = "next" /\ work[p] = <<>> /\ Goto(p, "done")
      /\ UNCHANGED <<work, at, out, reserved, layoutVars>>
  BY DEF Exhausted
<1>3. /\ at[p] \in Counters /\ reserved[p] \in Nat /\ out[p] \in Seq(Offers)
      /\ work[p] \in Seq(FileRanges) /\ PoolUsed \in Nat /\ reserved[p] = 0
  BY <1>1, <1>2, Standing DEF ReadersFit, Busy
<1>4. ReaderMoves(p, "done", at[p], 0, out[p], work[p])
  BY <1>1, <1>2, <1>3, SameAt DEF ReaderMoves, Goto
<1>5. Typed("done", at[p], 0, out[p], work[p]) /\ Fitting("done", at[p], 0, out[p], work[p])
  BY <1>3 DEF Typed, Fitting, ReaderPlaces, Busy, Ended
<1>6. \A f \in Files : HasLayout(p, f) <=>
        work[p] # <<>> /\ Head(work[p]).file = f /\ Uses("done", group[f].variant)
  BY <1>2 DEF HasLayout
<1>7. UNCHANGED layoutVars /\ PoolUsed - reserved[p] + 0 <= PoolSize
  BY <1>1, <1>2, <1>3 DEF layoutVars
<1> QED BY <1>4, <1>5, <1>6, <1>7, StepStays

(* Every step of a partition keeps the invariant. *)
LEMMA StepKeeps ==
  ASSUME ArrowInv, BlocksFit, NEW p \in Partitions, Step(p) \/ Drop(p), UNCHANGED plannedVars
  PROVE  ArrowInv'
<1>1. CASE Open(p)
  BY <1>1, OpenKeeps
<1>2. CASE OpenFails(p) \/ LayoutFails(p) \/ ReadFails(p)
  BY <1>2, FailKeeps DEF OpenFails, LayoutFails, ReadFails
<1>3. CASE FillLayout(p)
  BY <1>3, FillKeeps
<1>4. CASE LayoutFilled(p)
  BY <1>4, FilledKeeps
<1>5. CASE LayoutReady(p)
  BY <1>5, ReadyKeeps
<1>6. CASE ReadDictionary(p)
  BY <1>6, DictionaryKeeps
<1>7. CASE ReadBlock(p) \/ DecodeBlock(p)
  BY <1>7, ReadBlockKeeps, DecodeBlockKeeps
<1>8. CASE EndFile(p)
  <2>1. work[p] # <<>>
    <3>1. reader[p] \in Busy
      BY <1>8 DEF EndFile, Busy
    <3> QED BY <3>1, Standing
  <2> QED BY <1>8, <2>1, StepLeaves DEF EndFile
<1>9. CASE ReadChunk(p)
  BY <1>9, ChunkKeeps
<1>10. CASE DecodeChunk(p)
  BY <1>10, DecodeKeeps
<1>11. CASE EndStream(p)
  <2>1. CASE FailStream(p)
    BY <2>1, FailKeeps
  <2>2. CASE ~FailStream(p)
    <3>1. reader[p] \in Busy
      BY <1>11 DEF EndStream, Busy
    <3>2. work[p] # <<>>
      BY <3>1, Standing
    <3>3. Leave(p, "next") /\ work' = [work EXCEPT ![p] = Tail(@)] /\ UNCHANGED <<at, out>>
      BY <1>11, <2>2 DEF EndStream
    <3> QED BY <3>2, <3>3, StepLeaves
  <2> QED BY <2>1, <2>2
<1>12. CASE Polled(p)
  BY <1>12, PolledKeeps
<1>13. CASE Exhausted(p)
  BY <1>13, ExhaustedKeeps
<1>14. CASE Drop(p)
  BY <1>14, StepLeaves DEF Drop
<1> QED BY <1>1, <1>2, <1>3, <1>4, <1>5, <1>6, <1>7, <1>8, <1>9, <1>10, <1>11, <1>12, <1>13,
           <1>14 DEF Step

(* The bytes of some files, and of all. *)
LEMMA SizesAre ==
  ASSUME group \in Groups
  PROVE  /\ \A n \in Nat : n <= Len(group) =>
              SumOf([g \in 1..n |-> group[g].size]) \in Nat
         /\ Selected \in Nat \ {0}
<1>1. Len(group) \in Nat \ {0} /\ Files = 1..Len(group) /\ \A f \in Files : group[f].size \in Nat \ {0}
  BY GroupFits
<1>2. ASSUME NEW n \in Nat, n <= Len(group)
      PROVE  SumOf([g \in 1..n |-> group[g].size]) \in Nat
  <2>1. PICK h : h = [g \in 1..n |-> group[g].size]
    OBVIOUS
  <2>2. DOMAIN h = 1..n /\ IsFiniteSet(1..n) /\ \A g \in 1..n : h[g] \in Nat
    <3>1. \A g \in 1..n : g \in Files
      BY <1>1, <1>2
    <3>2. IsFiniteSet(1..n)
      BY FS_Interval
    <3> QED BY <1>1, <2>1, <3>1, <3>2
  <2> QED BY <2>1, <2>2, SumIsNumber
<1>3. Selected \in Nat \ {0}
  <2>1. PICK h : h = [f \in Files |-> group[f].size]
    OBVIOUS
  <2>2. DOMAIN h = Files /\ IsFiniteSet(Files) /\ \A f \in Files : h[f] \in Nat
    BY <1>1, <2>1, GroupFits
  <2>3. SumOf(h) \in Nat
    BY <2>2, SumIsNumber
  <2>4. 1 \in Files /\ h[1] \in Nat \ {0}
    BY <1>1, <2>1
  <2>5. h[1] <= SumOf(h)
    BY <2>2, <2>4, SumCovers
  <2> QED BY <2>1, <2>3, <2>4, <2>5 DEF Selected
<1> QED BY <1>2, <1>3

(* A division that is rounded up. *)
LEMMA CeilIs ==
  ASSUME NEW n \in Nat, NEW d \in Nat \ {0}
  PROVE  /\ DivCeil(n, d) \in Nat /\ n <= d * DivCeil(n, d)
         /\ n > 0 => DivCeil(n, d) > 0
<1>1. PICK m : m = n + d - 1 /\ m \in Nat
  OBVIOUS
<1>2. PICK q : q = m \div d /\ q \in Nat /\ d * q <= m /\ m < d * q + d
  BY <1>1
<1>3. DivCeil(n, d) = q
  BY <1>1, <1>2 DEF DivCeil
<1>4. n <= d * q
  <2>1. d * q \in Nat
    BY <1>2
  <2> QED BY <1>1, <1>2, <2>1
<1>5. ASSUME n > 0 PROVE q > 0
  <2>1. q # 0
    <3> SUFFICES ASSUME q = 0 PROVE FALSE
      OBVIOUS
    <3>1. d * q = 0
      OBVIOUS
    <3> QED BY <1>1, <1>2, <1>5, <3>1
  <2> QED BY <1>2, <2>1
<1> QED BY <1>2, <1>3, <1>4, <1>5

(* The even share of a partition is some bytes. *)
LEMMA ShareIs ==
  ASSUME group \in Groups, target \in Targets
  PROVE  Share \in Nat \ {0} /\ DivCeil(Selected, Share) \in Nat
         /\ Selected <= Share * DivCeil(Selected, Share)
<1>1. target \in Nat \ {0} /\ Selected \in Nat \ {0}
  BY SizesAre, ArrowInputAssumption
<1>2. Share \in Nat \ {0}
  BY <1>1, CeilIs DEF Share
<1> QED BY <1>1, <1>2, CeilIs

(* The largest file of some files is one of them. *)
LEMMA LargestIs ==
  ASSUME group \in Groups, NEW S, S \subseteq Files, S # {}
  PROVE  LargestFile(S) \in S
<1> DEFINE R == {x \in S \X S : \/ group[x[1]].size > group[x[2]].size
                                \/ group[x[1]].size = group[x[2]].size /\ x[1] < x[2]}
<1>1. IsFiniteSet(S) /\ \A f \in S : f \in Nat /\ group[f].size \in Nat
  BY GroupFits, FS_Subset
<1>2. \A x, y \in S : <<x, y>> \in R <=>
        (group[x].size > group[y].size \/ (group[x].size = group[y].size /\ x < y))
  OBVIOUS
<1> HIDE DEF R
<1>3. Ranks(R, S)
  <2>0. PICK s : s = [f \in S |-> group[f].size]
    OBVIOUS
  <2>01. /\ \A f \in S : f \in Nat /\ s[f] \in Nat
         /\ \A x, y \in S : <<x, y>> \in R <=> (s[x] > s[y] \/ (s[x] = s[y] /\ x < y))
    BY <1>1, <1>2, <2>0
  <2>1. \A x, y \in S : x = y \/ <<x, y>> \in R \/ <<y, x>> \in R
    <3>1. SUFFICES ASSUME NEW x \in S, NEW y \in S, x # y
                   PROVE  <<x, y>> \in R \/ <<y, x>> \in R
      OBVIOUS
    <3>2. x \in Nat /\ y \in Nat /\ s[x] \in Nat /\ s[y] \in Nat
      BY <2>01
    <3>3. s[x] > s[y] \/ s[y] > s[x] \/ (s[x] = s[y] /\ x < y) \/ (s[y] = s[x] /\ y < x)
      BY <3>1, <3>2
    <3> QED BY <2>01, <3>3
  <2>2. \A x, y, z \in S : <<x, y>> \in R /\ <<y, z>> \in R => <<x, z>> \in R
    BY <2>01
  <2> QED BY <2>1, <2>2 DEF Ranks
<1>4. \E x \in S : \A y \in S \ {x} : <<x, y>> \in R
  BY <1>1, <1>3, FirstOf
<1>5. \E f \in S : \A g \in S \ {f} :
        group[f].size > group[g].size \/ (group[f].size = group[g].size /\ f < g)
  BY <1>2, <1>4
<1> QED BY <1>5, Zenon DEF LargestFile

(* The loads of the partitions P: what each was given. *)
IsLoads(P, loads) == loads \in [P -> [bytes : Nat, files : Seq(FileRanges)]]

(* The least load is one of them. *)
LEMMA LeastIs ==
  ASSUME NEW n \in Nat \ {0}, NEW loads, IsLoads(1..n, loads)
  PROVE  Least(loads) \in 1..n
<1>1. PICK S : S = 1..n
  OBVIOUS
<1>2. /\ IsFiniteSet(S) /\ S # {} /\ DOMAIN loads = S
      /\ \A p \in S : p \in Nat /\ loads[p].bytes \in Nat /\ Len(loads[p].files) \in Nat
  <2>1. IsFiniteSet(S)
    BY <1>1, FS_Interval
  <2>2. \A p \in S : loads[p].bytes \in Nat /\ loads[p].files \in Seq(FileRanges)
    BY <1>1 DEF IsLoads
  <2>3. \A p \in S : Len(loads[p].files) \in Nat
    BY <2>2
  <2>4. S # {}
    <3>1. 1 \in S
      BY <1>1
    <3> QED BY <3>1
  <2>5. DOMAIN loads = S /\ \A p \in S : p \in Nat
    BY <1>1 DEF IsLoads
  <2> QED BY <2>1, <2>2, <2>3, <2>4, <2>5
<1> DEFINE Less(p, q) ==
             \/ loads[p].bytes < loads[q].bytes
             \/ loads[p].bytes = loads[q].bytes /\ Len(loads[p].files) < Len(loads[q].files)
             \/ loads[p].bytes = loads[q].bytes /\ Len(loads[p].files) = Len(loads[q].files)
                  /\ p < q
           R == {x \in S \X S : Less(x[1], x[2])}
<1>3. \A x, y \in S : <<x, y>> \in R <=> Less(x, y)
  <2> HIDE DEF Less
  <2> QED OBVIOUS
<1>4. Ranks(R, S)
  <2> HIDE DEF R
  <2>1. \A x, y \in S : x = y \/ Less(x, y) \/ Less(y, x)
    BY <1>2
  <2>2. \A x, y, z \in S : Less(x, y) /\ Less(y, z) => Less(x, z)
    BY <1>2
  <2> HIDE DEF Less
  <2> QED BY <1>3, <2>1, <2>2 DEF Ranks
<1>5. \E x \in S : \A y \in S \ {x} : <<x, y>> \in R
  <2> HIDE DEF R, Less
  <2>1. IsFiniteSet(S) /\ S # {} /\ Ranks(R, S)
    BY <1>2, <1>4
  <2> QED BY <2>1, FirstOf
<1>6. \E p \in DOMAIN loads : \A q \in DOMAIN loads \ {p} : Less(p, q)
  <2> HIDE DEF R, Less
  <2> QED BY <1>2, <1>3, <1>5
<1>7. Least(loads) \in DOMAIN loads
  BY <1>6, Zenon DEF Least
<1> QED BY <1>1, <1>2, <1>7

(* A plan w gives each of its partitions ranges of files. *)
IsPlan(w) == IsFiniteSet(DOMAIN w) /\ w \in [DOMAIN w -> Seq(FileRanges)]

(* A whole file is a range of it. *)
LEMMA WholeIs ==
  ASSUME group \in Groups, NEW f \in Files
  PROVE  Whole(f) \in FileRanges
BY GroupFits DEF Whole, FileRanges

(* So is a piece of it. *)
LEMMA PieceIs ==
  ASSUME group \in Groups, target \in Targets, NEW f \in Files, NEW p \in Nat
  PROVE  Piece(f, p) \in FileRanges
<1>1. f \in Nat \ {0} /\ f <= Len(group) /\ Len(group) \in Nat
  BY GroupFits
<1>2. PICK b : b = Before(f)
  OBVIOUS
<1>3. b \in Nat
  <2>1. f - 1 \in Nat /\ f - 1 <= Len(group)
    BY <1>1
  <2> QED BY <1>2, <2>1, SizesAre DEF Before
<1>4. PICK s, z : s = Share /\ z = group[f].size
  OBVIOUS
<1>5. s \in Nat /\ z \in Nat
  BY <1>4, ShareIs, GroupFits
<1>6. PICK x, y : x = (p - 1) * s - b /\ y = p * s - b
  OBVIOUS
<1>7. x \in Int /\ y \in Int
  BY <1>3, <1>5, <1>6
<1>8. Max({0, x}) \in Int /\ Min({z, y}) \in Int
  BY <1>5, <1>7, MaxOfTwo, MinOfTwo
<1>9. Piece(f, p) = [file |-> f, lo |-> Max({0, x}), hi |-> Min({z, y})]
  BY <1>2, <1>4, <1>6, Zenon DEF Piece
<1> QED BY <1>8, <1>9 DEF FileRanges

(* What passes of one value for each file is a sequence of these. *)
LEMMA PassedFiles ==
  ASSUME group \in Groups, NEW S, NEW s \in [Files -> S]
  PROVE  s \in Seq(S) /\ DOMAIN s = Files
<1>1. PICK n : n = Len(group) /\ n \in Nat /\ Files = 1..n
  BY GroupFits
<1> QED BY <1>1

(* One partition takes all files. *)
LEMMA OneGroupIs ==
  ASSUME group \in Groups
  PROVE  IsPlan(OneGroup)
<1>1. PICK s : s = [f \in Files |-> Whole(f)]
  OBVIOUS
<1>2. s \in Seq(FileRanges)
  <2>1. s \in [Files -> FileRanges]
    BY <1>1, WholeIs
  <2> QED BY <2>1, PassedFiles
<1>3. OneGroup = <<s>>
  BY <1>1 DEF OneGroup
<1>4. IsFiniteSet(1..1)
  <2>1. PICK n : n = 1 /\ n \in Int
    OBVIOUS
  <2>2. IsFiniteSet(n..n)
    BY <2>1, FS_Interval
  <2> QED BY <2>1, <2>2
<1>5. DOMAIN <<s>> = 1..1 /\ <<s>> \in [1..1 -> Seq(FileRanges)]
  BY <1>2
<1> QED BY <1>3, <1>4, <1>5 DEF IsPlan

(* The even ranges: those of the pieces that are not empty. *)
EvenPart(p) == {f \in Files : Piece(f, p).lo < Piece(f, p).hi}

(* They are a filter of the pieces. *)
LEMMA EvenRangesAre ==
  ASSUME group \in Groups, target \in Targets, NEW p \in 1..DivCeil(Selected, Share)
  PROVE  /\ EvenRanges[p] = Filtered([f \in Files |-> Piece(f, p)], EvenPart(p))
         /\ EvenRanges[p] \in Seq(FileRanges)
<1>1. PICK s : s = [f \in Files |-> Piece(f, p)]
  OBVIOUS
<1>2. s \in Seq(FileRanges) /\ DOMAIN s = Files
  <2>1. p \in Nat
    BY ShareIs
  <2>2. s \in [Files -> FileRanges]
    BY <1>1, <2>1, PieceIs
  <2> QED BY <2>2, PassedFiles
<1>3. EvenRanges[p] = Filter(s, LAMBDA w : w.lo < w.hi)
  BY <1>1, Zenon DEF EvenRanges
<1>4. EvenRanges[p] = FlattenSeq([f \in DOMAIN s |-> IF s[f].lo < s[f].hi THEN <<s[f]>> ELSE <<>>])
  BY <1>3, Zenon DEF Filter
<1>5. \A f \in DOMAIN s : s[f].lo < s[f].hi <=> f \in EvenPart(p)
  BY <1>1, <1>2 DEF EvenPart
<1>6. [f \in DOMAIN s |-> IF s[f].lo < s[f].hi THEN <<s[f]>> ELSE <<>>]
        = [f \in DOMAIN s |-> IF f \in EvenPart(p) THEN <<s[f]>> ELSE <<>>]
  BY <1>5, Zenon
<1>7. EvenRanges[p] = Filtered(s, EvenPart(p))
  BY <1>4, <1>6, Zenon DEF Filtered, Passed
<1>8. Filtered(s, EvenPart(p)) \in Seq(FileRanges)
  <2>1. Passed(s, EvenPart(p)) \in Seq(Seq(FileRanges))
    BY <1>2, PassedType
  <2> QED BY <2>1, FlattenKeeps DEF Filtered
<1> QED BY <1>1, <1>7, <1>8

(* They are a plan. *)
LEMMA EvenRangesIs ==
  ASSUME group \in Groups, target \in Targets
  PROVE  IsPlan(EvenRanges)
<1>1. PICK n : n = DivCeil(Selected, Share)
  OBVIOUS
<1>2. n \in Nat /\ IsFiniteSet(1..n)
  BY <1>1, ShareIs, FS_Interval
<1>3. PICK w : w = EvenRanges
  OBVIOUS
<1>4. DOMAIN w = 1..n
  BY <1>1, <1>3 DEF EvenRanges
<1>5. \A p \in 1..n : w[p] \in Seq(FileRanges)
  BY <1>1, <1>3, EvenRangesAre
<1>6. w = [p \in 1..n |-> w[p]]
  <2>1. w = [p \in 1..DivCeil(Selected, Share) |->
               Filter([f \in Files |-> Piece(f, p)], LAMBDA v : v.lo < v.hi)]
    BY <1>3, Zenon DEF EvenRanges
  <2> QED BY <1>1, <2>1
<1>7. w \in [1..n -> Seq(FileRanges)]
  BY <1>5, <1>6
<1> QED BY <1>2, <1>3, <1>4, <1>7 DEF IsPlan

-----------------------------------------------------------------------------
(* Whole files *)

(* What the first m loads gave. *)
IsGiven(g, m) ==
  g = [n \in 0..m |-> IF n = 0 THEN [left |-> Files, loads |-> NoLoads] ELSE Load(g[n - 1])]

(* There is such a function. *)
LEMMA GivenExists == \A m \in Nat : \E g : IsGiven(g, m)
<1> DEFINE Nth(g, n) == IF n = 0 THEN [left |-> Files, loads |-> NoLoads] ELSE Load(g[n - 1])
           P == {m \in Nat : \E g : IsGiven(g, m)}
<1>1. 0 \in P
  <2> DEFINE g == [n \in 0..0 |-> Nth([i \in {} |-> 0], n)]
  <2>1. \A n \in 0..0 : n = 0
    OBVIOUS
  <2>2. \A h1, h2 : \A n \in 0..0 : Nth(h1, n) = Nth(h2, n)
    BY <2>1
  <2>3. PICK h : h = g
    OBVIOUS
  <2>4. h = [n \in 0..0 |-> Nth([i \in {} |-> 0], n)]
    BY <2>3
  <2>5. h = [n \in 0..0 |-> Nth(h, n)]
    <3> HIDE DEF Nth, g
    <3>1. \A n \in 0..0 : Nth([i \in {} |-> 0], n) = Nth(h, n)
      BY <2>2
    <3> QED BY <2>4, <3>1, Zenon
  <2>6. IsGiven(h, 0)
    BY <2>5, Zenon DEF IsGiven
  <2> QED BY <2>6
<1>2. ASSUME NEW m \in Nat, m \in P PROVE m + 1 \in P
  <2>1. PICK f : IsGiven(f, m)
    BY <1>2
  <2>2. f = [n \in 0..m |-> Nth(f, n)]
    BY <2>1, Zenon DEF IsGiven
  <2>3. PICK g : g = [n \in 0..(m + 1) |-> Nth(f, n)]
    OBVIOUS
  <2>4. \A n \in 0..m : f[n] = g[n]
    <3> HIDE DEF Nth
    <3> QED BY <2>2, <2>3
  <2>5. \A n \in 0..(m + 1) : Nth(f, n) = Nth(g, n)
    <3>1. TAKE n \in 0..(m + 1)
    <3>2. n # 0 => n - 1 \in 0..m
      OBVIOUS
    <3> QED BY <2>4, <3>2
  <2>6. g = [n \in 0..(m + 1) |-> Nth(g, n)]
    <3> HIDE DEF Nth
    <3> QED BY <2>3, <2>5, Zenon
  <2>7. IsGiven(g, m + 1)
    BY <2>6, Zenon DEF IsGiven
  <2> QED BY <2>7
<1>3. Nat \subseteq P
  <2> HIDE DEF P
  <2> QED BY <1>1, <1>2, Inductive
<1> QED BY <1>3

(* The plan is the last of it. *)
LEMMA WholeFilesAre ==
  ASSUME group \in Groups
  PROVE  \E g : /\ IsGiven(g, Len(group))
                /\ WholeFiles = [p \in DOMAIN g[Len(group)].loads |->
                                   g[Len(group)].loads[p].files]
<1>1. \E g : IsGiven(g, Len(group))
  BY GroupFits, GivenExists
<1> DEFINE G == CHOOSE g : IsGiven(g, Len(group))
<1>2. IsGiven(G, Len(group))
  BY <1>1
<1>3. WholeFiles = [p \in DOMAIN G[Len(group)].loads |-> G[Len(group)].loads[p].files]
  BY Zenon DEF WholeFiles, IsGiven
<1> QED BY <1>2, <1>3

(* The partitions of the plan. *)
Takers == 1..Min({target, Len(group)})

(* There is one at least. *)
LEMMA TakersAre ==
  ASSUME group \in Groups, target \in Targets
  PROVE  Min({target, Len(group)}) \in Nat \ {0} /\ IsFiniteSet(Takers)
<1>1. target \in Nat \ {0} /\ Len(group) \in Nat \ {0}
  BY GroupFits, ArrowInputAssumption
<1>2. PICK n : n = Min({target, Len(group)})
  OBVIOUS
<1>3. n \in Nat \ {0}
  BY <1>1, <1>2, MinOfTwo
<1> QED BY <1>2, <1>3, FS_Interval DEF Takers

(* A file that is loaded goes where the least is. *)
LEMMA LoadedIs ==
  ASSUME group \in Groups, target \in Targets, NEW loads, IsLoads(Takers, loads), NEW f \in Files
  PROVE  \E p \in Takers :
           /\ IsLoads(Takers, Loaded(loads, f))
           /\ Loaded(loads, f)[p].files = Append(loads[p].files, Whole(f))
           /\ \A q \in Takers \ {p} : Loaded(loads, f)[q].files = loads[q].files
<1>1. PICK p : p = Least(loads)
  OBVIOUS
<1>2. p \in Takers
  BY <1>1, TakersAre, LeastIs DEF Takers
<1>3. PICK v, w, z : v = loads[p] /\ w = Whole(f) /\ z = group[f].size
  OBVIOUS
<1>4. v \in [bytes : Nat, files : Seq(FileRanges)] /\ w \in FileRanges /\ z \in Nat
  BY <1>2, <1>3, WholeIs, GroupFits DEF IsLoads
<1>5. PICK u : u = [bytes |-> v.bytes + z, files |-> Append(v.files, w)]
  OBVIOUS
<1>6. u \in [bytes : Nat, files : Seq(FileRanges)] /\ u.files = Append(v.files, w)
  <2>1. v.bytes \in Nat /\ v.files \in Seq(FileRanges)
    BY <1>4
  <2>2. v.bytes + z \in Nat /\ Append(v.files, w) \in Seq(FileRanges)
    BY <1>4, <2>1
  <2> QED BY <1>5, <2>2
<1>7. PICK l : l = Loaded(loads, f)
  OBVIOUS
<1>8. l = [loads EXCEPT ![p] = u]
  BY <1>1, <1>3, <1>5, <1>7 DEF Loaded
<1>9. IsLoads(Takers, l)
  BY <1>6, <1>8 DEF IsLoads
<1>10. l[p] = u /\ \A q \in Takers \ {p} : l[q] = loads[q]
  BY <1>2, <1>8 DEF IsLoads
<1> QED BY <1>2, <1>3, <1>6, <1>7, <1>9, <1>10

(* As many files as there were loads have gone, to one partition each. *)
GivenIs(y, n) ==
  /\ y.left \subseteq Files /\ Cardinality(y.left) = Len(group) - n
  /\ IsLoads(Takers, y.loads)

(* Each load keeps this. *)
LEMMA GivenFits ==
  ASSUME group \in Groups, target \in Targets, NEW g, IsGiven(g, Len(group))
  PROVE  \A n \in 0..Len(group) : GivenIs(g[n], n)
<1>1. PICK m : m = Len(group) /\ m \in Nat /\ Files = 1..m /\ IsFiniteSet(Files)
  BY GroupFits
<1>2. \A n \in 0..m : g[n] = IF n = 0 THEN [left |-> Files, loads |-> NoLoads]
                                       ELSE Load(g[n - 1])
  BY <1>1 DEF IsGiven
<1> DEFINE P == {n \in Nat : n <= m => GivenIs(g[n], n)}
<1>3. 0 \in P
  <2>1. g[0] = [left |-> Files, loads |-> NoLoads]
    BY <1>1, <1>2
  <2>2. Cardinality(Files) = m
    <3>1. m \in Nat
      BY <1>1
    <3>2. 1 \in Int /\ m \in Int
      BY <3>1
    <3>3. Cardinality(1..m) = IF 1 > m THEN 0 ELSE m - 1 + 1
      BY ONLY <3>2, FS_Interval
    <3> QED BY <1>1, <3>1, <3>3
  <2>3. NoLoads \in [Takers -> [bytes : Nat, files : Seq(FileRanges)]]
    BY DEF NoLoads, Takers
  <2> QED BY <1>1, <2>1, <2>2, <2>3 DEF GivenIs, IsLoads
<1>4. ASSUME NEW n \in Nat, n \in P PROVE n + 1 \in P
  <2>1. SUFFICES ASSUME n + 1 <= m PROVE GivenIs(g[n + 1], n + 1)
    OBVIOUS
  <2>2. PICK y : y = g[n] /\ GivenIs(y, n)
    BY <1>1, <1>4, <2>1
  <2>3. y.left \subseteq Files /\ Cardinality(y.left) = m - n /\ IsLoads(Takers, y.loads)
        /\ IsFiniteSet(y.left)
    BY <1>1, <2>2, FS_Subset DEF GivenIs
  <2>4. y.left # {}
    BY <1>1, <2>1, <2>3, FS_EmptySet
  <2>5. PICK f : f = LargestFile(y.left) /\ f \in y.left
    BY <2>3, <2>4, LargestIs
  <2>6. g[n + 1] = [left |-> y.left \ {f}, loads |-> Loaded(y.loads, f)]
    <3>1. n + 1 \in 0..m /\ n + 1 # 0 /\ n + 1 - 1 = n
      BY <1>1, <2>1
    <3>2. g[n + 1] = Load(g[n])
      BY <1>2, <3>1
    <3> QED BY <2>2, <2>5, <3>2, Zenon DEF Load
  <2>7. Cardinality(y.left \ {f}) = m - (n + 1)
    <3>1. Cardinality(y.left \ {f}) = Cardinality(y.left) - 1
      BY <2>3, <2>5, FS_RemoveElement
    <3> QED BY <1>1, <2>3, <3>1
  <2>8. IsLoads(Takers, Loaded(y.loads, f))
    BY <2>3, <2>5, LoadedIs
  <2> QED BY <1>1, <2>3, <2>6, <2>7, <2>8 DEF GivenIs
<1>5. Nat \subseteq P
  <2> HIDE DEF P
  <2> QED BY <1>3, <1>4, Inductive
<1>6. SUFFICES ASSUME NEW n \in 0..m PROVE GivenIs(g[n], n)
  BY <1>1
<1>7. n \in P /\ n <= m
  BY <1>1, <1>5
<1> QED BY <1>7

(* What it comes to is a plan. *)
LEMMA WholeFilesIs ==
  ASSUME group \in Groups, target \in Targets
  PROVE  IsPlan(WholeFiles)
<1>1. PICK g : /\ IsGiven(g, Len(group))
               /\ WholeFiles = [p \in DOMAIN g[Len(group)].loads |->
                                  g[Len(group)].loads[p].files]
  BY WholeFilesAre
<1>2. PICK l : l = g[Len(group)].loads
  OBVIOUS
<1>3. IsLoads(Takers, l)
  <2>1. Len(group) \in 0..Len(group)
    BY GroupFits
  <2>2. GivenIs(g[Len(group)], Len(group))
    BY <1>1, <2>1, GivenFits
  <2> QED BY <1>2, <2>2 DEF GivenIs
<1>4. WholeFiles = [p \in DOMAIN l |-> l[p].files]
  BY <1>1, <1>2
<1>5. DOMAIN l = Takers /\ \A p \in Takers : l[p].files \in Seq(FileRanges)
  BY <1>3 DEF IsLoads
<1> QED BY <1>4, <1>5, TakersAre DEF IsPlan

(* However the files are divided, each partition has ranges of files. *)
LEMMA PlanIs ==
  ASSUME group \in Groups, target \in Targets, NEW w \in {OneGroup, Repartitioned}
  PROVE  IsPlan(w)
BY OneGroupIs, EvenRangesIs, WholeFilesIs DEF Repartitioned

(* Where nobody holds anything, the pool is empty. *)
LEMMA PoolOfNothing ==
  ASSUME IsFiniteSet(DOMAIN reserved), \A p \in DOMAIN reserved : reserved[p] = 0,
         IsFiniteSet(Files), \A f \in Files : cell[f] = "empty"
  PROVE  PoolUsed = 0
<1>1. PICK l : l = LayoutsOf(group, cell)
  OBVIOUS
<1>2. DOMAIN l = Files /\ \A f \in Files : l[f] = 0
  BY <1>1 DEF LayoutsOf, Files
<1>3. SumOf(reserved) = 0 /\ SumOf(l) = 0
  BY <1>2, SumOfZeros
<1> QED BY <1>1, <1>3, PoolIs

(* Before the plan there are no partitions. *)
LEMMA ArrowStarts ==
  ASSUME ArrowInit
  PROVE  ArrowInv
<1>1. /\ group \in Groups /\ target \in Targets
      /\ reader = <<>> /\ work = <<>> /\ at = <<>> /\ out = <<>> /\ reserved = <<>>
      /\ leases = NobodyReads /\ cell = [f \in Files |-> "empty"]
  BY DEF ArrowInit
<1>2. Partitions = {} /\ IsFiniteSet(Partitions) /\ IsFiniteSet(Files)
  <2>1. DOMAIN reader = {}
    BY <1>1
  <2> QED BY <1>1, <2>1, FS_EmptySet, GroupFits DEF Partitions
<1>3. ArrowTypes
  <2>1. \A S : <<>> \in [{} -> S]
    <3>1. TAKE S
    <3>2. <<>> = [i \in {} |-> 0]
      OBVIOUS
    <3> QED BY <3>2
  <2> QED BY <1>1, <1>2, <2>1 DEF ArrowTypes, NobodyReads
<1>4. ReadersFit /\ LeasesFit
  BY <1>2 DEF ReadersFit, LeasesFit
<1>5. CellsFit
  BY <1>1, <1>2 DEF CellsFit
<1>6. PoolFits
  <2>1. PoolUsed = 0
    <3>1. DOMAIN reserved = {}
      BY <1>1
    <3>2. IsFiniteSet(DOMAIN reserved) /\ \A p \in DOMAIN reserved : reserved[p] = 0
      BY <3>1, FS_EmptySet
    <3>3. \A f \in Files : cell[f] = "empty"
      BY <1>1
    <3> QED BY <1>2, <3>2, <3>3, PoolOfNothing
  <2> QED BY <2>1, ArrowInputAssumption DEF PoolFits
<1> QED BY <1>3, <1>4, <1>5, <1>6 DEF ArrowInv

(* The plan starts all partitions with nothing. *)
LEMMA PlanKeeps ==
  ASSUME ArrowInv, Plan
  PROVE  ArrowInv'
<1>1. PICK w, P : /\ w = work' /\ P = DOMAIN w /\ IsFiniteSet(P) /\ w \in [P -> Seq(FileRanges)]
  <2>1. PICK w : w = work' /\ w \in {OneGroup, Repartitioned}
    BY DEF Plan
  <2>2. IsPlan(w)
    BY <2>1, PlanIs DEF ArrowInv, ArrowTypes
  <2> QED BY <2>1, <2>2 DEF IsPlan
<1>2. /\ reader' = [p \in P |-> "next"] /\ at' = [p \in P |-> AtStart]
      /\ out' = [p \in P |-> <<>>] /\ reserved' = [p \in P |-> 0]
      /\ leases' = NobodyReads /\ cell' = [f \in Files |-> "empty"]
      /\ group' = group /\ target' = target
  BY <1>1 DEF Plan
<1>3. Partitions' = P /\ Files' = Files /\ IsFiniteSet(Files) /\ FileRanges' = FileRanges
      /\ Offers' = Offers
  <2>1. DOMAIN (reader') = P
    BY <1>2
  <2>2. Files' = Files
    BY <1>2 DEF Files
  <2> QED BY <2>1, <2>2, GroupFits DEF Partitions, FileRanges, Offers, ArrowInv, ArrowTypes
<1>4. ArrowTypes'
  <2>1. AtStart \in Counters
    BY DEF AtStart, Counters
  <2>2. group' \in Groups /\ target' \in Targets
    BY <1>2 DEF ArrowInv, ArrowTypes
  <2>3. reader' \in [P -> ReaderPlaces]
    BY <1>2 DEF ReaderPlaces
  <2>4. at' \in [P -> Counters] /\ reserved' \in [P -> Nat]
    BY <1>2, <2>1
  <2>5. out' \in [P -> Seq(Offers)]
    BY <1>2
  <2>6. /\ leases' \in [Files -> SUBSET P]
        /\ cell' \in [Files -> {"empty", "filling", "ready"}]
    BY <1>2 DEF NobodyReads
  <2>7. work' \in [P -> Seq(FileRanges)]
    BY <1>1
  <2> QED BY <1>1, <1>3, <2>2, <2>3, <2>4, <2>5, <2>6, <2>7 DEF ArrowTypes
<1>5. \A p \in P : reader'[p] = "next" /\ reserved'[p] = 0
  BY <1>2
<1>6. ReadersFit'
  BY <1>3, <1>5 DEF ReadersFit, Busy
<1>7. \A f \in Files : leases'[f] = {} /\ cell'[f] = "empty"
  BY <1>2 DEF NobodyReads
<1>8. \A p \in P : \A f \in Files : ~HasLayout(p, f)'
  BY <1>5 DEF HasLayout, Uses
<1>9. LeasesFit'
  BY <1>3, <1>7, <1>8 DEF LeasesFit
<1>10. CellsFit'
  BY <1>3, <1>7, <1>8 DEF CellsFit
<1>11. PoolUsed' = 0
  <2>1. /\ IsFiniteSet(DOMAIN (reserved')) /\ \A p \in DOMAIN (reserved') : reserved'[p] = 0
    BY <1>1, <1>2
  <2>2. PICK l : l = LayoutsOf(group, cell')
    OBVIOUS
  <2>3. DOMAIN l = Files /\ \A f \in Files : l[f] = 0
    BY <1>7, <2>2 DEF LayoutsOf, Files
  <2>4. PICK r : r = reserved'
    OBVIOUS
  <2>5. IsFiniteSet(DOMAIN r) /\ \A p \in DOMAIN r : r[p] = 0
    BY <2>1, <2>4
  <2>6. SumOf(r) = 0 /\ SumOf(l) = 0
    BY <1>3, <2>3, <2>5, SumOfZeros
  <2> QED BY <1>2, <2>2, <2>4, <2>6, PoolBecomes
<1>12. PoolFits'
  BY <1>11, ArrowInputAssumption DEF PoolFits
<1> QED BY <1>4, <1>6, <1>9, <1>10, <1>12 DEF ArrowInv

(* What is found out of the objects before changes none of it. *)
LEMMA ApartKeeps ==
  ASSUME ArrowInv, UNCHANGED <<group, target, streamVars, layoutVars>>
  PROVE  ArrowInv'
<1>1. /\ group' = group /\ target' = target /\ work' = work /\ reader' = reader /\ at' = at
      /\ out' = out /\ reserved' = reserved /\ leases' = leases /\ cell' = cell
  BY DEF streamVars, layoutVars
<1>2. ArrowTypes'
  BY <1>1 DEF ArrowInv, ArrowTypes, Partitions, Files, FileRanges, Offers
<1>3. ReadersFit'
  BY <1>1 DEF ArrowInv, ReadersFit, Partitions, Source, File, Task
<1>4. LeasesFit' /\ CellsFit'
  BY <1>1 DEF ArrowInv, LeasesFit, CellsFit, HasLayout, Partitions, Files, File, Task
<1>5. PoolFits'
  <2>1. PoolUsed' = PoolUsed
    BY <1>1, PoolIs, PoolBecomes
  <2> QED BY <2>1 DEF ArrowInv, PoolFits
<1> QED BY <1>2, <1>3, <1>4, <1>5 DEF ArrowInv

(* Every step keeps the invariant. *)
LEMMA ArrowKeeps ==
  ASSUME ArrowInv, BlocksFit, [ArrowNext]_arrowVars
  PROVE  ArrowInv'
<1>1. CASE \E f \in Files, count \in BOOLEAN : Inspect(f, count)
  BY <1>1, ApartKeeps DEF Inspect
<1>2. CASE InferSchema
  BY <1>2, ApartKeeps DEF InferSchema, GoOn
<1>3. CASE SampleStatistics
  BY <1>3, ApartKeeps DEF SampleStatistics, GoOn
<1>4. CASE Plan
  BY <1>4, PlanKeeps
<1>5. CASE \E p \in Partitions : (Step(p) \/ Drop(p)) /\ UNCHANGED plannedVars
  BY <1>5, StepKeeps
<1>6. CASE Over \/ UNCHANGED arrowVars
  <2>1. UNCHANGED <<group, target, streamVars, layoutVars>>
    BY <1>6 DEF Over, arrowVars, plannedVars
  <2> QED BY <2>1, ApartKeeps
<1> QED BY <1>1, <1>2, <1>3, <1>4, <1>5, <1>6 DEF ArrowNext

(* Where p is at a block after its step, it just read it. *)
LEMMA BlockComes ==
  ASSUME ArrowInv, NEW p \in Partitions, Step(p) \/ Drop(p), UNCHANGED plannedVars,
         reader'[p] = "block"
  PROVE  /\ reader' = [reader EXCEPT ![p] = "block"] /\ UNCHANGED <<work, at>>
         /\ at[p].batches < Len(Mine(p))
         /\ reserved' = [reserved EXCEPT ![p] = Needed(p, NextBlock(p).block.len)]
<1>1. reader \in [Partitions -> ReaderPlaces]
  BY DEF ArrowInv, ArrowTypes
<1>2. \A x : Goto(p, x) => reader'[p] = x
  BY <1>1 DEF Goto
<1>3. ~FailStream(p) /\ ~Drop(p) /\ ~Leave(p, "next")
  BY <1>2 DEF FailStream, Drop, Leave
<1>4. ~OpenFails(p) /\ ~LayoutFails(p) /\ ~ReadFails(p)
  BY <1>3 DEF OpenFails, LayoutFails, ReadFails
<1>5. ~FillLayout(p) /\ ~LayoutFilled(p) /\ ~LayoutReady(p) /\ ~Polled(p)
  BY <1>2, <1>3 DEF FillLayout, LayoutFilled, LayoutReady, Polled
<1>6. ~ReadDictionary(p)
  BY <1>1, <1>3 DEF ReadDictionary
<1>7. ~Open(p) /\ ~ReadChunk(p) /\ ~DecodeBlock(p)
  BY <1>2, <1>3 DEF Open, ReadChunk, DecodeBlock
<1>8. ~EndFile(p) /\ ~EndStream(p) /\ ~Exhausted(p) /\ ~DecodeChunk(p)
  BY <1>2, <1>3 DEF EndFile, EndStream, Exhausted, DecodeChunk
<1>9. ReadBlock(p)
  BY <1>3, <1>4, <1>5, <1>6, <1>7, <1>8 DEF Step
<1> QED BY <1>3, <1>9 DEF ReadBlock, Goto, Resize

(* What a step of p leaves to the others. *)
LEMMA OthersStay ==
  ASSUME ArrowInv, NEW p \in Partitions, Step(p) \/ Drop(p), UNCHANGED plannedVars
  PROVE  /\ group' = group /\ Partitions' = Partitions
         /\ \A q \in Partitions \ {p} :
              /\ reader'[q] = reader[q] /\ at'[q] = at[q] /\ work'[q] = work[q]
              /\ reserved'[q] = reserved[q]
<1>1. /\ reader \in [Partitions -> ReaderPlaces] /\ at \in [Partitions -> Counters]
      /\ reserved \in [Partitions -> Nat] /\ work \in [Partitions -> Seq(FileRanges)]
  BY DEF ArrowInv, ArrowTypes
<1>2. DOMAIN reader = Partitions /\ DOMAIN at = Partitions /\ DOMAIN reserved = Partitions
      /\ DOMAIN work = Partitions
  BY <1>1
<1>3. group' = group
  BY DEF plannedVars
<1>4. \E x : reader' = [reader EXCEPT ![p] = x]
  <2>1. \/ reader' = reader \/ \E x : Goto(p, x)
    BY DEF Step, Open, OpenFails, FillLayout, LayoutFilled, LayoutFails, LayoutReady,
           ReadDictionary, ReadBlock, DecodeBlock, EndFile, ReadChunk, DecodeChunk, EndStream,
           Polled, Exhausted, ReadFails, Drop, FailStream, Leave
  <2>2. reader = [reader EXCEPT ![p] = reader[p]]
    BY <1>1
  <2> QED BY <2>1, <2>2 DEF Goto
<1>5. \E x : reserved' = [reserved EXCEPT ![p] = x]
  <2>1. \/ reserved' = reserved \/ \E x : Resize(p, x)
    BY DEF Step, Open, OpenFails, FillLayout, LayoutFilled, LayoutFails, LayoutReady,
           ReadDictionary, ReadBlock, DecodeBlock, EndFile, ReadChunk, DecodeChunk, EndStream,
           Polled, Exhausted, ReadFails, Drop, FailStream, Leave
  <2>2. reserved = [reserved EXCEPT ![p] = reserved[p]]
    BY <1>1
  <2> QED BY <2>1, <2>2 DEF Resize
<1>6. work' = work \/ work' = [work EXCEPT ![p] = Tail(@)]
  BY DEF Step, Open, OpenFails, FillLayout, LayoutFilled, LayoutFails, LayoutReady,
         ReadDictionary, ReadBlock, DecodeBlock, EndFile, ReadChunk, DecodeChunk, EndStream,
         Polled, Exhausted, ReadFails, Drop, FailStream
<1>7. \A q \in Partitions \ {p} : at'[q] = at[q]
  <2>1. \/ at' = at \/ at' = [at EXCEPT ![p] = AtStart]
        \/ at' = [at EXCEPT ![p].dictionaries = @ + 1] \/ at' = [at EXCEPT ![p].batches = @ + 1]
        \/ \E end : at' = [at EXCEPT ![p].bytes = end]
    BY DEF Step, Open, OpenFails, FillLayout, LayoutFilled, LayoutFails, LayoutReady,
           ReadDictionary, ReadBlock, DecodeBlock, EndFile, ReadChunk, DecodeChunk, EndStream,
           Polled, Exhausted, ReadFails, Drop, FailStream
  <2> QED BY <1>2, <2>1
<1>8. Partitions' = Partitions
  BY <1>4 DEF Partitions
<1> QED BY <1>2, <1>3, <1>4, <1>5, <1>6, <1>7, <1>8

(* Which blocks are of a range, *)
LEMMA MineAlways == \A p : Mine(p) = MineOf(Source(p), Task(p))
BY Zenon DEF Mine, MineOf

(* and after a step. *)
LEMMA MineSame ==
  ASSUME NEW q, group' = group, work'[q] = work[q]
  PROVE  Mine(q)' = Mine(q)
<1>1. Task(q)' = Task(q) /\ Source(q)' = Source(q)
  BY DEF Source, File, Task
<1>2. \A p : Mine(p) = MineOf(Source(p), Task(p))
  BY MineAlways
<1>3. (\A p : Mine(p) = MineOf(Source(p), Task(p)))'
  BY MineAlways, PTL
<1> QED BY <1>1, <1>2, <1>3

(* What is needed for a block depends on the file and the place in it. *)
LEMMA BlockSame ==
  ASSUME NEW q, group' = group, at'[q] = at[q], work'[q] = work[q]
  PROVE  Needed(q, NextBlock(q).block.len)' = Needed(q, NextBlock(q).block.len)
<1>1. Task(q)' = Task(q) /\ Source(q)' = Source(q)
  BY DEF Source, File, Task
<1>2. Mine(q)' = Mine(q)
  BY MineSame
<1>3. NextBlock(q)' = NextBlock(q)
  BY <1>2 DEF NextBlock
<1>4. DictionaryBytes(q)' = DictionaryBytes(q)
  BY <1>1 DEF DictionaryBytes
<1> QED BY <1>3, <1>4 DEF Needed

(* The blocks after a step of p. *)
LEMMA BlocksStep ==
  ASSUME ArrowInv, BlocksFit, NEW p \in Partitions, Step(p) \/ Drop(p), UNCHANGED plannedVars
  PROVE  BlocksFit'
<1>1. /\ group' = group /\ Partitions' = Partitions
      /\ \A q \in Partitions \ {p} :
           /\ reader'[q] = reader[q] /\ at'[q] = at[q] /\ work'[q] = work[q]
           /\ reserved'[q] = reserved[q]
  BY OthersStay
<1>3. ASSUME NEW q \in Partitions, q # p, reader'[q] = "block"
      PROVE  /\ at'[q].batches < Len(Mine(q)')
             /\ reserved'[q] = Needed(q, NextBlock(q).block.len)'
  <2>1. at[q].batches < Len(Mine(q)) /\ reserved[q] = Needed(q, NextBlock(q).block.len)
    BY <1>1, <1>3 DEF BlocksFit
  <2>2. Mine(q)' = Mine(q)
    BY <1>1, <1>3, MineSame
  <2>3. Needed(q, NextBlock(q).block.len)' = Needed(q, NextBlock(q).block.len)
    BY <1>1, <1>3, BlockSame
  <2> QED BY <1>1, <1>3, <2>1, <2>2, <2>3
<1>4. ASSUME reader'[p] = "block"
      PROVE  /\ at'[p].batches < Len(Mine(p)')
             /\ reserved'[p] = Needed(p, NextBlock(p).block.len)'
  <2>1. /\ UNCHANGED <<work, at>> /\ at[p].batches < Len(Mine(p))
        /\ reserved' = [reserved EXCEPT ![p] = Needed(p, NextBlock(p).block.len)]
    BY <1>4, BlockComes
  <2>2. Mine(p)' = Mine(p)
    BY <1>1, <2>1, MineSame
  <2>3. Needed(p, NextBlock(p).block.len)' = Needed(p, NextBlock(p).block.len)
    BY <1>1, <2>1, BlockSame
  <2>4. reserved'[p] = Needed(p, NextBlock(p).block.len)
    BY <2>1 DEF ArrowInv, ArrowTypes
  <2> QED BY <2>1, <2>2, <2>3, <2>4
<1> QED BY <1>1, <1>3, <1>4 DEF BlocksFit

(* Before the plan there are none. *)
LEMMA BlocksStart ==
  ASSUME ArrowInit
  PROVE  BlocksFit
BY DEF ArrowInit, BlocksFit, Partitions

(* And after every step. *)
LEMMA BlocksKeep ==
  ASSUME ArrowInv, BlocksFit, [ArrowNext]_arrowVars
  PROVE  BlocksFit'
<1>1. CASE UNCHANGED <<group, streamVars>>
  <2>1. group' = group /\ work' = work /\ reader' = reader /\ at' = at /\ reserved' = reserved
    BY <1>1 DEF streamVars
  <2>2. \A p : /\ Mine(p)' = Mine(p)
               /\ Needed(p, NextBlock(p).block.len)' = Needed(p, NextBlock(p).block.len)
    BY <2>1, MineSame, BlockSame
  <2> QED BY <2>1, <2>2 DEF BlocksFit, Partitions
<1>2. CASE Plan
  <2>1. \A p \in DOMAIN (work') : reader'[p] = "next"
    BY <1>2 DEF Plan
  <2>2. Partitions' = DOMAIN (work')
    BY <1>2 DEF Plan, Partitions
  <2> QED BY <2>1, <2>2 DEF BlocksFit
<1>3. CASE \E p \in Partitions : (Step(p) \/ Drop(p)) /\ UNCHANGED plannedVars
  BY <1>3, BlocksStep
<1>4. CASE \/ \E f \in Files, count \in BOOLEAN : Inspect(f, count)
           \/ InferSchema \/ SampleStatistics \/ Over \/ UNCHANGED arrowVars
  BY <1>1, <1>4 DEF Inspect, InferSchema, SampleStatistics, GoOn, Over, arrowVars, plannedVars
<1> QED BY <1>2, <1>3, <1>4 DEF ArrowNext

-----------------------------------------------------------------------------
(* What is in memory *)

(* A number is covered by another and what it exceeds it by. *)
LEMMA GrowthCovers ==
  ASSUME NEW b, b.memory \in Nat, b.len \in Nat
  PROVE  Growth(b) \in Nat /\ b.memory <= b.len + Growth(b)
<1>1. PICK x : x = b.memory - b.len /\ x \in Int
  OBVIOUS
<1>2. Growth(b) = IF 0 >= x THEN 0 ELSE x
  BY <1>1, MaxOfTwo DEF Growth
<1> QED BY <1>1, <1>2

(* The decoded dictionaries exceed what was reserved for them by their growth. *)
LEMMA DictionariesCovered ==
  ASSUME NEW o, IsObject(o), NEW n \in Nat, n <= Len(o.dictionaries)
  PROVE  /\ SumOf([i \in 1..n |-> Growth(o.dictionaries[i])]) \in Nat
         /\ SumOf([i \in 1..n |-> o.dictionaries[i].memory]) \in Nat
         /\ SumOf([i \in 1..n |-> o.dictionaries[i].memory])
              <= FirstBytes(o, n) + SumOf([i \in 1..n |-> Growth(o.dictionaries[i])])
<1>1. PICK d : d = o.dictionaries /\ d \in Seq(Range(d))
               /\ \A b \in Range(d) : b.len \in Nat /\ b.memory \in Nat
  BY DEF IsObject
<1>2. \A i \in 1..n : d[i] \in Range(d)
  BY <1>1 DEF Range
<1>3. \A i \in 1..n : /\ d[i].len \in Nat /\ d[i].memory \in Nat /\ Growth(d[i]) \in Nat
                      /\ d[i].memory <= d[i].len + Growth(d[i])
  BY <1>1, <1>2, GrowthCovers
<1>4. PICK s, t, u : /\ s = [i \in 1..n |-> d[i].memory] /\ t = [i \in 1..n |-> d[i].len]
                     /\ u = [i \in 1..n |-> Growth(d[i])]
  OBVIOUS
<1>5. s \in [1..n -> Nat] /\ t \in [1..n -> Nat] /\ u \in [1..n -> Nat]
  BY <1>3, <1>4
<1>6. s \in Seq(Nat) /\ t \in Seq(Nat) /\ u \in Seq(Nat) /\ Len(s) = n /\ Len(t) = n /\ Len(u) = n
  BY <1>5
<1>7. \A i \in 1..Len(s) : s[i] <= t[i] + u[i]
  BY <1>3, <1>4, <1>6
<1>8. SumOf(s) <= SumOf(t) + SumOf(u)
  BY <1>6, <1>7, SumCovered
<1>9. SumOf(s) \in Nat /\ SumOf(u) \in Nat
  BY <1>6, SumType
<1>10. SumOf(t) = FirstBytes(o, n)
  BY <1>1, <1>4 DEF FirstBytes
<1> QED BY <1>1, <1>4, <1>8, <1>9, <1>10

(* What a partition has in memory is reserved, but for what the code does not reserve. *)
LEMMA MemoryIs ==
  ASSUME ArrowInv, BlocksFit, NEW p \in Partitions
  PROVE  InMemory(p) <= reserved[p] + Unreserved(p)
<1>1. reserved[p] \in Nat
  BY DEF ArrowInv, ArrowTypes
<1>2. CASE ByLayout(p)
  <2>1. /\ reader[p] \in {"file", "block", "yielded"} /\ reader[p] \in Busy
        /\ Source(p).variant = "file"
    BY <1>2 DEF ByLayout, Busy
  <2>2. /\ IsObject(Source(p)) /\ at[p] \in Counters
        /\ MayRead(reader[p], Source(p), at[p], reserved[p], Last(out[p])[2])
    BY <2>1, Standing
  <2>3. PICK o, a, s, k : /\ o = Source(p) /\ a = at[p] /\ s = reserved[p]
                          /\ k = Last(out[p])[2]
    OBVIOUS
  <2>4. /\ a.dictionaries \in Nat /\ a.dictionaries <= Len(o.dictionaries) /\ IsObject(o)
        /\ WithFile(reader[p], o, a, s, k)
    BY <2>1, <2>2, <2>3 DEF MayRead, WithFile, WithStream, Counters
  <2>5. PICK m, b, g : /\ m = DictionaryMemory(p) /\ b = FirstBytes(o, a.dictionaries)
                       /\ g = SumOf([i \in 1..a.dictionaries |-> Growth(o.dictionaries[i])])
    OBVIOUS
  <2>6. m \in Nat /\ b \in Nat /\ g \in Nat /\ m <= b + g
    <3>1. m = SumOf([i \in 1..a.dictionaries |-> o.dictionaries[i].memory])
      BY <2>3, <2>5 DEF DictionaryMemory
    <3> QED BY <2>4, <2>5, <3>1, DictionariesCovered, FirstBytesGrow
  <2>7. Unreserved(p) = g + (IF reader[p] = "yielded" THEN Latest(p).len ELSE 0)
    BY <1>2, <2>3, <2>5 DEF Unreserved
  <2>8. CASE reader[p] = "file"
    <3>1. InMemory(p) = m /\ s = b /\ Unreserved(p) = g + 0
      BY <1>2, <2>4, <2>5, <2>7, <2>8 DEF InMemory, WithFile
    <3> QED BY <2>3, <2>6, <3>1
  <2>9. CASE reader[p] = "block"
    <3>1. at[p].batches < Len(Mine(p)) /\ reserved[p] = Needed(p, NextBlock(p).block.len)
      BY <2>9 DEF BlocksFit
    <3>2. PICK j \in DOMAIN o.batches : NextBlock(p) = [index |-> j, block |-> o.batches[j]]
      BY <2>2, <2>3, <3>1, NextBlockIs
    <3>3. PICK n : n = NextBlock(p).block.len /\ n \in Nat
      BY <2>4, <3>2, BatchNumbers
    <3>4. s = b + n
      BY <2>3, <2>4, <2>5, <3>1, <3>3, KeptIsFirst DEF Needed, DictionaryBytes
    <3>5. InMemory(p) = m + n /\ Unreserved(p) = g + 0
      BY <1>2, <2>5, <2>7, <2>9, <3>3 DEF InMemory
    <3> QED BY <2>3, <2>6, <3>3, <3>4, <3>5
  <2>10. CASE reader[p] = "yielded"
    <3>1. PICK x, y : x = o.batches[k].len /\ y = o.batches[k].memory
      OBVIOUS
    <3>2. x \in Nat /\ y \in Nat /\ s = b + y
      <4>1. k \in DOMAIN o.batches /\ s = b + o.batches[k].memory
        BY <2>4, <2>5, <2>10 DEF WithFile
      <4> QED BY <2>4, <3>1, <4>1, BatchNumbers
    <3>3. InMemory(p) = m + x + y /\ Unreserved(p) = g + x
      <4>1. Latest(p).len = x /\ Latest(p).memory = y
        BY <2>3, <3>1 DEF Latest
      <4>2. InMemory(p) = DictionaryMemory(p) + Latest(p).len + Latest(p).memory
        BY <1>2, <2>1, <2>10 DEF InMemory
      <4> QED BY <2>5, <2>7, <2>10, <4>1, <4>2
    <3>4. m + x + y <= s + (g + x)
      BY ONLY <2>6, <3>2
    <3> QED BY <2>3, <3>3, <3>4
  <2> QED BY <2>1, <2>8, <2>9, <2>10
<1>3. CASE reader[p] = "yielded" /\ Source(p).variant = "stream"
  <2>1. MayRead("yielded", Source(p), at[p], reserved[p], Last(out[p])[2])
    BY <1>3, Standing DEF Busy
  <2>2. PICK o, a, s, k : /\ o = Source(p) /\ a = at[p] /\ s = reserved[p]
                          /\ k = Last(out[p])[2]
    OBVIOUS
  <2>3. WithStream("yielded", o, a, s, k)
    BY <1>3, <2>1, <2>2 DEF MayRead, WithFile
  <2>4. InMemory(p) = a.bytes - LastEnd(o, a) + o.batches[k].memory /\ Unreserved(p) = 0
    BY <1>3, <2>2 DEF InMemory, Unreserved, ByLayout, LastEnd, Latest
  <2>5. a.bytes - LastEnd(o, a) + o.batches[k].memory <= s
    BY <2>3 DEF WithStream
  <2> QED BY <1>1, <2>2, <2>4, <2>5
<1>4. CASE ~ByLayout(p) /\ ~(reader[p] = "yielded" /\ Source(p).variant = "stream")
  BY <1>1, <1>4 DEF InMemory, Unreserved
<1> QED BY <1>2, <1>3, <1>4

(* When all have ended nothing is held. *)
LEMMA NothingIsLeft ==
  ASSUME ArrowInv, \A p \in Partitions : reader[p] \in Ended
  PROVE  PoolUsed = 0
<1>1. \A p \in Partitions : reader[p] \notin Busy /\ ~\E f \in Files : HasLayout(p, f)
  BY DEF Ended, Busy, HasLayout, Uses
<1>2. \A p \in Partitions : reserved[p] = 0
  BY <1>1 DEF ArrowInv, ReadersFit
<1>3. \A f \in Files : leases[f] = {}
  <2>1. \A f \in Files : leases[f] \subseteq Partitions
    BY DEF ArrowInv, ArrowTypes
  <2> QED BY <1>1, <2>1 DEF ArrowInv, LeasesFit
<1>4. \A f \in Files : cell[f] = "empty"
  BY <1>3 DEF ArrowInv, CellsFit
<1>5. DOMAIN reserved = Partitions /\ IsFiniteSet(Partitions) /\ IsFiniteSet(Files)
  BY GroupFits DEF ArrowInv, ArrowTypes
<1> QED BY <1>2, <1>4, <1>5, PoolOfNothing

(* The invariant says what is held. *)
LEMMA InvHolds ==
  ASSUME ArrowInv, BlocksFit
  PROVE  MemoryIsGivenBack
<1>1. PoolUsed <= PoolSize /\ \A f \in Files : leases[f] = {} => cell[f] = "empty"
  BY DEF ArrowInv, PoolFits, CellsFit
<1>2. ASSUME NEW p \in Partitions
      PROVE  /\ InMemory(p) <= reserved[p] + Unreserved(p)
             /\ ByLayout(p) => cell[File(p)] = "ready"
             /\ reader[p] \in Ended \cup {"next"} => reserved[p] = 0
  <2>1. InMemory(p) <= reserved[p] + Unreserved(p)
    BY MemoryIs
  <2>2. ASSUME ByLayout(p) PROVE cell[File(p)] = "ready"
    <3>1. reader[p] \in {"file", "block", "yielded"} /\ Source(p).variant = "file"
      BY <2>2 DEF ByLayout
    <3>2. work[p] # <<>>
      BY <3>1 DEF ArrowInv, ReadersFit, Busy
    <3>3. PICK f : f = File(p) /\ f \in Files
      BY <3>2, Standing
    <3>4. HasLayout(p, f)
      BY <3>1, <3>2, <3>3 DEF HasLayout, Uses, Source
    <3> QED BY <3>1, <3>3, <3>4 DEF ArrowInv, CellsFit
  <2>3. ASSUME reader[p] \in Ended \cup {"next"} PROVE reserved[p] = 0
    BY <2>3 DEF Ended, Busy, ArrowInv, ReadersFit
  <2> QED BY <2>1, <2>2, <2>3
<1>3. (\A p \in Partitions : reader[p] \in Ended) => PoolUsed = 0
  BY NothingIsLeft
<1> QED BY <1>1, <1>2, <1>3 DEF MemoryIsGivenBack

(* The pool of an Arrow scan is not overdrawn, and all that it is charged for is
   given back: between two files, at the end, by an error or a drop of a partition,
   and of a layout with the last who reads by it.  What the partitions have in
   memory beyond their reservations is what the decoded dictionaries grew by and
   the blocks beside their batches, which the code does not reserve. *)
THEOREM MemoryReturned == ArrowSpec => []MemoryIsGivenBack
<1>1. ArrowInit => ArrowInv /\ BlocksFit
  BY ArrowStarts, BlocksStart
<1>2. ArrowInv /\ BlocksFit /\ [ArrowNext]_arrowVars => (ArrowInv /\ BlocksFit)'
  BY ArrowKeeps, BlocksKeep
<1>3. ArrowInv /\ BlocksFit => MemoryIsGivenBack
  BY InvHolds
<1> QED BY <1>1, <1>2, <1>3, PTL DEF ArrowSpec

-----------------------------------------------------------------------------
(* What a plan must do *)

(* The batch d of the group g is one of the task w. *)
Belongs(g, d, w) ==
  /\ w.file = d[1]
  /\ g[d[1]].variant = "file" => InRange(w, g[d[1]].batches[d[2]])

(* What a plan w must do: no batch belongs to two tasks, all that lie in their
   object belong to one, and no file is left out. *)
Divides(w) ==
  /\ \A p, q \in DOMAIN w : \A i \in DOMAIN w[p], j \in DOMAIN w[q] : \A d \in AllBatches :
       Belongs(group, d, w[p][i]) /\ Belongs(group, d, w[q][j]) => p = q /\ i = j
  /\ \A d \in AllBatches : LayoutValid(group[d[1]]) =>
       \E p \in DOMAIN w : \E i \in DOMAIN w[p] : Belongs(group, d, w[p][i])
  /\ \A f \in Files : \E p \in DOMAIN w : \E i \in DOMAIN w[p] : w[p][i].file = f

(* The batches of the group. *)
LEMMA BatchIs ==
  ASSUME group \in Groups, NEW d \in AllBatches
  PROVE  /\ d = <<d[1], d[2]>> /\ d[1] \in Files /\ d[2] \in DOMAIN group[d[1]].batches
         /\ group[d[1]].batches[d[2]].at \in Nat
         /\ LayoutValid(group[d[1]]) => group[d[1]].batches[d[2]].at < group[d[1]].size
<1>1. d = <<d[1], d[2]>> /\ d[1] \in Files /\ d[2] \in DOMAIN group[d[1]].batches
  BY DEF AllBatches
<1>2. PICK o : o = group[d[1]] /\ IsObject(o) /\ o.size \in Nat
  BY <1>1, GroupFits
<1>3. PICK b : b = o.batches[d[2]] /\ b.at \in Nat /\ End(b) \in Nat /\ b.at < End(b)
  BY <1>1, <1>2, BatchNumbers
<1>4. LayoutValid(o) => b.at < o.size
  <2>1. b \in Blocks(o)
    BY <1>1, <1>2, <1>3 DEF Blocks, Range
  <2> QED BY <1>2, <1>3, <2>1 DEF LayoutValid
<1> QED BY <1>1, <1>2, <1>3, <1>4

(* A plan of whole files has each of the files G once. *)
OfWholes(w, G) ==
  /\ \A p \in DOMAIN w : \A i \in DOMAIN w[p] :
       w[p][i].file \in G /\ w[p][i] = Whole(w[p][i].file)
  /\ \A p, q \in DOMAIN w : \A i \in DOMAIN w[p], j \in DOMAIN w[q] :
       w[p][i].file = w[q][j].file => p = q /\ i = j
  /\ \A f \in G : \E p \in DOMAIN w : \E i \in DOMAIN w[p] : w[p][i].file = f

(* A plan of all files divides the group. *)
LEMMA WholesDivide ==
  ASSUME group \in Groups, NEW w, OfWholes(w, Files)
  PROVE  Divides(w)
<1>1. \A p, q \in DOMAIN w : \A i \in DOMAIN w[p], j \in DOMAIN w[q] : \A d \in AllBatches :
        Belongs(group, d, w[p][i]) /\ Belongs(group, d, w[q][j]) => p = q /\ i = j
  BY DEF OfWholes, Belongs
<1>2. \A f \in Files : \E p \in DOMAIN w : \E i \in DOMAIN w[p] : w[p][i].file = f
  BY DEF OfWholes
<1>3. ASSUME NEW d \in AllBatches, LayoutValid(group[d[1]])
      PROVE  \E p \in DOMAIN w : \E i \in DOMAIN w[p] : Belongs(group, d, w[p][i])
  <2>1. PICK b : b = group[d[1]].batches[d[2]] /\ b.at \in Nat /\ b.at < group[d[1]].size
                 /\ d[1] \in Files
    BY <1>3, BatchIs
  <2>2. PICK p \in DOMAIN w : \E i \in DOMAIN w[p] : w[p][i].file = d[1]
    BY <1>2, <2>1
  <2>3. PICK i \in DOMAIN w[p] : w[p][i].file = d[1]
    BY <2>2
  <2>4. PICK t : t = w[p][i] /\ t = Whole(d[1])
    BY <2>3 DEF OfWholes
  <2>5. t.lo = 0 /\ t.hi = group[d[1]].size /\ t.file = d[1]
    BY <2>4 DEF Whole
  <2>6. InRange(t, b)
    BY <2>1, <2>5 DEF InRange
  <2>7. Belongs(group, d, t)
    BY <2>1, <2>5, <2>6 DEF Belongs
  <2> QED BY <2>4, <2>7
<1> QED BY <1>1, <1>2, <1>3 DEF Divides

(* One partition divides the group. *)
LEMMA OneDivides ==
  ASSUME group \in Groups
  PROVE  Divides(OneGroup)
<1>1. PICK s : s = [f \in Files |-> Whole(f)]
  OBVIOUS
<1>2. DOMAIN s = Files /\ \A f \in Files : s[f] = Whole(f) /\ s[f].file = f
  BY <1>1 DEF Whole
<1>3a. PICK w : w = <<s>>
  OBVIOUS
<1>3. w = <<s>> /\ DOMAIN w = {1} /\ w[1] = s
  BY <1>3a
<1>4. OfWholes(w, Files)
  BY <1>2, <1>3 DEF OfWholes
<1>5. OneGroup = w
  BY <1>1, <1>3 DEF OneGroup
<1> QED BY <1>4, <1>5, WholesDivide

-----------------------------------------------------------------------------
(* Even ranges *)

(* A number lies in one of as many shares as cover it. *)
LEMMA ShareOf ==
  ASSUME NEW s \in Nat \ {0}, NEW n \in Nat, NEW y \in Nat, y < s * n
  PROVE  \E p \in 1..n : (p - 1) * s <= y /\ y < p * s
<1>1. PICK k : k = y \div s /\ k \in Nat /\ Edge(k, s) <= y /\ y < Edge(k, s) + s
  BY EdgeDiv
<1>2. Edge(k, s) = k * s /\ Edge(n, s) = n * s
  BY DEF Edge
<1>3. k < n
  <2>1. SUFFICES ASSUME n <= k PROVE FALSE
    BY <1>1
  <2>2. Edge(n, s) <= Edge(k, s)
    BY <1>1, <2>1, EdgeOrder
  <2>3. n * s = s * n /\ n * s \in Nat /\ k * s \in Nat
    BY <1>1
  <2> QED BY <1>1, <1>2, <2>2, <2>3
<1>4. PICK p : p = k + 1
  OBVIOUS
<1>5. p \in 1..n /\ p - 1 = k
  BY <1>1, <1>3, <1>4
<1>6. p * s = k * s + s
  BY <1>1, <1>4
<1> QED BY <1>1, <1>2, <1>5, <1>6

(* And in no other. *)
LEMMA SharesApart ==
  ASSUME NEW s \in Nat, NEW p \in Nat \ {0}, NEW q \in Nat \ {0}, NEW y \in Nat,
         (p - 1) * s <= y, y < p * s, (q - 1) * s <= y, y < q * s
  PROVE  p = q
<1>1. ASSUME NEW k \in Nat \ {0}, NEW l \in Nat \ {0}, k < l, (l - 1) * s <= y, y < k * s
      PROVE  FALSE
  <2>1. PICK m : m = l - 1 /\ m \in Nat /\ k <= m
    BY <1>1
  <2>2. Edge(k, s) <= Edge(m, s)
    BY <2>1, EdgeOrder
  <2>3. Edge(k, s) = k * s /\ Edge(m, s) = m * s
    BY DEF Edge
  <2>4. k * s \in Nat /\ m * s \in Nat
    BY <2>1
  <2> QED BY <1>1, <2>1, <2>2, <2>3, <2>4
<1>2. ~(p < q) /\ ~(q < p)
  BY <1>1
<1> QED BY <1>2

(* What comes before a file, and the file, are of what is selected. *)
LEMMA BeforeFits ==
  ASSUME group \in Groups, NEW f \in Files
  PROVE  Before(f) \in Nat /\ Before(f) + group[f].size <= Selected
<1>1. PICK z : z = [g \in Files |-> group[g].size]
  OBVIOUS
<1>2. z \in [Files -> Nat] /\ IsFiniteSet(Files) /\ z[f] = group[f].size
  BY <1>1, GroupFits
<1>3. PICK C : C = 1..(f - 1)
  OBVIOUS
<1>4. C \subseteq Files /\ f \in Files \ C
  <2>1. Files = 1..Len(group) /\ Len(group) \in Nat
    BY GroupFits
  <2> QED BY <1>3, <2>1
<1>5. /\ SumOf([y \in C |-> z[y]]) \in Nat
      /\ SumOf([y \in C |-> z[y]]) + z[f] <= SumOf(z)
  BY <1>2, <1>4, SumOfPart
<1>6. [y \in C |-> z[y]] = [g \in 1..(f - 1) |-> group[g].size]
  BY <1>1, <1>3, <1>4
<1> QED BY <1>1, <1>2, <1>5, <1>6 DEF Before, Selected

(* Byte x of file f is in the piece of partition p. *)
InPiece(f, p, x) == Piece(f, p).lo <= x /\ x < Piece(f, p).hi

(* It is when its place among the bytes of all files is in the share of p. *)
LEMMA InPieceIs ==
  ASSUME group \in Groups, target \in Targets, NEW f \in Files, NEW p \in Nat, NEW x \in Nat
  PROVE  InPiece(f, p, x) <=> /\ x < group[f].size
                              /\ (p - 1) * Share <= Before(f) + x
                              /\ Before(f) + x < p * Share
<1>1. PICK s, z, b : s = Share /\ z = group[f].size /\ b = Before(f)
  OBVIOUS
<1>2. s \in Nat /\ z \in Nat /\ b \in Nat
  BY <1>1, ShareIs, GroupFits, BeforeFits
<1>3. PICK u, v : u = (p - 1) * s /\ v = p * s
  OBVIOUS
<1>4. u \in Int /\ v \in Int
  BY <1>2, <1>3
<1>5. Piece(f, p).lo = Max({0, u - b}) /\ Piece(f, p).hi = Min({z, v - b})
  BY <1>1, <1>3 DEF Piece
<1>6. Max({0, u - b}) = IF 0 >= u - b THEN 0 ELSE u - b
  <2>1. u - b \in Int
    BY <1>2, <1>4
  <2> QED BY <2>1, MaxOfTwo
<1>7. Min({z, v - b}) = IF z <= v - b THEN z ELSE v - b
  <2>1. v - b \in Int
    BY <1>2, <1>4
  <2> QED BY <1>2, <2>1, MinOfTwo
<1>8. InPiece(f, p, x) <=> x < z /\ u <= b + x /\ b + x < v
  BY <1>2, <1>4, <1>5, <1>6, <1>7 DEF InPiece
<1> QED BY <1>1, <1>3, <1>8

(* Every byte is in one piece of its file. *)
LEMMA PiecesCover ==
  ASSUME group \in Groups, target \in Targets, NEW f \in Files, NEW x \in Nat,
         x < group[f].size
  PROVE  \E p \in 1..DivCeil(Selected, Share) : InPiece(f, p, x)
<1>1. PICK s, n, y, z : /\ s = Share /\ n = DivCeil(Selected, Share) /\ y = Before(f) + x
                        /\ z = Selected
  OBVIOUS
<1>2. s \in Nat \ {0} /\ n \in Nat /\ z \in Nat /\ z <= s * n
  BY <1>1, ShareIs, SizesAre
<1>3. y \in Nat /\ y < z
  <2>1. PICK b, l : b = Before(f) /\ l = group[f].size
    OBVIOUS
  <2>2. b \in Nat /\ l \in Nat /\ b + l <= z /\ x < l
    BY <1>1, <2>1, BeforeFits, GroupFits
  <2>3. y = b + x
    BY <1>1, <2>1
  <2> QED BY <1>2, <2>2, <2>3
<1>4. y < s * n
  <2>1. s * n \in Nat
    BY <1>2
  <2> QED BY <1>2, <1>3, <2>1
<1>5. PICK p \in 1..n : (p - 1) * s <= y /\ y < p * s
  BY <1>2, <1>3, <1>4, ShareOf
<1>6. p \in Nat
  BY <1>2
<1>7. InPiece(f, p, x)
  BY <1>1, <1>5, <1>6, InPieceIs
<1> QED BY <1>1, <1>7

(* A byte is in the piece of one partition only. *)
LEMMA PiecesApart ==
  ASSUME group \in Groups, target \in Targets, NEW f \in Files, NEW x \in Nat,
         NEW p \in Nat \ {0}, NEW q \in Nat \ {0}, InPiece(f, p, x), InPiece(f, q, x)
  PROVE  p = q
<1>1. PICK s, y : s = Share /\ y = Before(f) + x
  OBVIOUS
<1>2. s \in Nat /\ y \in Nat
  BY <1>1, ShareIs, BeforeFits
<1>3. (p - 1) * s <= y /\ y < p * s /\ (q - 1) * s <= y /\ y < q * s
  BY <1>1, InPieceIs
<1> QED BY <1>2, <1>3, SharesApart

(* The even ranges of a partition are its pieces of the files e. *)
ArePieces(e, w, p) ==
  /\ e \in Seq(Files) /\ DOMAIN w = 1..Len(e)
  /\ \A i \in 1..Len(e) : e[i] \in Files /\ w[i] = Piece(e[i], p)
  /\ \A i, j \in 1..Len(e) : e[i] = e[j] => i = j
  /\ \A f \in Files : f \in EvenPart(p) => \E i \in 1..Len(e) : e[i] = f

(* The tasks of a partition are such pieces, of the files it has a part of. *)
LEMMA EvenPieces ==
  ASSUME group \in Groups, target \in Targets, NEW p \in 1..DivCeil(Selected, Share)
  PROVE  \E e : ArePieces(e, EvenRanges[p], p)
<1>1. PICK s : s = [f \in Files |-> Piece(f, p)]
  OBVIOUS
<1>2. s \in Seq(FileRanges) /\ DOMAIN s = Files
  <2>1. p \in Nat
    BY ShareIs
  <2>2. s \in [Files -> FileRanges]
    BY <1>1, <2>1, PieceIs
  <2> QED BY <2>2, PassedFiles
<1>3. PICK w, T : w = EvenRanges[p] /\ T = EvenPart(p)
  OBVIOUS
<1>4. w = Filtered(s, T)
  BY <1>1, <1>3, EvenRangesAre
<1>5. PICK e : IsPick(e, s, T, w)
  BY <1>2, <1>4, FilterPicks
<1>6. /\ e \in Seq(Files) /\ w = [i \in 1..Len(e) |-> s[e[i]]]
      /\ \A i, j \in DOMAIN e : i < j => e[i] < e[j]
      /\ \A f \in Files : f \in T <=> \E i \in DOMAIN e : e[i] = f
  BY <1>2, <1>5 DEF IsPick
<1>7. /\ Len(e) \in Nat /\ DOMAIN e = 1..Len(e) /\ \A i \in 1..Len(e) : e[i] \in Files
  BY <1>6
<1>8. \A i \in 1..Len(e) : w[i] = Piece(e[i], p)
  BY <1>1, <1>6, <1>7
<1>9. \A i, j \in 1..Len(e) : e[i] = e[j] => i = j
  <2>1. \A f \in Files : f \in Nat
    BY GroupFits
  <2>2. SUFFICES ASSUME NEW i \in 1..Len(e), NEW j \in 1..Len(e), e[i] = e[j], i # j
                 PROVE  FALSE
    OBVIOUS
  <2>3. i < j \/ j < i
    BY <1>7, <2>2
  <2>4. e[i] < e[j] \/ e[j] < e[i]
    BY <1>6, <1>7, <2>3
  <2>5. e[i] \in Nat /\ e[j] \in Nat
    BY <1>7, <2>1
  <2> QED BY <2>2, <2>4, <2>5
<1>10. DOMAIN w = 1..Len(e)
  BY <1>6
<1>11. ArePieces(e, w, p)
  BY <1>3, <1>6, <1>7, <1>8, <1>9, <1>10 DEF ArePieces
<1> QED BY <1>3, <1>11

(* The even ranges divide a group of files. *)
LEMMA EvenDivides ==
  ASSUME group \in Groups, target \in Targets, \A f \in Files : group[f].variant = "file"
  PROVE  Divides(EvenRanges)
<1>1. PICK w, n : w = EvenRanges /\ n = DivCeil(Selected, Share)
  OBVIOUS
<1>2. DOMAIN w = 1..n /\ n \in Nat
  BY <1>1, ShareIs DEF EvenRanges
<1>3. \A p \in 1..n : \E e : ArePieces(e, w[p], p)
  BY <1>1, EvenPieces
<1>4. ASSUME NEW p \in 1..n, NEW i \in DOMAIN w[p]
      PROVE  w[p][i].file \in Files /\ w[p][i] = Piece(w[p][i].file, p)
  <2>1. PICK e : ArePieces(e, w[p], p)
    BY <1>3
  <2>2. e[i] \in Files /\ w[p][i] = Piece(e[i], p)
    BY <2>1 DEF ArePieces
  <2>3. Piece(e[i], p).file = e[i]
    BY DEF Piece
  <2> QED BY <2>2, <2>3
<1>5. ASSUME NEW p \in 1..n, NEW i \in DOMAIN w[p], NEW j \in DOMAIN w[p],
             w[p][i].file = w[p][j].file
      PROVE  i = j
  <2>1. PICK e : ArePieces(e, w[p], p)
    BY <1>3
  <2>2. /\ i \in 1..Len(e) /\ j \in 1..Len(e) /\ w[p][i] = Piece(e[i], p)
        /\ w[p][j] = Piece(e[j], p)
    BY <2>1 DEF ArePieces
  <2>3. w[p][i].file = e[i] /\ w[p][j].file = e[j]
    BY <2>2 DEF Piece
  <2> QED BY <1>5, <2>1, <2>2, <2>3 DEF ArePieces
<1>6. ASSUME NEW f \in Files, NEW x \in Nat, x < group[f].size
      PROVE  \E p \in 1..n : \E i \in DOMAIN w[p] : w[p][i] = Piece(f, p) /\ InPiece(f, p, x)
  <2>1. PICK p \in 1..n : InPiece(f, p, x)
    BY <1>1, <1>6, PiecesCover
  <2>2. PICK e : ArePieces(e, w[p], p)
    BY <1>3
  <2>3. f \in EvenPart(p)
    <3>1. PICK l, h : l = Piece(f, p).lo /\ h = Piece(f, p).hi
      OBVIOUS
    <3>2. p \in Nat
      BY <1>2
    <3>3. l \in Int /\ h \in Int
      <4>1. Piece(f, p) \in FileRanges
        BY <3>2, PieceIs
      <4> QED BY <3>1, <4>1 DEF FileRanges
    <3>4. l <= x /\ x < h
      BY <2>1, <3>1 DEF InPiece
    <3> QED BY <3>1, <3>3, <3>4 DEF EvenPart
  <2>4. PICK i \in 1..Len(e) : e[i] = f
    BY <2>2, <2>3 DEF ArePieces
  <2>5. i \in DOMAIN w[p] /\ w[p][i] = Piece(f, p)
    BY <2>2, <2>4 DEF ArePieces
  <2> QED BY <2>1, <2>5
<1>7. ASSUME NEW d \in AllBatches, NEW p \in 1..n, NEW i \in DOMAIN w[p], Belongs(group, d, w[p][i])
      PROVE  d[1] \in Files /\ w[p][i].file = d[1]
             /\ InPiece(d[1], p, group[d[1]].batches[d[2]].at)
  <2>1. d[1] \in Files
    BY BatchIs
  <2>2. w[p][i].file = d[1] /\ InRange(w[p][i], group[d[1]].batches[d[2]])
    BY <1>7, <2>1 DEF Belongs
  <2>3. w[p][i] = Piece(d[1], p)
    BY <1>4, <2>2
  <2>4. PICK x : x = group[d[1]].batches[d[2]].at /\ x \in Nat
    BY BatchIs
  <2>5. PICK l, h : l = Piece(d[1], p).lo /\ h = Piece(d[1], p).hi /\ l \in Int /\ h \in Int
    <3>1. Piece(d[1], p) \in FileRanges
      BY <1>2, <2>1, PieceIs
    <3> QED BY <3>1 DEF FileRanges
  <2>6. x >= l /\ x < h
    BY <2>2, <2>3, <2>4, <2>5 DEF InRange
  <2>7. l <= x
    BY <2>4, <2>5, <2>6
  <2> QED BY <2>1, <2>2, <2>4, <2>5, <2>6, <2>7 DEF InPiece
<1>8. ASSUME NEW p \in 1..n, NEW q \in 1..n, NEW i \in DOMAIN w[p], NEW j \in DOMAIN w[q],
             NEW d \in AllBatches, Belongs(group, d, w[p][i]), Belongs(group, d, w[q][j])
      PROVE  p = q /\ i = j
  <2>1. PICK x : x = group[d[1]].batches[d[2]].at /\ x \in Nat
    BY BatchIs
  <2>2. d[1] \in Files /\ w[p][i].file = d[1] /\ InPiece(d[1], p, x)
    BY <1>7, <1>8, <2>1
  <2>3. w[q][j].file = d[1] /\ InPiece(d[1], q, x)
    BY <1>7, <1>8, <2>1
  <2>4. p \in Nat \ {0} /\ q \in Nat \ {0}
    BY <1>2
  <2>5. p = q
    BY <2>1, <2>2, <2>3, <2>4, PiecesApart
  <2> QED BY <1>5, <2>2, <2>3, <2>5
<1>9. ASSUME NEW d \in AllBatches, LayoutValid(group[d[1]])
      PROVE  \E p \in 1..n : \E i \in DOMAIN w[p] : Belongs(group, d, w[p][i])
  <2>1. PICK b : /\ b = group[d[1]].batches[d[2]] /\ b.at \in Nat /\ d[1] \in Files
                 /\ b.at < group[d[1]].size
    BY <1>9, BatchIs
  <2>2. PICK p \in 1..n : \E i \in DOMAIN w[p] :
              w[p][i] = Piece(d[1], p) /\ InPiece(d[1], p, b.at)
    BY <1>6, <2>1
  <2>3. PICK i \in DOMAIN w[p] : w[p][i] = Piece(d[1], p) /\ InPiece(d[1], p, b.at)
    BY <2>2
  <2>4. w[p][i].file = d[1]
    BY <2>3 DEF Piece
  <2>5. PICK l : l = Piece(d[1], p).lo /\ l \in Int
    <3>1. Piece(d[1], p) \in FileRanges
      BY <1>2, <2>1, PieceIs
    <3> QED BY <3>1 DEF FileRanges
  <2>6. l <= b.at /\ b.at < Piece(d[1], p).hi
    BY <2>3, <2>5 DEF InPiece
  <2>7. b.at >= l
    BY <2>1, <2>5, <2>6
  <2>8. InRange(w[p][i], b)
    BY <2>3, <2>5, <2>6, <2>7 DEF InRange
  <2> QED BY <2>1, <2>4, <2>8 DEF Belongs
<1>10. ASSUME NEW f \in Files
       PROVE  \E p \in 1..n : \E i \in DOMAIN w[p] : w[p][i].file = f
  <2>1. 0 < group[f].size
    BY GroupFits
  <2>2. PICK p \in 1..n : \E i \in DOMAIN w[p] : w[p][i] = Piece(f, p) /\ InPiece(f, p, 0)
    BY <1>6, <2>1
  <2> QED BY <2>2 DEF Piece
<1> QED BY <1>1, <1>2, <1>8, <1>9, <1>10 DEF Divides

-----------------------------------------------------------------------------
(* Whole files *)

(* One file more is given to partition p. *)
LEMMA WholesMore ==
  ASSUME NEW w, NEW v, NEW G, NEW f, f \notin G, OfWholes(w, G), NEW p \in DOMAIN w,
         NEW S, w[p] \in Seq(S), Whole(f) \in S, DOMAIN v = DOMAIN w,
         v[p] = Append(w[p], Whole(f)), \A q \in DOMAIN w \ {p} : v[q] = w[q]
  PROVE  OfWholes(v, G \cup {f})
<1>1. PICK n, x : n = Len(w[p]) /\ x = Whole(f)
  OBVIOUS
<1>2. /\ n \in Nat /\ DOMAIN w[p] = 1..n /\ DOMAIN v[p] = 1..(n + 1) /\ v[p][n + 1] = x
      /\ \A i \in 1..n : v[p][i] = w[p][i]
  BY <1>1
<1>3. x.file = f /\ x = Whole(x.file)
  BY <1>1 DEF Whole
<1>4. ASSUME NEW q \in DOMAIN w, NEW i \in DOMAIN v[q]
      PROVE  \/ q = p /\ i = n + 1 /\ v[q][i] = x
             \/ i \in DOMAIN w[q] /\ v[q][i] = w[q][i] /\ v[q][i].file \in G
                /\ v[q][i] = Whole(v[q][i].file)
  <2>1. CASE q = p /\ i = n + 1
    BY <1>2, <2>1
  <2>2. CASE q = p /\ i # n + 1
    <3>1. i \in 1..n
      BY <1>2, <2>2
    <3> QED BY <1>2, <2>2, <3>1 DEF OfWholes
  <2>3. CASE q # p
    BY <2>3 DEF OfWholes
  <2> QED BY <2>1, <2>2, <2>3
<1>5. ASSUME NEW q \in DOMAIN w, NEW r \in DOMAIN w, NEW i \in DOMAIN v[q], NEW j \in DOMAIN v[r],
             v[q][i].file = v[r][j].file
      PROVE  q = r /\ i = j
  <2>1. CASE v[q][i].file = f
    <3>1. q = p /\ i = n + 1
      BY <1>4, <2>1
    <3>2. r = p /\ j = n + 1
      <4>1. v[r][j].file = f
        BY <1>5, <2>1
      <4> QED BY <1>4, <4>1
    <3> QED BY <3>1, <3>2
  <2>2. CASE v[q][i].file # f
    <3>1. /\ i \in DOMAIN w[q] /\ v[q][i] = w[q][i]
          /\ j \in DOMAIN w[r] /\ v[r][j] = w[r][j]
      BY <1>3, <1>4, <1>5, <2>2
    <3> QED BY <1>5, <3>1 DEF OfWholes
  <2> QED BY <2>1, <2>2
<1>6. ASSUME NEW g \in G \cup {f}
      PROVE  \E q \in DOMAIN v : \E i \in DOMAIN v[q] : v[q][i].file = g
  <2>1. CASE g = f
    <3>1. n + 1 \in DOMAIN v[p]
      BY <1>2
    <3> QED BY <1>2, <1>3, <2>1, <3>1
  <2>2. CASE g # f
    <3>1. PICK q \in DOMAIN w : \E i \in DOMAIN w[q] : w[q][i].file = g
      BY <2>2 DEF OfWholes
    <3>2. PICK i \in DOMAIN w[q] : w[q][i].file = g
      BY <3>1
    <3>3. i \in DOMAIN v[q] /\ v[q][i] = w[q][i]
      <4>1. CASE q = p
        <5>1. i \in 1..n /\ i \in 1..(n + 1)
          BY <1>2, <3>2, <4>1
        <5> QED BY <1>2, <4>1, <5>1
      <4>2. CASE q # p
        BY <4>2
      <4> QED BY <4>1, <4>2
    <3> QED BY <3>2, <3>3
  <2> QED BY <2>1, <2>2
<1>7. \A q \in DOMAIN v : \A i \in DOMAIN v[q] :
        v[q][i].file \in G \cup {f} /\ v[q][i] = Whole(v[q][i].file)
  BY <1>3, <1>4
<1> QED BY <1>5, <1>6, <1>7 DEF OfWholes

(* The files of loads, by partition. *)
FilesOf(loads) == [p \in DOMAIN loads |-> loads[p].files]

(* What has been given out are whole files, each once. *)
LEMMA GivenWhole ==
  ASSUME group \in Groups, target \in Targets, NEW g, IsGiven(g, Len(group))
  PROVE  \A n \in 0..Len(group) : OfWholes(FilesOf(g[n].loads), Files \ g[n].left)
<1>1. PICK m : m = Len(group) /\ m \in Nat
  BY GroupFits
<1>2. \A n \in 0..m : g[n] = IF n = 0 THEN [left |-> Files, loads |-> NoLoads]
                                       ELSE Load(g[n - 1])
  BY <1>1 DEF IsGiven
<1>3. \A n \in 0..m : GivenIs(g[n], n)
  BY <1>1, GivenFits
<1> DEFINE P == {n \in Nat : n <= m => OfWholes(FilesOf(g[n].loads), Files \ g[n].left)}
<1>4. 0 \in P
  <2>1. g[0] = [left |-> Files, loads |-> NoLoads]
    BY <1>1, <1>2
  <2>2. PICK w : w = FilesOf(NoLoads)
    OBVIOUS
  <2>3. \A p \in DOMAIN w : w[p] = <<>> /\ DOMAIN w[p] = {}
    BY <2>2 DEF FilesOf, NoLoads
  <2>4. OfWholes(w, {})
    BY <2>3 DEF OfWholes
  <2>5. Files \ g[0].left = {} /\ FilesOf(g[0].loads) = w
    BY <2>1, <2>2
  <2> QED BY <2>4, <2>5
<1>5. ASSUME NEW n \in Nat, n \in P PROVE n + 1 \in P
  <2>1. SUFFICES ASSUME n + 1 <= m
                 PROVE  OfWholes(FilesOf(g[n + 1].loads), Files \ g[n + 1].left)
    OBVIOUS
  <2>2. PICK y : y = g[n] /\ GivenIs(y, n) /\ OfWholes(FilesOf(y.loads), Files \ y.left)
    <3>1. n \in 0..m /\ n <= m
      BY <1>1, <2>1
    <3> QED BY <1>3, <1>5, <3>1
  <2>3. y.left \subseteq Files /\ Cardinality(y.left) = m - n /\ IsLoads(Takers, y.loads)
    BY <1>1, <2>2 DEF GivenIs
  <2>4. y.left # {}
    <3>1. SUFFICES ASSUME y.left = {} PROVE FALSE
      OBVIOUS
    <3>2. Cardinality(y.left) = 0
      BY <3>1, FS_EmptySet, Zenon
    <3>3. n \in Nat /\ m \in Nat /\ n + 1 <= m /\ m - n = 0
      BY <1>1, <2>1, <2>3, <3>2
    <3> QED BY <3>3
  <2>5. PICK f : f = LargestFile(y.left) /\ f \in y.left
    BY <2>3, <2>4, LargestIs
  <2>6. g[n + 1] = [left |-> y.left \ {f}, loads |-> Loaded(y.loads, f)]
    <3>1. n + 1 \in 0..m /\ n + 1 # 0 /\ n + 1 - 1 = n
      BY <1>1, <2>1
    <3>2. g[n + 1] = Load(g[n])
      BY <1>2, <3>1
    <3> QED BY <2>2, <2>5, <3>2, Zenon DEF Load
  <2>7. PICK l : l = Loaded(y.loads, f)
    OBVIOUS
  <2>8. f \in Files
    BY <2>3, <2>5
  <2>9a. PICK k : k = y.loads
    OBVIOUS
  <2>9b. \E p \in Takers : /\ IsLoads(Takers, Loaded(k, f))
                            /\ Loaded(k, f)[p].files = Append(k[p].files, Whole(f))
                            /\ \A q \in Takers \ {p} : Loaded(k, f)[q].files = k[q].files
    <3>1. IsLoads(Takers, k)
      BY <2>3, <2>9a
    <3> QED BY <2>8, <3>1, LoadedIs
  <2>9. PICK p \in Takers : /\ IsLoads(Takers, l)
                            /\ l[p].files = Append(y.loads[p].files, Whole(f))
                            /\ \A q \in Takers \ {p} : l[q].files = y.loads[q].files
    BY <2>7, <2>9a, <2>9b
  <2>10. PICK v, w, G : v = FilesOf(l) /\ w = FilesOf(y.loads) /\ G = Files \ y.left
    OBVIOUS
  <2>11. /\ DOMAIN v = Takers /\ DOMAIN w = Takers /\ w[p] \in Seq(FileRanges)
         /\ v[p] = Append(w[p], Whole(f)) /\ \A q \in Takers \ {p} : v[q] = w[q]
    BY <2>3, <2>9, <2>10 DEF FilesOf, IsLoads
  <2>12. OfWholes(v, G \cup {f})
    <3>1. f \notin G /\ OfWholes(w, G) /\ Whole(f) \in FileRanges
      BY <2>2, <2>5, <2>8, <2>10, WholeIs
    <3> QED BY <2>11, <3>1, WholesMore
  <2>13. Files \ (y.left \ {f}) = G \cup {f}
    BY <2>8, <2>10
  <2>14. FilesOf(g[n + 1].loads) = v /\ Files \ g[n + 1].left = G \cup {f}
    BY <2>6, <2>7, <2>10, <2>13
  <2> QED BY <2>12, <2>14
<1>6. Nat \subseteq P
  <2> HIDE DEF P
  <2> QED BY <1>4, <1>5, Inductive
<1>7. SUFFICES ASSUME NEW n \in 0..m PROVE OfWholes(FilesOf(g[n].loads), Files \ g[n].left)
  BY <1>1
<1>8. n \in Nat /\ n <= m
  BY <1>1
<1>9. n \in P
  <2> HIDE DEF P
  <2> QED BY <1>6, <1>8
<1> QED BY <1>8, <1>9

(* When all are given out they divide the group. *)
LEMMA WholeFilesDivide ==
  ASSUME group \in Groups, target \in Targets
  PROVE  Divides(WholeFiles)
<1>1. PICK g : /\ IsGiven(g, Len(group))
               /\ WholeFiles = [p \in DOMAIN g[Len(group)].loads |->
                                  g[Len(group)].loads[p].files]
  BY WholeFilesAre
<1>2. PICK n, y : n = Len(group) /\ y = g[n]
  OBVIOUS
<1>3. n \in Nat /\ n \in 0..n
  BY <1>2, GroupFits
<1>4. GivenIs(y, n) /\ OfWholes(FilesOf(y.loads), Files \ y.left)
  BY <1>1, <1>2, <1>3, GivenFits, GivenWhole
<1>5. y.left = {}
  <2>1. y.left \subseteq Files /\ Cardinality(y.left) = n - n /\ IsFiniteSet(Files)
    BY <1>2, <1>4, GroupFits DEF GivenIs
  <2>2. IsFiniteSet(y.left) /\ Cardinality(y.left) = 0
    BY <1>3, <2>1, FS_Subset
  <2> QED BY <2>2, FS_EmptySet
<1>6. WholeFiles = FilesOf(y.loads)
  BY <1>1, <1>2 DEF FilesOf
<1>7. OfWholes(WholeFiles, Files)
  BY <1>4, <1>5, <1>6
<1> QED BY <1>7, WholesDivide

(* However the files are divided, every batch belongs to one partition. *)
LEMMA PlanDivides ==
  ASSUME group \in Groups, target \in Targets, NEW w \in {OneGroup, Repartitioned}
  PROVE  Divides(w)
<1>1. CASE Sampled.variant = "file"
  <2>1. PICK g : g = group /\ \A o \in Range(g) : o.variant = g[1].variant
    BY ArrowInputAssumption
  <2>2. \A f \in Files : group[f].variant = group[1].variant
    BY <2>1 DEF Files, Range
  <2>3. Files # {} /\ Files \subseteq Files
    <3>1. Files = 1..Len(group) /\ Len(group) \in Nat \ {0}
      BY GroupFits
    <3>2. 1 \in Files
      BY <3>1
    <3> QED BY <3>2
  <2>4. Representative \in Files
    BY <2>3, LargestIs DEF Representative
  <2>5. \A f \in Files : group[f].variant = "file"
    BY <1>1, <2>2, <2>4 DEF Sampled
  <2> QED BY <1>1, <2>5, OneDivides, EvenDivides DEF Repartitioned
<1>2. CASE Sampled.variant # "file"
  BY <1>2, OneDivides, WholeFilesDivide DEF Repartitioned
<1> QED BY <1>1, <1>2

-----------------------------------------------------------------------------
(* What was read and what was delivered *)

(* Batch i of the object o is the one that is read at turn k of the task w. *)
IsTurn(o, w, k, i) ==
  IF o.variant = "file" THEN k \in DOMAIN MineOf(o, w) /\ MineOf(o, w)[k].index = i
  ELSE k = i

(* It is one of the first n. *)
WasRead(o, w, n, i) == \E k \in 1..n : IsTurn(o, w, k, i)

(* A batch has one turn; those of a task have one. *)
LEMMA TurnsAre ==
  ASSUME NEW o, IsObject(o), NEW w
  PROVE  /\ \A k, l \in Nat, i \in DOMAIN o.batches :
              IsTurn(o, w, k, i) /\ IsTurn(o, w, l, i) => k = l
         /\ o.variant = "file" =>
              /\ Len(MineOf(o, w)) \in Nat
              /\ \A i \in DOMAIN o.batches : InRange(w, o.batches[i]) =>
                   WasRead(o, w, Len(MineOf(o, w)), i)
              /\ \A k \in 1..Len(MineOf(o, w)) :
                   /\ MineOf(o, w)[k].index \in DOMAIN o.batches
                   /\ InRange(w, o.batches[MineOf(o, w)[k].index])
                   /\ IsTurn(o, w, k, MineOf(o, w)[k].index)
<1>1. PICK m, e : m = MineOf(o, w) /\ AreMine(e, o, w, m)
  BY MineOfIs
<1>2. /\ Len(e) \in Nat /\ Len(m) = Len(e) /\ DOMAIN m = 1..Len(e)
      /\ \A k \in 1..Len(e) : e[k] \in DOMAIN o.batches /\ m[k].index = e[k]
      /\ \A j, k \in 1..Len(e) : j < k => e[j] < e[k]
      /\ \A i \in DOMAIN o.batches :
           InRange(w, o.batches[i]) <=> \E k \in 1..Len(e) : e[k] = i
  <2>1. Len(e) \in Nat
    BY <1>1 DEF AreMine
  <2>2. \A k \in 1..Len(e) : e[k] \in DOMAIN o.batches /\ m[k].index = e[k]
    BY <1>1 DEF AreMine
  <2> QED BY <1>1, <2>1, <2>2 DEF AreMine
<1>3. \A i \in DOMAIN o.batches : i \in Nat
  BY BatchNumbers
<1>4. ASSUME NEW k \in Nat, NEW l \in Nat, NEW i \in DOMAIN o.batches,
             IsTurn(o, w, k, i), IsTurn(o, w, l, i)
      PROVE  k = l
  <2>1. CASE o.variant = "file"
    <3>1. k \in 1..Len(e) /\ l \in 1..Len(e) /\ e[k] = i /\ e[l] = i
      BY <1>1, <1>2, <1>4, <2>1 DEF IsTurn
    <3>2. ~(k < l) /\ ~(l < k)
      BY <1>2, <1>3, <3>1
    <3> QED BY <1>4, <3>2
  <2>2. CASE o.variant # "file"
    BY <1>4, <2>2 DEF IsTurn
  <2> QED BY <2>1, <2>2
<1>5. ASSUME o.variant = "file", NEW k \in 1..Len(m)
      PROVE  /\ m[k].index \in DOMAIN o.batches /\ InRange(w, o.batches[m[k].index])
             /\ IsTurn(o, w, k, m[k].index)
  <2>1. m[k].index \in DOMAIN o.batches /\ m[k].index = e[k] /\ k \in DOMAIN m
    BY <1>2, <1>5
  <2> QED BY <1>1, <1>2, <1>5, <2>1 DEF IsTurn
<1>6. ASSUME o.variant = "file", NEW i \in DOMAIN o.batches, InRange(w, o.batches[i])
      PROVE  WasRead(o, w, Len(m), i)
  <2>1. PICK k \in 1..Len(e) : e[k] = i
    BY <1>2, <1>6
  <2>2. IsTurn(o, w, k, i)
    BY <1>1, <1>2, <1>6, <2>1 DEF IsTurn
  <2> QED BY <1>2, <2>1, <2>2 DEF WasRead
<1> QED BY <1>1, <1>2, <1>4, <1>5, <1>6

-----------------------------------------------------------------------------
(***************************************************************************)
(* What is delivered of the group g, by partitions that stand at r with    *)
(* the tasks w, have read a of the first one and delivered o.              *)
(***************************************************************************)

BatchesOf(g) == UNION {{f} \X DOMAIN g[f].batches : f \in DOMAIN g}

ReadOf(g, w, a, p, d) == WasRead(g[Head(w[p]).file], Head(w[p]), a[p].batches, d[2])

(* No batch belongs to two tasks. *)
TasksApart(g, w) ==
  \A p, q \in DOMAIN w : \A i \in DOMAIN w[p], j \in DOMAIN w[q] : \A d \in BatchesOf(g) :
    Belongs(g, d, w[p][i]) /\ Belongs(g, d, w[q][j]) => p = q /\ i = j

(* No batch was delivered twice. *)
OffersApart(g, o) ==
  /\ \A p \in DOMAIN o : \A m \in DOMAIN o[p] : o[p][m] \in BatchesOf(g)
  /\ \A p, q \in DOMAIN o : \A m \in DOMAIN o[p], n \in DOMAIN o[q] :
       o[p][m] = o[q][n] => p = q /\ m = n

(* One that was delivered is of no task that is left, but the one at hand, of
   which it was read. *)
OffersGone(g, w, r, a, o) ==
  \A p, q \in DOMAIN w : \A m \in DOMAIN o[p], j \in DOMAIN w[q] :
    Belongs(g, o[p][m], w[q][j]) =>
      /\ p = q /\ j = 1 /\ r[p] # "next"
      /\ r[p] \in Busy => ReadOf(g, w, a, p, o[p][m])

(* What was read of it was delivered. *)
ReadOffered(g, w, r, a, o) ==
  \A p \in DOMAIN w : r[p] \in Busy =>
    \A d \in BatchesOf(g) : d[1] = Head(w[p]).file /\ ReadOf(g, w, a, p, d) =>
      \E m \in DOMAIN o[p] : o[p][m] = d

(* What was not delivered is of a task that is left; so is a file that is cut. *)
Offer(o, d) == \E p \in DOMAIN o : \E m \in DOMAIN o[p] : o[p][m] = d
Remains(g, w, d) == \E p \in DOMAIN w : \E j \in DOMAIN w[p] : Belongs(g, d, w[p][j])
StillToRead(w, f) == \E p \in DOMAIN w : \E j \in DOMAIN w[p] : w[p][j].file = f
NothingLost(g, w, o) ==
  /\ \A d \in BatchesOf(g) : LayoutValid(g[d[1]]) => Offer(o, d) \/ Remains(g, w, d)
  /\ \A f \in DOMAIN g : LayoutValid(g[f]) \/ StillToRead(w, f)

ScanFits(g, w, r, a, o) ==
  /\ TasksApart(g, w) /\ OffersApart(g, o) /\ OffersGone(g, w, r, a, o)
  /\ ReadOffered(g, w, r, a, o) /\ NothingLost(g, w, o)

(* The types of these. *)
ScanTyped(g, w, r, a, o) ==
  /\ \A f \in DOMAIN g : IsObject(g[f])
  /\ DOMAIN w = DOMAIN r /\ DOMAIN a = DOMAIN r /\ DOMAIN o = DOMAIN r
  /\ \A p \in DOMAIN r :
       /\ \E S : o[p] \in Seq(S)
       /\ \E S : w[p] \in Seq(S)
       /\ a[p].batches \in Nat
       /\ r[p] \in Busy => w[p] # <<>> /\ Head(w[p]).file \in DOMAIN g

(* A batch of the group. *)
LEMMA BatchOf ==
  ASSUME NEW g, NEW d
  PROVE  /\ d \in BatchesOf(g) => /\ d = <<d[1], d[2]>> /\ d[1] \in DOMAIN g
                                  /\ d[2] \in DOMAIN g[d[1]].batches
         /\ \A f \in DOMAIN g : \A i \in DOMAIN g[f].batches :
              <<f, i>> \in BatchesOf(g) /\ <<f, i>>[1] = f /\ <<f, i>>[2] = i
BY DEF BatchesOf

(* A step that neither delivers nor ends a task. *)
LEMMA QuietFits ==
  ASSUME NEW g, NEW w, NEW r, NEW a, NEW o, ScanFits(g, w, r, a, o), ScanTyped(g, w, r, a, o),
         NEW p \in DOMAIN r, NEW s, NEW b, s = [r EXCEPT ![p] = s[p]],
         b = [a EXCEPT ![p] = b[p]],
         \/ r[p] \in Busy /\ s[p] \in Busy /\ b[p].batches = a[p].batches
         \/ s[p] \in Ended
  PROVE  ScanFits(g, w, s, b, o)
<1>1. /\ DOMAIN w = DOMAIN r /\ DOMAIN a = DOMAIN r /\ DOMAIN s = DOMAIN r /\ DOMAIN b = DOMAIN r
      /\ \A q \in DOMAIN r \ {p} : s[q] = r[q] /\ b[q] = a[q]
  BY DEF ScanTyped
<1>2. "next" \notin Busy \cup Ended /\ Busy \cap Ended = {}
  BY DEF Busy, Ended
<1>3. OffersGone(g, w, s, b, o)
  <2>1. SUFFICES ASSUME NEW q \in DOMAIN w, NEW k \in DOMAIN w, NEW m \in DOMAIN o[q],
                        NEW j \in DOMAIN w[k], Belongs(g, o[q][m], w[k][j])
                 PROVE  /\ q = k /\ j = 1 /\ s[q] # "next"
                        /\ s[q] \in Busy => ReadOf(g, w, b, q, o[q][m])
    BY DEF OffersGone
  <2>2. /\ q = k /\ j = 1 /\ r[q] # "next"
        /\ r[q] \in Busy => ReadOf(g, w, a, q, o[q][m])
    BY <2>1 DEF ScanFits, OffersGone
  <2>3. CASE q = p
    <3>1. s[p] # "next"
      BY <1>2
    <3>2. ASSUME s[p] \in Busy PROVE ReadOf(g, w, b, p, o[p][m])
      <4>1. r[p] \in Busy /\ b[p].batches = a[p].batches
        BY <1>2, <3>2
      <4> QED BY <2>2, <2>3, <4>1 DEF ReadOf
    <3> QED BY <2>2, <2>3, <3>1, <3>2
  <2>4. CASE q # p
    BY <1>1, <2>2, <2>4 DEF ReadOf
  <2> QED BY <2>3, <2>4
<1>4. ReadOffered(g, w, s, b, o)
  <2>1. SUFFICES ASSUME NEW q \in DOMAIN w, s[q] \in Busy, NEW d \in BatchesOf(g),
                        d[1] = Head(w[q]).file, ReadOf(g, w, b, q, d)
                 PROVE  \E m \in DOMAIN o[q] : o[q][m] = d
    BY DEF ReadOffered
  <2>2. r[q] \in Busy /\ b[q].batches = a[q].batches
    BY <1>1, <1>2, <2>1
  <2>3. ReadOf(g, w, a, q, d)
    BY <2>1, <2>2 DEF ReadOf
  <2> QED BY <2>1, <2>2, <2>3 DEF ScanFits, ReadOffered
<1> QED BY <1>3, <1>4 DEF ScanFits

(* A task is begun. *)
LEMMA StartFits ==
  ASSUME NEW g, NEW w, NEW r, NEW a, NEW o, ScanFits(g, w, r, a, o), ScanTyped(g, w, r, a, o),
         NEW p \in DOMAIN r, NEW s, NEW b, s = [r EXCEPT ![p] = s[p]],
         b = [a EXCEPT ![p] = b[p]], r[p] = "next", s[p] \in Busy, b[p].batches = 0
  PROVE  ScanFits(g, w, s, b, o)
<1>1. /\ DOMAIN w = DOMAIN r /\ DOMAIN a = DOMAIN r /\ DOMAIN s = DOMAIN r /\ DOMAIN b = DOMAIN r
      /\ \A q \in DOMAIN r \ {p} : s[q] = r[q] /\ b[q] = a[q]
  BY DEF ScanTyped
<1>2. OffersGone(g, w, s, b, o)
  <2>1. SUFFICES ASSUME NEW q \in DOMAIN w, NEW k \in DOMAIN w, NEW m \in DOMAIN o[q],
                        NEW j \in DOMAIN w[k], Belongs(g, o[q][m], w[k][j])
                 PROVE  /\ q = k /\ j = 1 /\ s[q] # "next"
                        /\ s[q] \in Busy => ReadOf(g, w, b, q, o[q][m])
    BY DEF OffersGone
  <2>2. /\ q = k /\ j = 1 /\ r[q] # "next"
        /\ r[q] \in Busy => ReadOf(g, w, a, q, o[q][m])
    BY <2>1 DEF ScanFits, OffersGone
  <2>3. q # p
    BY <2>2
  <2> QED BY <1>1, <2>2, <2>3 DEF ReadOf
<1>3. ReadOffered(g, w, s, b, o)
  <2>1. SUFFICES ASSUME NEW q \in DOMAIN w, s[q] \in Busy, NEW d \in BatchesOf(g),
                        d[1] = Head(w[q]).file, ReadOf(g, w, b, q, d)
                 PROVE  \E m \in DOMAIN o[q] : o[q][m] = d
    BY DEF ReadOffered
  <2>2. q # p
    <3>1. 1..0 = {}
      OBVIOUS
    <3> QED BY <2>1, <3>1 DEF ReadOf, WasRead
  <2>3. r[q] \in Busy /\ ReadOf(g, w, a, q, d)
    BY <1>1, <2>1, <2>2 DEF ReadOf
  <2> QED BY <2>1, <2>3 DEF ScanFits, ReadOffered
<1> QED BY <1>2, <1>3 DEF ScanFits

(* The next batch of a task is delivered. *)
LEMMA TurnFits ==
  ASSUME NEW g, NEW w, NEW r, NEW a, NEW o, ScanFits(g, w, r, a, o), ScanTyped(g, w, r, a, o),
         NEW p \in DOMAIN r, NEW s, NEW b, s = [r EXCEPT ![p] = s[p]],
         b = [a EXCEPT ![p] = b[p]], r[p] \in Busy, s[p] \in Busy,
         b[p].batches = a[p].batches + 1,
         NEW i \in DOMAIN g[Head(w[p]).file].batches,
         IsTurn(g[Head(w[p]).file], Head(w[p]), a[p].batches + 1, i),
         Belongs(g, <<Head(w[p]).file, i>>, Head(w[p])),
         NEW c, c = [o EXCEPT ![p] = Append(o[p], <<Head(w[p]).file, i>>)]
  PROVE  ScanFits(g, w, s, b, c)
<1>1. /\ DOMAIN w = DOMAIN r /\ DOMAIN a = DOMAIN r /\ DOMAIN s = DOMAIN r /\ DOMAIN b = DOMAIN r
      /\ DOMAIN o = DOMAIN r /\ DOMAIN c = DOMAIN r
      /\ \A q \in DOMAIN r \ {p} : s[q] = r[q] /\ b[q] = a[q] /\ c[q] = o[q]
  BY DEF ScanTyped
<1>2. PICK t, f, u, n : t = Head(w[p]) /\ f = t.file /\ u = g[f] /\ n = a[p].batches
  OBVIOUS
<1>3. IsObject(u) /\ n \in Nat /\ f \in DOMAIN g /\ w[p] # <<>>
  BY <1>2 DEF ScanTyped
<1>4. PICK d : d = <<f, i>>
  OBVIOUS
<1>5. /\ d \in BatchesOf(g) /\ d[1] = f /\ d[2] = i /\ IsTurn(u, t, n + 1, i)
      /\ Belongs(g, d, t) /\ i \in DOMAIN u.batches
  BY <1>2, <1>3, <1>4, BatchOf
<1>6. t = w[p][1] /\ 1 \in DOMAIN w[p]
  <2>1. PICK S : w[p] \in Seq(S)
    BY DEF ScanTyped
  <2> QED BY <1>2, <1>3, <2>1
<1>7. PICK l : /\ l \in Nat /\ DOMAIN o[p] = 1..l /\ DOMAIN c[p] = 1..(l + 1)
               /\ c[p][l + 1] = d /\ \A m \in 1..l : c[p][m] = o[p][m]
  <2>1. PICK S : o[p] \in Seq(S)
    BY DEF ScanTyped
  <2>2. PICK v, x : v = o[p] /\ x = c[p]
    OBVIOUS
  <2>3. x = Append(v, d)
    BY <1>1, <1>2, <1>4, <2>2
  <2>4. /\ Len(v) \in Nat /\ DOMAIN v = 1..Len(v) /\ DOMAIN x = 1..(Len(v) + 1)
        /\ x[Len(v) + 1] = d /\ \A m \in 1..Len(v) : x[m] = v[m]
    BY <2>1, <2>2, <2>3
  <2> QED BY <2>2, <2>4
<1>8. ASSUME NEW q \in DOMAIN w, NEW m \in DOMAIN c[q]
      PROVE  \/ q = p /\ m = l + 1 /\ c[q][m] = d
             \/ m \in DOMAIN o[q] /\ c[q][m] = o[q][m]
  <2>1. CASE q = p /\ m = l + 1
    BY <1>7, <2>1
  <2>2. CASE q = p /\ m # l + 1
    <3>1. m \in 1..l
      BY <1>7, <2>2
    <3> QED BY <1>7, <2>2, <3>1
  <2>3. CASE q # p
    BY <1>1, <2>3
  <2> QED BY <2>1, <2>2, <2>3
<1>9. \A q \in DOMAIN w : \A m \in DOMAIN o[q] : o[q][m] # d
  <2>1. SUFFICES ASSUME NEW q \in DOMAIN w, NEW m \in DOMAIN o[q], o[q][m] = d PROVE FALSE
    OBVIOUS
  <2>2. q = p /\ ReadOf(g, w, a, q, d)
    BY <1>1, <1>5, <1>6, <2>1 DEF ScanFits, OffersGone
  <2>3. WasRead(u, t, n, i)
    BY <1>2, <1>5, <2>2 DEF ReadOf
  <2>4. PICK k \in 1..n : IsTurn(u, t, k, i)
    BY <2>3 DEF WasRead
  <2>5. k \in Nat /\ n + 1 \in Nat
    BY <1>3
  <2>6. k = n + 1
    BY <1>3, <1>5, <2>4, <2>5, TurnsAre
  <2> QED BY <1>3, <2>4, <2>6
<1>10. OffersApart(g, c)
  <2>1. ASSUME NEW q \in DOMAIN c, NEW m \in DOMAIN c[q]
        PROVE  c[q][m] \in BatchesOf(g)
    BY <1>1, <1>5, <1>8, <2>1 DEF ScanFits, OffersApart
  <2>2. ASSUME NEW q \in DOMAIN c, NEW k \in DOMAIN c, NEW m \in DOMAIN c[q], NEW j \in DOMAIN c[k],
               c[q][m] = c[k][j]
        PROVE  q = k /\ m = j
    <3>1. CASE c[q][m] = d
      <4>1. q = p /\ m = l + 1
        BY <1>1, <1>8, <1>9, <3>1
      <4>2. k = p /\ j = l + 1
        BY <1>1, <1>8, <1>9, <2>2, <3>1
      <4> QED BY <4>1, <4>2
    <3>2. CASE c[q][m] # d
      <4>1. m \in DOMAIN o[q] /\ c[q][m] = o[q][m]
        BY <1>1, <1>8, <3>2
      <4>2. j \in DOMAIN o[k] /\ c[k][j] = o[k][j]
        BY <1>1, <1>8, <2>2, <3>2
      <4> QED BY <1>1, <2>2, <4>1, <4>2 DEF ScanFits, OffersApart
    <3> QED BY <3>1, <3>2
  <2> QED BY <2>1, <2>2 DEF OffersApart
<1>11. ASSUME NEW x, ReadOf(g, w, a, p, x) PROVE ReadOf(g, w, b, p, x)
  <2>1. WasRead(u, t, n, x[2])
    BY <1>2, <1>11 DEF ReadOf
  <2>2. WasRead(u, t, n + 1, x[2])
    <3>1. 1..n \subseteq 1..(n + 1)
      BY <1>3
    <3> QED BY <2>1, <3>1 DEF WasRead
  <2> QED BY <1>2, <2>2 DEF ReadOf
<1>12. "next" \notin Busy
  BY DEF Busy
<1>13. OffersGone(g, w, s, b, c)
  <2>1. SUFFICES ASSUME NEW q \in DOMAIN w, NEW k \in DOMAIN w, NEW m \in DOMAIN c[q],
                        NEW j \in DOMAIN w[k], Belongs(g, c[q][m], w[k][j])
                 PROVE  /\ q = k /\ j = 1 /\ s[q] # "next"
                        /\ s[q] \in Busy => ReadOf(g, w, b, q, c[q][m])
    BY DEF OffersGone
  <2>2. CASE q = p /\ m = l + 1 /\ c[q][m] = d
    <3>1. k = p /\ j = 1
      <4>1. Belongs(g, d, w[k][j])
        BY ONLY <2>1, <2>2
      <4>2. Belongs(g, d, w[p][1]) /\ 1 \in DOMAIN w[p] /\ p \in DOMAIN w /\ d \in BatchesOf(g)
        BY ONLY <1>1, <1>5, <1>6, p \in DOMAIN r
      <4>3. TasksApart(g, w)
        BY DEF ScanFits
      <4> QED BY ONLY <4>1, <4>2, <4>3, k \in DOMAIN w, j \in DOMAIN w[k] DEF TasksApart
    <3>2. WasRead(u, t, n + 1, i)
      <4>1. n + 1 \in 1..(n + 1)
        BY <1>3
      <4> QED BY <1>5, <4>1 DEF WasRead
    <3>3. ReadOf(g, w, b, p, d)
      BY <1>2, <1>5, <3>2 DEF ReadOf
    <3> QED BY <1>12, <2>2, <3>1, <3>3
  <2>3. CASE m \in DOMAIN o[q] /\ c[q][m] = o[q][m]
    <3>1. /\ q = k /\ j = 1 /\ r[q] # "next"
          /\ r[q] \in Busy => ReadOf(g, w, a, q, o[q][m])
      BY <2>1, <2>3 DEF ScanFits, OffersGone
    <3>2. CASE q = p
      BY <1>11, <1>12, <2>3, <3>1, <3>2
    <3>3. CASE q # p
      BY <1>1, <2>3, <3>1, <3>3 DEF ReadOf
    <3> QED BY <3>2, <3>3
  <2> QED BY <1>8, <2>2, <2>3
<1>14. \A x : Offer(o, x) => Offer(c, x)
  <2>1. \A q \in DOMAIN o : \A m \in DOMAIN o[q] : m \in DOMAIN c[q] /\ c[q][m] = o[q][m]
    <3>1. SUFFICES ASSUME NEW q \in DOMAIN o, NEW m \in DOMAIN o[q]
                   PROVE  m \in DOMAIN c[q] /\ c[q][m] = o[q][m]
      OBVIOUS
    <3>2. CASE q = p
      <4>1. m \in 1..l /\ m \in 1..(l + 1)
        BY <1>7, <3>2
      <4> QED BY <1>7, <3>2, <4>1
    <3>3. CASE q # p
      BY <1>1, <3>3
    <3> QED BY <3>2, <3>3
  <2> QED BY <1>1, <2>1 DEF Offer
<1>15. ReadOffered(g, w, s, b, c)
  <2>1. SUFFICES ASSUME NEW q \in DOMAIN w, s[q] \in Busy, NEW x \in BatchesOf(g),
                        x[1] = Head(w[q]).file, ReadOf(g, w, b, q, x)
                 PROVE  \E m \in DOMAIN c[q] : c[q][m] = x
    BY DEF ReadOffered
  <2>2. CASE q # p
    BY <1>1, <2>1, <2>2 DEF ScanFits, ReadOffered, ReadOf
  <2>3. CASE q = p
    <3>1. PICK k \in 1..(n + 1) : IsTurn(u, t, k, x[2])
      BY <1>2, <2>1, <2>3 DEF ReadOf, WasRead
    <3>2. CASE k = n + 1
      <4>1. x[2] = i
        BY <1>5, <3>1, <3>2 DEF IsTurn
      <4>2. x = d
        <5>1. x = <<x[1], x[2]>>
          BY <2>1, BatchOf
        <5> QED BY <1>2, <1>4, <2>1, <2>3, <4>1, <5>1
      <4>3. l + 1 \in DOMAIN c[p]
        BY <1>7
      <4> QED BY <1>7, <2>3, <4>2, <4>3
    <3>3. CASE k # n + 1
      <4>1. k \in 1..n
        BY <1>3, <3>1, <3>3
      <4>2. ReadOf(g, w, a, p, x)
        BY <1>2, <3>1, <4>1 DEF ReadOf, WasRead
      <4>3. PICK m \in DOMAIN o[p] : o[p][m] = x
        BY <1>1, <2>1, <2>3, <4>2 DEF ScanFits, ReadOffered
      <4>4. m \in DOMAIN c[p] /\ c[p][m] = x
        <5>1. m \in 1..l /\ m \in 1..(l + 1)
          BY <1>7, <4>3
        <5> QED BY <1>7, <4>3, <5>1
      <4> QED BY <2>3, <4>4
    <3> QED BY <3>2, <3>3
  <2> QED BY <2>2, <2>3
<1>16. NothingLost(g, w, c)
  BY <1>14 DEF ScanFits, NothingLost
<1> QED BY <1>10, <1>13, <1>15, <1>16 DEF ScanFits

(* A task has been read to its end. *)
LEMMA EndFits ==
  ASSUME NEW g, NEW w, NEW r, NEW a, NEW o, ScanFits(g, w, r, a, o), ScanTyped(g, w, r, a, o),
         NEW p \in DOMAIN r, NEW s, s = [r EXCEPT ![p] = "next"], r[p] \in Busy,
         NEW v, v = [w EXCEPT ![p] = Tail(w[p])],
         \A d \in BatchesOf(g) : Belongs(g, d, Head(w[p])) => ReadOf(g, w, a, p, d),
         LayoutValid(g[Head(w[p]).file])
  PROVE  ScanFits(g, v, s, a, o)
<1>1. /\ DOMAIN w = DOMAIN r /\ DOMAIN o = DOMAIN r /\ DOMAIN v = DOMAIN r /\ p \in DOMAIN w
      /\ v[p] = Tail(w[p]) /\ s[p] = "next"
      /\ \A q \in DOMAIN r \ {p} : s[q] = r[q] /\ v[q] = w[q]
  BY DEF ScanTyped
<1>2. w[p] # <<>> /\ "next" \notin Busy
  BY DEF ScanTyped, Busy
<1>3. PICK n \in Nat : /\ DOMAIN w[p] = 1..(n + 1) /\ DOMAIN v[p] = 1..n /\ Head(w[p]) = w[p][1]
                       /\ \A j \in 1..n : v[p][j] = w[p][j + 1]
  <2>1. PICK S : w[p] \in Seq(S)
    BY DEF ScanTyped
  <2>2. PICK x, y : x = w[p] /\ y = v[p]
    OBVIOUS
  <2>3. x \in Seq(S) /\ x # <<>> /\ y = Tail(x)
    BY <1>1, <1>2, <2>1, <2>2
  <2>4. /\ Len(y) \in Nat /\ DOMAIN x = 1..(Len(y) + 1) /\ DOMAIN y = 1..Len(y) /\ Head(x) = x[1]
        /\ \A j \in 1..Len(y) : y[j] = x[j + 1]
    BY <2>3
  <2> QED BY <2>2, <2>4
<1>4. \A q \in DOMAIN w : \A j \in DOMAIN v[q] : \E i \in DOMAIN w[q] :
        v[q][j] = w[q][i] /\ i = IF q = p THEN j + 1 ELSE j
  <2>1. \A j \in 1..n : j + 1 \in 1..(n + 1)
    OBVIOUS
  <2> QED BY <1>1, <1>3, <2>1
<1>5. \A q \in DOMAIN w : \A i \in DOMAIN w[q] :
        (q = p /\ i = 1) \/ \E j \in DOMAIN v[q] : v[q][j] = w[q][i]
  <2>1. SUFFICES ASSUME NEW q \in DOMAIN w, NEW i \in DOMAIN w[q], ~(q = p /\ i = 1)
                 PROVE  \E j \in DOMAIN v[q] : v[q][j] = w[q][i]
    OBVIOUS
  <2>2. CASE q = p
    <3>1. i - 1 \in 1..n /\ i - 1 + 1 = i
      BY <1>3, <2>1, <2>2
    <3> QED BY <1>3, <2>2, <3>1
  <2>3. CASE q # p
    BY <1>1, <2>1, <2>3
  <2> QED BY <2>2, <2>3
<1>6. TasksApart(g, v)
  <2>1. SUFFICES ASSUME NEW q \in DOMAIN v, NEW k \in DOMAIN v, NEW i \in DOMAIN v[q],
                        NEW j \in DOMAIN v[k], NEW d \in BatchesOf(g),
                        Belongs(g, d, v[q][i]), Belongs(g, d, v[k][j])
                 PROVE  q = k /\ i = j
    BY DEF TasksApart
  <2>2. PICK x \in DOMAIN w[q] : v[q][i] = w[q][x] /\ x = IF q = p THEN i + 1 ELSE i
    BY <1>1, <1>4
  <2>3. PICK y \in DOMAIN w[k] : v[k][j] = w[k][y] /\ y = IF k = p THEN j + 1 ELSE j
    BY <1>1, <1>4
  <2>4. q = k /\ x = y
    BY <1>1, <2>1, <2>2, <2>3 DEF ScanFits, TasksApart
  <2>5. CASE q = p
    <3>1. i \in Nat /\ j \in Nat /\ i + 1 = j + 1
      BY <1>3, <2>2, <2>3, <2>4, <2>5
    <3> QED BY <2>4, <3>1
  <2>6. CASE q # p
    BY <2>2, <2>3, <2>4, <2>6
  <2> QED BY <2>5, <2>6
<1>7. OffersGone(g, v, s, a, o)
  <2>1. SUFFICES ASSUME NEW q \in DOMAIN v, NEW k \in DOMAIN v, NEW m \in DOMAIN o[q],
                        NEW j \in DOMAIN v[k], Belongs(g, o[q][m], v[k][j])
                 PROVE  /\ q = k /\ j = 1 /\ s[q] # "next"
                        /\ s[q] \in Busy => ReadOf(g, v, a, q, o[q][m])
    BY DEF OffersGone
  <2>2. PICK i \in DOMAIN w[k] : v[k][j] = w[k][i] /\ i = IF k = p THEN j + 1 ELSE j
    BY <1>1, <1>4
  <2>3. /\ q = k /\ i = 1 /\ r[q] # "next"
        /\ r[q] \in Busy => ReadOf(g, w, a, q, o[q][m])
    BY <1>1, <2>1, <2>2 DEF ScanFits, OffersGone
  <2>4. k # p
    <3>1. SUFFICES ASSUME k = p PROVE FALSE
      OBVIOUS
    <3>2. j \in 1..n /\ j + 1 = 1
      BY <1>3, <2>2, <2>3, <3>1
    <3> QED BY <3>2
  <2> QED BY <1>1, <2>2, <2>3, <2>4 DEF ReadOf
<1>8. ReadOffered(g, v, s, a, o)
  BY <1>1, <1>2 DEF ScanFits, ReadOffered, ReadOf
<1>9. NothingLost(g, v, o)
  <2>1. ASSUME NEW d \in BatchesOf(g), LayoutValid(g[d[1]])
        PROVE  Offer(o, d) \/ Remains(g, v, d)
    <3>1. CASE Offer(o, d)
      BY <3>1
    <3>2. CASE Remains(g, w, d)
      <4>1. PICK q \in DOMAIN w : \E i \in DOMAIN w[q] : Belongs(g, d, w[q][i])
        BY <3>2 DEF Remains
      <4>2. PICK i \in DOMAIN w[q] : Belongs(g, d, w[q][i])
        BY <4>1
      <4>3. CASE q = p /\ i = 1
        <5>1. Belongs(g, d, Head(w[p])) /\ d[1] = Head(w[p]).file
          BY <1>3, <4>2, <4>3 DEF Belongs
        <5> QED BY <1>1, <5>1 DEF ScanFits, ReadOffered, Offer
      <4>4. CASE ~(q = p /\ i = 1)
        BY <1>1, <1>5, <4>2, <4>4 DEF Remains
      <4> QED BY <4>3, <4>4
    <3> QED BY <2>1, <3>1, <3>2 DEF ScanFits, NothingLost
  <2>2. ASSUME NEW f \in DOMAIN g
        PROVE  LayoutValid(g[f]) \/ StillToRead(v, f)
    <3>1. CASE LayoutValid(g[f])
      BY <3>1
    <3>2. CASE StillToRead(w, f)
      <4>1. PICK q \in DOMAIN w : \E i \in DOMAIN w[q] : w[q][i].file = f
        BY <3>2 DEF StillToRead
      <4>2. PICK i \in DOMAIN w[q] : w[q][i].file = f
        BY <4>1
      <4>3. CASE q = p /\ i = 1
        BY <1>3, <4>2, <4>3
      <4>4. CASE ~(q = p /\ i = 1)
        BY <1>1, <1>5, <4>2, <4>4 DEF StillToRead
      <4> QED BY <4>3, <4>4
    <3> QED BY <2>2, <3>1, <3>2 DEF ScanFits, NothingLost
  <2> QED BY <2>1, <2>2 DEF NothingLost
<1> QED BY <1>6, <1>7, <1>8, <1>9 DEF ScanFits

(* The batches are those of the specification. *)
LEMMA BatchesAre ==
  BatchesOf(group) = AllBatches
BY DEF BatchesOf, AllBatches, Files

(* Nothing has been delivered when the scan begins. *)
LEMMA BeginFits ==
  ASSUME NEW w, Divides(w), NEW r, NEW a, NEW o, DOMAIN r = DOMAIN w, DOMAIN o = DOMAIN w,
         \A p \in DOMAIN w : r[p] = "next" /\ o[p] = <<>>
  PROVE  ScanFits(group, w, r, a, o)
<1>1. "next" \notin Busy /\ \A p \in DOMAIN w : DOMAIN o[p] = {}
  BY DEF Busy
<1>2. TasksApart(group, w)
  BY BatchesAre DEF Divides, TasksApart
<1>3. NothingLost(group, w, o)
  BY BatchesAre DEF Divides, NothingLost, Remains, StillToRead, Files
<1>4. OffersApart(group, o) /\ OffersGone(group, w, r, a, o)
  BY <1>1 DEF OffersApart, OffersGone
<1>5. ReadOffered(group, w, r, a, o)
  BY <1>1 DEF ReadOffered
<1> QED BY <1>2, <1>3, <1>4, <1>5 DEF ScanFits

-----------------------------------------------------------------------------
(* The steps of a partition, as the scan sees them *)

(* Whoever waits for a chunk has decoded all before; whoever is done has nothing
   left; a layout that is ready is valid. *)
ReadersStand == \A p \in Partitions :
  /\ reader[p] = "stream" /\ HasMore(p) => at[p].bytes < End(NextBatch(p))
  /\ reader[p] = "done" => work[p] = <<>>
CellsValid == \A f \in Files : cell[f] = "ready" => LayoutValid(group[f])

(* What a step of partition p is to the scan: it delivers nothing, begins a
   task, delivers the next batch of it, or ends it. *)
OnlyMoves(p) ==
  /\ group' = group /\ reader' = [reader EXCEPT ![p] = reader'[p]]
  /\ at' = [at EXCEPT ![p] = at'[p]]
IsQuiet(p) ==
  /\ work' = work /\ out' = out
  /\ \/ reader[p] \in Busy /\ reader'[p] \in Busy /\ at'[p].batches = at[p].batches
     \/ reader'[p] \in Ended
IsStart(p) ==
  /\ work' = work /\ out' = out
  /\ reader[p] = "next" /\ reader'[p] \in Busy /\ at'[p].batches = 0
IsDelivery(p, i) ==
  /\ reader[p] \in Busy /\ reader'[p] \in Busy /\ at'[p].batches = at[p].batches + 1
  /\ IsTurn(Source(p), Task(p), at[p].batches + 1, i)
  /\ Belongs(group, <<File(p), i>>, Task(p))
  /\ work' = work /\ out' = [out EXCEPT ![p] = Append(out[p], <<File(p), i>>)]
IsEnd(p) ==
  /\ reader[p] \in Busy /\ reader'[p] = "next"
  /\ work' = [work EXCEPT ![p] = Tail(work[p])] /\ out' = out /\ at' = at
  /\ LayoutValid(Source(p))
  /\ \A d \in BatchesOf(group) : Belongs(group, d, Task(p)) => ReadOf(group, work, at, p, d)
IsMove(p) ==
  IsQuiet(p) \/ IsStart(p) \/ IsEnd(p) \/ \E i \in DOMAIN Source(p).batches : IsDelivery(p, i)

(* The places that are changed. *)
LEMMA PlacesMove ==
  ASSUME ArrowTypes, NEW p \in Partitions
  PROVE  /\ \A x : reader' = [reader EXCEPT ![p] = x] =>
              reader'[p] = x /\ reader' = [reader EXCEPT ![p] = reader'[p]]
         /\ \A x : at' = [at EXCEPT ![p] = x] => at'[p] = x /\ at' = [at EXCEPT ![p] = at'[p]]
         /\ reader' = reader => reader' = [reader EXCEPT ![p] = reader'[p]]
         /\ at' = at => at' = [at EXCEPT ![p] = at'[p]]
BY DEF ArrowTypes

(* A stream that fails, and one that is dropped. *)
LEMMA FailMoves ==
  ASSUME ArrowInv, NEW p \in Partitions, FailStream(p) \/ Drop(p), UNCHANGED plannedVars
  PROVE  OnlyMoves(p) /\ IsQuiet(p)
<1>1. PICK x \in {"failed", "dropped"} :
        reader' = [reader EXCEPT ![p] = x] /\ work' = work /\ out' = out /\ at' = at
  BY DEF FailStream, Drop, Leave, Goto
<1>2. reader'[p] = x /\ reader' = [reader EXCEPT ![p] = reader'[p]]
      /\ at' = [at EXCEPT ![p] = at'[p]]
  BY <1>1, PlacesMove DEF ArrowInv
<1>3. group' = group
  BY DEF plannedVars
<1> QED BY <1>1, <1>2, <1>3 DEF OnlyMoves, IsQuiet, Ended

(* Steps that go on with a task without a batch. *)
LEMMA WithinMoves ==
  ASSUME ArrowInv, NEW p \in Partitions, UNCHANGED plannedVars, reader[p] \in Busy,
         NEW x \in Busy \cup Ended, reader' = [reader EXCEPT ![p] = x],
         work' = work, out' = out, NEW y, at' = [at EXCEPT ![p] = y],
         y.batches = at[p].batches
  PROVE  OnlyMoves(p) /\ IsQuiet(p)
<1>1. reader'[p] = x /\ reader' = [reader EXCEPT ![p] = reader'[p]]
      /\ at'[p] = y /\ at' = [at EXCEPT ![p] = at'[p]]
  BY PlacesMove DEF ArrowInv
<1>2. group' = group
  BY DEF plannedVars
<1> QED BY <1>1, <1>2 DEF OnlyMoves, IsQuiet

(* Opening a file. *)
LEMMA OpenMoves ==
  ASSUME ArrowInv, NEW p \in Partitions, Open(p), UNCHANGED plannedVars
  PROVE  OnlyMoves(p) /\ IsStart(p)
<1>1. PICK x \in {"layout", "stream"} : reader' = [reader EXCEPT ![p] = x]
  BY DEF Open, Goto
<1>2. reader[p] = "next" /\ work' = work /\ out' = out /\ at' = [at EXCEPT ![p] = AtStart]
  BY DEF Open
<1>3. reader'[p] = x /\ reader' = [reader EXCEPT ![p] = reader'[p]]
      /\ at'[p] = AtStart /\ at' = [at EXCEPT ![p] = at'[p]]
  BY <1>1, <1>2, PlacesMove DEF ArrowInv
<1>4. group' = group /\ AtStart.batches = 0 /\ x \in Busy
  BY DEF plannedVars, AtStart, Busy
<1> QED BY <1>1, <1>2, <1>3, <1>4 DEF OnlyMoves, IsStart

(* Steps by the layout, and taking a batch. *)
LEMMA LayoutMoves ==
  ASSUME ArrowInv, NEW p \in Partitions, UNCHANGED plannedVars,
         \/ FillLayout(p) \/ LayoutFilled(p) \/ LayoutReady(p) \/ Polled(p)
  PROVE  OnlyMoves(p) /\ IsQuiet(p)
<1>1. CASE FailStream(p)
  BY <1>1, FailMoves
<1>2. CASE ~FailStream(p)
  <2>1. /\ reader[p] \in Busy /\ \E x \in Busy : reader' = [reader EXCEPT ![p] = x]
        /\ work' = work /\ out' = out /\ at' = at
    BY <1>2 DEF FillLayout, LayoutFilled, LayoutReady, Polled, Goto, Busy
  <2>2. at' = [at EXCEPT ![p] = at[p]]
    BY <2>1 DEF ArrowInv, ArrowTypes
  <2> QED BY <2>1, <2>2, WithinMoves
<1> QED BY <1>1, <1>2

(* Reading a dictionary, a block or a chunk. *)
LEMMA ReadMoves ==
  ASSUME ArrowInv, NEW p \in Partitions, UNCHANGED plannedVars,
         ReadDictionary(p) \/ ReadBlock(p) \/ ReadChunk(p)
  PROVE  OnlyMoves(p) /\ IsQuiet(p)
<1>0. at \in [Partitions -> Counters] /\ at[p] \in Counters /\ reader \in [Partitions -> ReaderPlaces]
  BY DEF ArrowInv, ArrowTypes
<1>1. CASE FailStream(p)
  BY <1>1, FailMoves
<1>2. CASE ~FailStream(p) /\ ReadDictionary(p)
  <2>1. /\ reader[p] = "file" /\ reader' = reader /\ work' = work /\ out' = out
        /\ at' = [at EXCEPT ![p].dictionaries = @ + 1]
    BY <1>2 DEF ReadDictionary
  <2>2. PICK y : y = [at[p] EXCEPT !.dictionaries = @ + 1]
    OBVIOUS
  <2>3. at' = [at EXCEPT ![p] = y] /\ y.batches = at[p].batches
    BY <1>0, <2>1, <2>2 DEF Counters
  <2>4. reader' = [reader EXCEPT ![p] = reader[p]] /\ reader[p] \in Busy
    BY <1>0, <2>1 DEF Busy
  <2> QED BY <2>1, <2>3, <2>4, WithinMoves
<1>3. CASE ~FailStream(p) /\ ReadChunk(p)
  <2>1. PICK end : /\ reader[p] = "stream" /\ Goto(p, "chunk") /\ work' = work /\ out' = out
                   /\ at' = [at EXCEPT ![p].bytes = end]
    BY <1>3 DEF ReadChunk
  <2>2. PICK y : y = [at[p] EXCEPT !.bytes = end]
    OBVIOUS
  <2>3. at' = [at EXCEPT ![p] = y] /\ y.batches = at[p].batches
    BY <1>0, <2>1, <2>2 DEF Counters
  <2>4. reader' = [reader EXCEPT ![p] = "chunk"] /\ reader[p] \in Busy /\ "chunk" \in Busy
    BY <2>1 DEF Busy, Goto
  <2> QED BY <2>1, <2>3, <2>4, WithinMoves
<1>4. CASE ~FailStream(p) /\ ReadBlock(p)
  <2>1. /\ reader[p] = "file" /\ reader' = [reader EXCEPT ![p] = "block"]
        /\ work' = work /\ out' = out /\ at' = at
    BY <1>4 DEF ReadBlock, Goto
  <2>2. at' = [at EXCEPT ![p] = at[p]] /\ reader[p] \in Busy /\ "block" \in Busy
    BY <1>0, <2>1 DEF Busy
  <2> QED BY <2>1, <2>2, WithinMoves
<1> QED BY <1>1, <1>2, <1>3, <1>4

(* A partition that has nothing left. *)
LEMMA ExhaustedMoves ==
  ASSUME ArrowInv, NEW p \in Partitions, Exhausted(p), UNCHANGED plannedVars
  PROVE  OnlyMoves(p) /\ IsQuiet(p)
<1>1. reader' = [reader EXCEPT ![p] = "done"] /\ work' = work /\ out' = out /\ at' = at
  BY DEF Exhausted, Goto
<1>2. reader'[p] = "done" /\ reader' = [reader EXCEPT ![p] = reader'[p]]
      /\ at' = [at EXCEPT ![p] = at'[p]]
  BY <1>1, PlacesMove DEF ArrowInv
<1>3. group' = group
  BY DEF plannedVars
<1> QED BY <1>1, <1>2, <1>3 DEF OnlyMoves, IsQuiet, Ended

(* The next block of a file is delivered, or cannot be. *)
LEMMA BlockMoves ==
  ASSUME ArrowInv, BlocksFit, NEW p \in Partitions, DecodeBlock(p), UNCHANGED plannedVars
  PROVE  OnlyMoves(p) /\ IsMove(p)
<1>1. CASE FailStream(p)
  BY <1>1, FailMoves DEF IsMove
<1>2. CASE ~FailStream(p)
  <2>1. PICK next : next = Mine(p)[at[p].batches + 1] /\ next = NextBlock(p)
    BY DEF NextBlock
  <2>2. /\ reader[p] = "block" /\ at[p].batches < Len(Mine(p))
        /\ Goto(p, "yielded") /\ at' = [at EXCEPT ![p].batches = @ + 1]
        /\ out' = [out EXCEPT ![p] = Append(@, <<File(p), next.index>>)]
        /\ work' = work
    BY <1>2, <2>1 DEF DecodeBlock, BlocksFit
  <2>3. reader[p] \in Busy /\ "yielded" \in Busy
    BY <2>2 DEF Busy
  <2>4. /\ at[p] \in Counters /\ IsObject(Source(p)) /\ File(p) \in Files
        /\ MayRead("block", Source(p), at[p], reserved[p], Last(out[p])[2])
        /\ Source(p) = group[File(p)]
    BY <2>2, <2>3, Standing DEF Source
  <2>5. Source(p).variant = "file"
    BY <2>4 DEF MayRead, WithFile
  <2>6. Mine(p) = MineOf(Source(p), Task(p)) /\ Len(Mine(p)) \in Nat
    BY <2>4, <2>5, MineIs, TurnsAre
  <2>7. at[p].batches + 1 \in 1..Len(Mine(p))
    BY <2>2, <2>4, <2>6 DEF Counters
  <2>8. PICK i \in DOMAIN Source(p).batches :
          /\ i = next.index /\ InRange(Task(p), Source(p).batches[i])
          /\ IsTurn(Source(p), Task(p), at[p].batches + 1, i)
    BY <2>1, <2>4, <2>5, <2>6, <2>7, TurnsAre
  <2>9. Belongs(group, <<File(p), i>>, Task(p))
    BY <2>4, <2>8 DEF Belongs, File
  <2>10. PICK y : y = [at[p] EXCEPT !.batches = @ + 1]
    OBVIOUS
  <2>11. at' = [at EXCEPT ![p] = y] /\ y.batches = at[p].batches + 1
    BY <2>2, <2>4, <2>10 DEF Counters, ArrowInv, ArrowTypes
  <2>12. reader'[p] = "yielded" /\ reader' = [reader EXCEPT ![p] = reader'[p]]
         /\ at'[p] = y /\ at' = [at EXCEPT ![p] = at'[p]]
    BY <2>2, <2>11, PlacesMove DEF ArrowInv, Goto
  <2>13. out' = [out EXCEPT ![p] = Append(out[p], <<File(p), i>>)]
    BY <2>2, <2>8 DEF ArrowInv, ArrowTypes
  <2>14. IsDelivery(p, i)
    BY <2>2, <2>3, <2>8, <2>9, <2>11, <2>12, <2>13 DEF IsDelivery
  <2>15. OnlyMoves(p)
    BY <2>12 DEF OnlyMoves, plannedVars
  <2> QED BY <2>14, <2>15 DEF IsMove
<1> QED BY <1>1, <1>2

(* A batch of a chunk is delivered, or none is. *)
LEMMA DecodeMoves ==
  ASSUME ArrowInv, NEW p \in Partitions, DecodeChunk(p), UNCHANGED plannedVars
  PROVE  OnlyMoves(p) /\ IsMove(p)
<1>0. reader[p] = "chunk" /\ reader[p] \in Busy /\ "yielded" \in Busy /\ "stream" \in Busy
  BY DEF DecodeChunk, Busy
<1>1. /\ at[p] \in Counters /\ IsObject(Source(p)) /\ File(p) \in Files
      /\ MayRead("chunk", Source(p), at[p], reserved[p], Last(out[p])[2])
      /\ Source(p) = group[File(p)]
  BY <1>0, Standing DEF Source
<1>2. Source(p).variant = "stream"
  BY <1>1 DEF MayRead, WithStream
<1>3. CASE FailStream(p)
  BY <1>3, FailMoves DEF IsMove
<1>4. CASE ~FailStream(p) /\ HasMore(p) /\ End(NextBatch(p)) <= at[p].bytes
  <2>1. PICK i : i = at[p].batches + 1
    OBVIOUS
  <2>2. /\ Goto(p, "yielded") /\ work' = work
        /\ out' = [out EXCEPT ![p] = Append(@, <<File(p), i>>)]
        /\ at' = [at EXCEPT ![p].batches = @ + 1]
    BY <1>4, <2>1 DEF DecodeChunk
  <2>3. i \in DOMAIN Source(p).batches
    <3>1. at[p].batches \in Nat /\ at[p].batches < Len(Source(p).batches)
      BY <1>1, <1>4 DEF HasMore, Counters
    <3> QED BY <1>1, <2>1, <3>1, BatchNumbers
  <2>4. IsTurn(Source(p), Task(p), at[p].batches + 1, i)
    BY <1>2, <2>1 DEF IsTurn
  <2>5. Belongs(group, <<File(p), i>>, Task(p))
    BY <1>1, <1>2 DEF Belongs, File
  <2>6. PICK y : y = [at[p] EXCEPT !.batches = @ + 1]
    OBVIOUS
  <2>7. at' = [at EXCEPT ![p] = y] /\ y.batches = at[p].batches + 1
    BY <1>1, <2>2, <2>6 DEF Counters, ArrowInv, ArrowTypes
  <2>8. reader'[p] = "yielded" /\ reader' = [reader EXCEPT ![p] = reader'[p]]
        /\ at'[p] = y /\ at' = [at EXCEPT ![p] = at'[p]]
    BY <2>2, <2>7, PlacesMove DEF ArrowInv, Goto
  <2>9. out' = [out EXCEPT ![p] = Append(out[p], <<File(p), i>>)]
    BY <2>2 DEF ArrowInv, ArrowTypes
  <2>10. IsDelivery(p, i)
    BY <1>0, <2>2, <2>4, <2>5, <2>7, <2>8, <2>9 DEF IsDelivery
  <2>11. OnlyMoves(p)
    BY <2>8 DEF OnlyMoves, plannedVars
  <2> QED BY <2>3, <2>10, <2>11 DEF IsMove
<1>5. CASE ~FailStream(p) /\ ~(HasMore(p) /\ End(NextBatch(p)) <= at[p].bytes)
  <2>1. reader' = [reader EXCEPT ![p] = "stream"] /\ work' = work /\ out' = out /\ at' = at
    BY <1>5 DEF DecodeChunk, Goto
  <2>2. at' = [at EXCEPT ![p] = at[p]]
    BY <2>1 DEF ArrowInv, ArrowTypes
  <2> QED BY <1>0, <2>1, <2>2, WithinMoves DEF IsMove
<1> QED BY <1>3, <1>4, <1>5

(* What is left when a task is ended. *)
LEMMA EndMoves ==
  ASSUME ArrowInv, NEW p \in Partitions, UNCHANGED plannedVars, reader[p] \in Busy,
         Leave(p, "next"), work' = [work EXCEPT ![p] = Tail(@)], UNCHANGED <<at, out>>,
         LayoutValid(Source(p)),
         \A d \in BatchesOf(group) : Belongs(group, d, Task(p)) => ReadOf(group, work, at, p, d)
  PROVE  OnlyMoves(p) /\ IsMove(p)
<1>1. reader' = [reader EXCEPT ![p] = "next"] /\ group' = group
  BY DEF Leave, Goto, plannedVars
<1>2. reader'[p] = "next" /\ reader' = [reader EXCEPT ![p] = reader'[p]]
      /\ at' = [at EXCEPT ![p] = at'[p]]
  BY <1>1, PlacesMove DEF ArrowInv
<1>3. work' = [work EXCEPT ![p] = Tail(work[p])]
  BY DEF ArrowInv, ArrowTypes
<1> QED BY <1>1, <1>2, <1>3 DEF OnlyMoves, IsMove, IsEnd

(* A file is read to the end of its range. *)
LEMMA EndFileMoves ==
  ASSUME ArrowInv, CellsValid, NEW p \in Partitions, EndFile(p), UNCHANGED plannedVars
  PROVE  OnlyMoves(p) /\ IsMove(p)
<1>1. /\ reader[p] = "file" /\ reader[p] \in Busy /\ at[p].batches = Len(Mine(p))
      /\ Leave(p, "next") /\ work' = [work EXCEPT ![p] = Tail(@)] /\ UNCHANGED <<at, out>>
  BY DEF EndFile, Busy
<1>2. /\ at[p] \in Counters /\ IsObject(Source(p)) /\ File(p) \in Files /\ work[p] # <<>>
      /\ MayRead("file", Source(p), at[p], reserved[p], Last(out[p])[2])
      /\ Source(p) = group[File(p)] /\ File(p) = Head(work[p]).file /\ Task(p) = Head(work[p])
  BY <1>1, Standing DEF Source, File, Task
<1>3. Source(p).variant = "file"
  BY <1>2 DEF MayRead, WithFile
<1>4. LayoutValid(Source(p))
  <2>1. HasLayout(p, File(p))
    BY <1>1, <1>2, StandingLayout DEF Uses
  <2>2. cell[File(p)] = "ready"
    BY <1>1, <1>2, <2>1, StandingLayout
  <2> QED BY <1>2, <2>2 DEF CellsValid
<1>5. ASSUME NEW d \in BatchesOf(group), Belongs(group, d, Task(p))
      PROVE  ReadOf(group, work, at, p, d)
  <2>1. d[1] = File(p) /\ d[2] \in DOMAIN Source(p).batches
        /\ InRange(Task(p), Source(p).batches[d[2]])
    BY <1>2, <1>3, <1>5, BatchOf DEF Belongs
  <2>2. Mine(p) = MineOf(Source(p), Task(p))
    BY <1>2, MineIs
  <2>3. PICK o, t, n : o = Source(p) /\ t = Task(p) /\ n = at[p].batches
    OBVIOUS
  <2>4. IsObject(o) /\ o.variant = "file" /\ n = Len(MineOf(o, t)) /\ d[2] \in DOMAIN o.batches
        /\ InRange(t, o.batches[d[2]])
    BY <1>1, <1>2, <1>3, <2>1, <2>2, <2>3
  <2>5. WasRead(o, t, n, d[2])
    BY ONLY <2>4, TurnsAre
  <2> QED BY <1>2, <2>3, <2>5 DEF ReadOf
<1> QED BY <1>1, <1>4, <1>5, EndMoves

(* A stream is read to its end. *)
LEMMA EndStreamMoves ==
  ASSUME ArrowInv, ReadersStand, NEW p \in Partitions, EndStream(p), UNCHANGED plannedVars
  PROVE  OnlyMoves(p) /\ IsMove(p)
<1>1. reader[p] = "stream" /\ reader[p] \in Busy /\ at[p].bytes = Source(p).size
  BY DEF EndStream, Busy
<1>2. /\ at[p] \in Counters /\ IsObject(Source(p)) /\ File(p) \in Files /\ work[p] # <<>>
      /\ MayRead("stream", Source(p), at[p], reserved[p], Last(out[p])[2])
      /\ Source(p) = group[File(p)] /\ File(p) = Head(work[p]).file /\ Task(p) = Head(work[p])
  BY <1>1, Standing DEF Source, File, Task
<1>3. Source(p).variant = "stream"
  BY <1>2 DEF MayRead, WithStream
<1>4. CASE Truncated(Source(p))
  BY <1>4, FailMoves DEF EndStream, IsMove
<1>5. CASE ~Truncated(Source(p))
  <2>1. Leave(p, "next") /\ work' = [work EXCEPT ![p] = Tail(@)] /\ UNCHANGED <<at, out>>
    BY <1>5 DEF EndStream
  <2>2. PICK o, n : o = Source(p) /\ n = at[p].batches
    OBVIOUS
  <2>3. IsObject(o) /\ n \in Nat /\ o.size \in Nat
    BY <1>2, <2>2 DEF Counters, IsObject
  <2>4. \A b \in Blocks(o) : End(b) \in Int => End(b) <= o.size
    BY <1>5, <2>2, <2>3 DEF Truncated
  <2>5. LayoutValid(o)
    <3>1. \A b \in Blocks(o) : End(b) \in Int \/ End(b) <= o.size
      <4>1. SUFFICES ASSUME NEW b \in Blocks(o) PROVE End(b) \in Int \/ End(b) <= o.size
        OBVIOUS
      <4>2. CASE b \in Range(o.batches)
        BY <2>3, <4>2 DEF IsObject, End
      <4>3. CASE b \in Range(o.dictionaries)
        BY <2>3, <4>3 DEF IsObject, End
      <4> QED BY <4>1, <4>2, <4>3 DEF Blocks
    <3> QED BY <2>4, <3>1 DEF LayoutValid
  <2>6. \A i \in DOMAIN o.batches : i \in 1..n
    <3>1. /\ Len(o.batches) \in Nat /\ DOMAIN o.batches = 1..Len(o.batches)
          /\ \A i \in 1..Len(o.batches) : End(o.batches[i]) \in Nat
      BY <2>3, BatchNumbers
    <3>2. ~(n < Len(o.batches))
      <4>1. SUFFICES ASSUME n < Len(o.batches) PROVE FALSE
        OBVIOUS
      <4>2. n + 1 \in 1..Len(o.batches)
        BY <2>3, <3>1, <4>1
      <4>3. o.size < End(o.batches[n + 1])
        BY <1>1, <2>2, <4>1 DEF ReadersStand, HasMore, NextBatch
      <4>4. o.batches[n + 1] \in Blocks(o)
        BY <3>1, <4>2 DEF Blocks, Range
      <4> QED BY <2>3, <2>5, <3>1, <4>2, <4>3, <4>4 DEF LayoutValid
    <3> QED BY <2>3, <3>1, <3>2
  <2>7. ASSUME NEW d \in BatchesOf(group), Belongs(group, d, Task(p))
        PROVE  ReadOf(group, work, at, p, d)
    <3>1. d[1] = File(p) /\ d[2] \in DOMAIN o.batches
      BY <1>2, <2>2, <2>7, BatchOf DEF Belongs
    <3>2. WasRead(o, Task(p), n, d[2])
      BY <1>3, <2>2, <2>6, <3>1 DEF WasRead, IsTurn
    <3> QED BY <1>2, <2>2, <3>2 DEF ReadOf
  <2> QED BY <1>1, <2>1, <2>2, <2>5, <2>7, EndMoves
<1> QED BY <1>4, <1>5

(* Every step of a partition is one of these. *)
LEMMA StepMoves ==
  ASSUME ArrowInv, BlocksFit, ReadersStand, CellsValid, NEW p \in Partitions, Step(p) \/ Drop(p),
         UNCHANGED plannedVars
  PROVE  OnlyMoves(p) /\ IsMove(p)
<1>1. CASE OpenFails(p) \/ LayoutFails(p) \/ ReadFails(p) \/ Drop(p)
  BY <1>1, FailMoves DEF OpenFails, LayoutFails, ReadFails, IsMove
<1>2. CASE Open(p)
  BY <1>2, OpenMoves DEF IsMove
<1>3. CASE FillLayout(p) \/ LayoutFilled(p) \/ LayoutReady(p) \/ Polled(p)
  BY <1>3, LayoutMoves DEF IsMove
<1>4. CASE ReadDictionary(p) \/ ReadBlock(p) \/ ReadChunk(p)
  BY <1>4, ReadMoves DEF IsMove
<1>5. CASE Exhausted(p)
  BY <1>5, ExhaustedMoves DEF IsMove
<1> QED BY <1>1, <1>2, <1>3, <1>4, <1>5, BlockMoves, DecodeMoves, EndFileMoves, EndStreamMoves
        DEF Step

ScanStands == ScanFits(group, work, reader, at, out)

(* The types of a scan. *)
LEMMA ScanTypes ==
  ASSUME ArrowInv
  PROVE  ScanTyped(group, work, reader, at, out)
<1>1. ArrowTypes
  BY DEF ArrowInv
<1>2. \A f \in DOMAIN group : IsObject(group[f])
  BY <1>1, GroupFits DEF ArrowTypes, Files
<1>3. DOMAIN work = DOMAIN reader /\ DOMAIN at = DOMAIN reader /\ DOMAIN out = DOMAIN reader
  BY <1>1 DEF ArrowTypes
<1>4. ASSUME NEW p \in DOMAIN reader
      PROVE  /\ \E S : out[p] \in Seq(S)
             /\ \E S : work[p] \in Seq(S)
             /\ at[p].batches \in Nat
             /\ reader[p] \in Busy => work[p] # <<>> /\ Head(work[p]).file \in DOMAIN group
  <2>1. p \in Partitions
    BY <1>4 DEF Partitions
  <2>2. /\ out[p] \in Seq(Offers) /\ work[p] \in Seq(FileRanges) /\ at[p] \in Counters
        /\ reader[p] \in Busy => work[p] # <<>> /\ File(p) \in Files
    BY <2>1, Standing
  <2> QED BY <2>2 DEF File, Task, Files, Counters
<1> QED BY <1>2, <1>3, <1>4 DEF ScanTyped

(* A step of a partition keeps what was delivered right. *)
LEMMA MovesFit ==
  ASSUME ArrowInv, ScanStands, NEW p \in Partitions, OnlyMoves(p), IsMove(p)
  PROVE  ScanStands'
<1>1. PICK g, w, r, a, o : g = group /\ w = work /\ r = reader /\ a = at /\ o = out
  OBVIOUS
<1>2. PICK v, s, b, c : v = work' /\ s = reader' /\ b = at' /\ c = out'
  OBVIOUS
<1>3. ScanFits(g, w, r, a, o) /\ ScanTyped(g, w, r, a, o) /\ p \in DOMAIN r
  BY <1>1, ScanTypes DEF ScanStands, Partitions
<1>4. group' = g /\ s = [r EXCEPT ![p] = s[p]] /\ b = [a EXCEPT ![p] = b[p]]
  BY <1>1, <1>2 DEF OnlyMoves
<1>5. CASE IsQuiet(p)
  <2>1. v = w /\ c = o
        /\ \/ r[p] \in Busy /\ s[p] \in Busy /\ b[p].batches = a[p].batches
           \/ s[p] \in Ended
    BY <1>1, <1>2, <1>5 DEF IsQuiet
  <2>2. ScanFits(g, w, s, b, o)
    BY ONLY <1>3, <1>4, <2>1, QuietFits
  <2> QED BY <1>2, <1>4, <2>1, <2>2 DEF ScanStands
<1>6. CASE IsStart(p)
  <2>1. v = w /\ c = o /\ r[p] = "next" /\ s[p] \in Busy /\ b[p].batches = 0
    BY <1>1, <1>2, <1>6 DEF IsStart
  <2>2. ScanFits(g, w, s, b, o)
    BY ONLY <1>3, <1>4, <2>1, StartFits
  <2> QED BY <1>2, <1>4, <2>1, <2>2 DEF ScanStands
<1>7. CASE \E i \in DOMAIN Source(p).batches : IsDelivery(p, i)
  <2>1. PICK i \in DOMAIN Source(p).batches : IsDelivery(p, i)
    BY <1>7
  <2>2. /\ Source(p) = g[Head(w[p]).file] /\ Task(p) = Head(w[p]) /\ File(p) = Head(w[p]).file
    BY <1>1 DEF Source, File, Task
  <2>3. /\ r[p] \in Busy /\ s[p] \in Busy /\ b[p].batches = a[p].batches + 1
        /\ i \in DOMAIN g[Head(w[p]).file].batches
        /\ IsTurn(g[Head(w[p]).file], Head(w[p]), a[p].batches + 1, i)
        /\ Belongs(g, <<Head(w[p]).file, i>>, Head(w[p]))
        /\ v = w /\ c = [o EXCEPT ![p] = Append(o[p], <<Head(w[p]).file, i>>)]
    BY <1>1, <1>2, <2>1, <2>2 DEF IsDelivery
  <2>4. ScanFits(g, w, s, b, c)
    BY ONLY <1>3, <1>4, <2>3, TurnFits
  <2> QED BY <1>2, <1>4, <2>3, <2>4 DEF ScanStands
<1>8. CASE IsEnd(p)
  <2>1. Source(p) = g[Head(w[p]).file] /\ Task(p) = Head(w[p])
    BY <1>1 DEF Source, File, Task
  <2>2. s[p] = "next" /\ r[p] \in Busy /\ v = [w EXCEPT ![p] = Tail(w[p])] /\ c = o
        /\ LayoutValid(g[Head(w[p]).file])
        /\ \A d \in BatchesOf(g) : Belongs(g, d, Head(w[p])) => ReadOf(g, w, a, p, d)
    BY <1>1, <1>2, <1>8, <2>1 DEF IsEnd
  <2>3. s = [r EXCEPT ![p] = "next"]
    BY <1>4, <2>2
  <2>4. ScanFits(g, v, s, a, o)
    BY ONLY <1>3, <2>2, <2>3, EndFits
  <2>5. b = a
    <3>1. b = at' /\ a = at /\ at' = at
      BY <1>1, <1>2, <1>8 DEF IsEnd
    <3> QED BY <3>1
  <2> QED BY <1>2, <1>4, <2>2, <2>4, <2>5 DEF ScanStands
<1> QED BY <1>5, <1>6, <1>7, <1>8 DEF IsMove

(* Where partition p waits for a chunk or is done after its step. *)
LEMMA StandMoves ==
  ASSUME ArrowInv, NEW p \in Partitions, Step(p) \/ Drop(p), UNCHANGED plannedVars,
         reader'[p] \in {"stream", "done"}
  PROVE  \/ Open(p) /\ reader'[p] = "stream"
         \/ /\ DecodeChunk(p) /\ reader'[p] = "stream" /\ UNCHANGED <<work, at>>
            /\ HasMore(p) => ~(End(NextBatch(p)) <= at[p].bytes)
         \/ Exhausted(p) /\ reader'[p] = "done"
<1>1. reader \in [Partitions -> ReaderPlaces]
  BY DEF ArrowInv, ArrowTypes
<1>2. \A x : Goto(p, x) => reader'[p] = x
  BY <1>1 DEF Goto
<1>3. ~FailStream(p) /\ ~Drop(p) /\ ~Leave(p, "next")
  BY <1>2 DEF FailStream, Drop, Leave
<1>4. ~OpenFails(p) /\ ~LayoutFails(p) /\ ~ReadFails(p)
  BY <1>3 DEF OpenFails, LayoutFails, ReadFails
<1>5. ~FillLayout(p) /\ ~LayoutFilled(p) /\ ~LayoutReady(p) /\ ~Polled(p)
  BY <1>2, <1>3 DEF FillLayout, LayoutFilled, LayoutReady, Polled
<1>6. ~ReadDictionary(p)
  BY <1>1, <1>3 DEF ReadDictionary
<1>7. ~ReadBlock(p) /\ ~DecodeBlock(p) /\ ~ReadChunk(p)
  BY <1>2, <1>3 DEF ReadBlock, DecodeBlock, ReadChunk
<1>8. ~EndFile(p) /\ ~EndStream(p)
  BY <1>2, <1>3 DEF EndFile, EndStream
<1>9. CASE Open(p)
  BY <1>2, <1>9 DEF Open
<1>10. CASE Exhausted(p)
  BY <1>2, <1>10 DEF Exhausted
<1>11. CASE DecodeChunk(p)
  BY <1>2, <1>3, <1>11 DEF DecodeChunk
<1> QED BY <1>3, <1>4, <1>5, <1>6, <1>7, <1>8, <1>9, <1>10, <1>11 DEF Step

(* The readers stand after a step. *)
LEMMA StandKeeps ==
  ASSUME ArrowInv, ArrowInv', ReadersStand, NEW p \in Partitions, Step(p) \/ Drop(p),
         UNCHANGED plannedVars, OnlyMoves(p), IsMove(p)
  PROVE  ReadersStand'
<1>1. group' = group /\ Partitions' = Partitions
      /\ \A q \in Partitions \ {p} : reader'[q] = reader[q] /\ at'[q] = at[q] /\ work'[q] = work[q]
  <2>1. reader \in [Partitions -> ReaderPlaces] /\ at \in [Partitions -> Counters]
        /\ work \in [Partitions -> Seq(FileRanges)]
    BY DEF ArrowInv, ArrowTypes
  <2>2. work' = work \/ work' = [work EXCEPT ![p] = Tail(work[p])]
    BY DEF IsMove, IsQuiet, IsStart, IsDelivery, IsEnd
  <2>3. reader' = [reader EXCEPT ![p] = reader'[p]] /\ at' = [at EXCEPT ![p] = at'[p]]
        /\ group' = group
    BY DEF OnlyMoves
  <2>4. Partitions' = Partitions
    BY <2>3 DEF Partitions
  <2> QED BY <2>1, <2>2, <2>3, <2>4
<1>2. \A q \in Partitions \ {p} : (HasMore(q)' <=> HasMore(q)) /\ NextBatch(q)' = NextBatch(q)
  BY <1>1 DEF HasMore, NextBatch, Source, File, Task
<1>3. ASSUME reader'[p] = "stream", HasMore(p)'
      PROVE  at'[p].bytes < End(NextBatch(p))'
  <2>1. IsObject(Source(p))' /\ (at[p] \in Counters)'
    <3>1. (ArrowInv /\ p \in Partitions =>
             at[p] \in Counters /\ (reader[p] \in Busy => IsObject(Source(p))))'
      BY Standing, PTL
    <3>2. p \in Partitions' /\ reader'[p] \in Busy
      BY <1>1, <1>3 DEF Busy
    <3> QED BY <3>1, <3>2 DEF Busy
  <2>2. PICK o, a : o = Source(p)' /\ a = at'[p] /\ IsObject(o) /\ a \in Counters
                    /\ HasNext(o, a) /\ NextEnd(o, a) = End(NextBatch(p))'
    BY <1>3, <2>1 DEF HasMore, HasNext, NextEnd, NextBatch
  <2>3. NextEnd(o, a) \in Nat \ {0}
    BY <2>2, NextIs
  <2>4. CASE Open(p)
    <3>1. a = AtStart
      BY <2>2, <2>4 DEF Open, ArrowInv, ArrowTypes
    <3> QED BY <2>2, <2>3, <3>1 DEF AtStart
  <2>5. CASE /\ UNCHANGED <<work, at>>
             /\ HasMore(p) => ~(End(NextBatch(p)) <= at[p].bytes)
    <3>1. (HasMore(p)' <=> HasMore(p)) /\ End(NextBatch(p))' = End(NextBatch(p))
      BY <1>1, <2>5 DEF HasMore, NextBatch, Source, File, Task
    <3>2. ~(NextEnd(o, a) <= a.bytes) /\ a.bytes \in Nat
      BY <1>3, <2>2, <2>5, <3>1 DEF Counters
    <3> QED BY <2>2, <2>3, <3>2
  <2> QED BY <1>3, <2>4, <2>5, StandMoves
<1>4. ASSUME reader'[p] = "done"
      PROVE  work'[p] = <<>>
  BY <1>4, StandMoves DEF Exhausted
<1> QED BY <1>1, <1>2, <1>3, <1>4 DEF ReadersStand

(* A layout that becomes ready is valid. *)
LEMMA CellsKeep ==
  ASSUME ArrowInv, CellsValid, NEW p \in Partitions, Step(p) \/ Drop(p), UNCHANGED plannedVars
  PROVE  CellsValid'
<1>1. group' = group /\ Files' = Files
      /\ cell \in [Files -> {"empty", "filling", "ready"}]
  BY DEF plannedVars, Files, ArrowInv, ArrowTypes
<1>2. ASSUME \A f \in Files : cell'[f] = "ready" => cell[f] = "ready" \/ LayoutValid(group[f])
      PROVE  CellsValid'
  BY <1>1, <1>2 DEF CellsValid
<1>3. CASE cell' = cell
  BY <1>2, <1>3
<1>4. CASE \E x : Leave(p, x)
  <2>1. cell' = cell \/ cell' = AfterLease(p, File(p))
    BY <1>4 DEF Leave, LetGo, layoutVars
  <2>2. \A f \in Files : cell'[f] \in {cell[f], "empty"}
    BY <1>1, <2>1 DEF AfterLease
  <2> QED BY <1>2, <2>2
<1>5. CASE FillLayout(p)
  <2>1. CASE FailStream(p)
    BY <1>4, <2>1 DEF FailStream
  <2>2. CASE ~FailStream(p)
    <3>1. cell' = [cell EXCEPT ![File(p)] = "filling"]
      BY <1>5, <2>2 DEF FillLayout
    <3>2. \A f \in Files : cell'[f] \in {cell[f], "filling"}
      BY <1>1, <3>1
    <3> QED BY <1>2, <3>2
  <2> QED BY <2>1, <2>2
<1>6. CASE LayoutFilled(p)
  <2>1. cell' = [cell EXCEPT ![File(p)] = "ready"] /\ LayoutValid(group[File(p)])
    BY <1>6 DEF LayoutFilled, Source
  <2>2. \A f \in Files : cell'[f] = cell[f] \/ f = File(p)
    BY <1>1, <2>1
  <2> QED BY <1>2, <2>1, <2>2
<1>7. CASE OpenFails(p) \/ LayoutFails(p) \/ ReadFails(p) \/ Drop(p) \/ EndFile(p)
  BY <1>4, <1>7 DEF OpenFails, LayoutFails, ReadFails, Drop, EndFile, FailStream
<1>8. CASE Open(p) \/ Polled(p) \/ Exhausted(p)
  BY <1>3, <1>8 DEF Open, Polled, Exhausted, layoutVars
<1>9. CASE LayoutReady(p) \/ ReadDictionary(p) \/ ReadBlock(p) \/ DecodeBlock(p)
           \/ ReadChunk(p) \/ DecodeChunk(p) \/ EndStream(p)
  <2>1. FailStream(p) \/ cell' = cell \/ \E x : Leave(p, x)
    BY <1>9 DEF LayoutReady, ReadDictionary, ReadBlock, DecodeBlock, ReadChunk, DecodeChunk,
         EndStream, layoutVars
  <2> QED BY <1>3, <1>4, <2>1 DEF FailStream
<1> QED BY <1>5, <1>6, <1>7, <1>8, <1>9 DEF Step

-----------------------------------------------------------------------------
(* The invariant of the scan *)

(* What was told of the objects before the scan. *)
WasInspected(f, count) ==
  inspected = [file |-> f, found |-> Inspected(group[f], count)]
IsTold ==
  /\ stats \in {Unknown, Statistics}
  /\ inspected = Unknown \/ \E f \in Files, count \in BOOLEAN : WasInspected(f, count)

ScanInv ==
  /\ ArrowInv /\ BlocksFit /\ ReadersStand /\ CellsValid /\ IsTold
  /\ stage = "scan" => ScanStands
  /\ stage # "scan" => Partitions = {}

(* Initially. *)
LEMMA ScanStarts ==
  ASSUME ArrowInit
  PROVE  ScanInv
<1>1. ArrowInv /\ BlocksFit
  BY ArrowStarts, BlocksStart
<1>2. Partitions = {} /\ stage # "scan" /\ stats = Unknown /\ inspected = Unknown
  BY DEF ArrowInit, Partitions
<1>3. \A f \in Files : cell[f] # "ready"
  BY DEF ArrowInit
<1>4. ReadersStand
  BY <1>2 DEF ReadersStand
<1> QED BY <1>1, <1>2, <1>3, <1>4 DEF ScanInv, CellsValid, IsTold

(* What is told depends on the objects only. *)
LEMMA TellsTheSame ==
  ASSUME group' = group
  PROVE  /\ Files' = Files /\ Statistics' = Statistics
         /\ UNCHANGED <<stats, inspected>> /\ IsTold => IsTold'
<1>1. Files' = Files
  BY DEF Files
<1>2. Sampled' = Sampled
  BY <1>1 DEF Sampled, Representative, LargestFile
<1>3. Selected' = Selected
  BY <1>1 DEF Selected
<1>4. Exact' = Exact
  BY <1>2 DEF Exact
<1>5. Statistics' = Statistics
  BY <1>2, <1>3, <1>4 DEF Statistics, Estimate
<1>6. ASSUME UNCHANGED <<stats, inspected>>, IsTold PROVE IsTold'
  BY <1>1, <1>5, <1>6 DEF IsTold, WasInspected
<1> QED BY <1>1, <1>5, <1>6

(* Steps before the plan. *)
LEMMA ApartStands ==
  ASSUME ScanInv, (ArrowInv /\ BlocksFit)', UNCHANGED <<group, target, streamVars, layoutVars>>, IsTold',
         stage' = stage \/ (stage # "scan" /\ stage' # "scan")
  PROVE  ScanInv'
<1>1. /\ group' = group /\ work' = work /\ reader' = reader /\ at' = at /\ out' = out
      /\ cell' = cell
  BY DEF streamVars, layoutVars
<1>2. Partitions' = Partitions /\ Files' = Files
  BY <1>1 DEF Partitions, Files
<1>3. ReadersStand'
  BY <1>1, <1>2 DEF ScanInv, ReadersStand, HasMore, NextBatch, Source, File, Task
<1>4. CellsValid'
  BY <1>1, <1>2 DEF ScanInv, CellsValid
<1>5. stage' = "scan" => ScanStands'
  BY <1>1 DEF ScanInv, ScanStands
<1> QED BY <1>2, <1>3, <1>4, <1>5 DEF ScanInv

(* The plan. *)
LEMMA PlanStands ==
  ASSUME ScanInv, (ArrowInv /\ BlocksFit)', Plan
  PROVE  ScanInv'
<1>1. PICK w : w = work' /\ Divides(w)
  <2>1. PICK w : w = work' /\ w \in {OneGroup, Repartitioned}
    BY DEF Plan
  <2> QED BY <2>1, PlanDivides DEF ScanInv, ArrowInv, ArrowTypes
<1>2. PICK r, a, o : r = reader' /\ a = at' /\ o = out'
  OBVIOUS
<1>3. /\ DOMAIN r = DOMAIN w /\ DOMAIN o = DOMAIN w
      /\ \A p \in DOMAIN w : r[p] = "next" /\ o[p] = <<>>
      /\ group' = group /\ stage' = "scan" /\ cell' = [f \in Files |-> "empty"]
      /\ UNCHANGED <<stats, inspected>>
  BY <1>1, <1>2 DEF Plan
<1>4. ScanStands'
  <2>1. ScanFits(group, w, r, a, o)
    BY <1>1, <1>3, BeginFits
  <2> QED BY <1>1, <1>2, <1>3, <2>1 DEF ScanStands
<1>5. ReadersStand'
  <2>1. \A p \in Partitions' : reader'[p] = "next"
    BY <1>2, <1>3 DEF Partitions
  <2> QED BY <2>1 DEF ReadersStand
<1>6. CellsValid'
  <2>1. \A f \in Files' : cell'[f] # "ready"
    BY <1>3 DEF Files
  <2> QED BY <2>1 DEF CellsValid
<1>7. IsTold'
  BY <1>3, TellsTheSame DEF ScanInv
<1> QED BY <1>3, <1>4, <1>5, <1>6, <1>7 DEF ScanInv

(* The steps of a partition. *)
LEMMA StepStands ==
  ASSUME ScanInv, (ArrowInv /\ BlocksFit)', NEW p \in Partitions, Step(p) \/ Drop(p), UNCHANGED plannedVars
  PROVE  ScanInv'
<1>1. /\ ArrowInv /\ BlocksFit /\ ReadersStand /\ CellsValid /\ IsTold
      /\ ScanStands /\ stage = "scan"
  BY DEF ScanInv
<1>2. OnlyMoves(p) /\ IsMove(p)
  BY <1>1, StepMoves
<1>3. ScanStands' /\ ReadersStand' /\ CellsValid'
  BY <1>1, <1>2, MovesFit, StandKeeps, CellsKeep
<1>4. stage' = stage /\ group' = group /\ UNCHANGED <<stats, inspected>>
  BY DEF plannedVars
<1>5. IsTold'
  BY <1>1, <1>4, TellsTheSame
<1> QED BY <1>1, <1>3, <1>4, <1>5 DEF ScanInv

(* Every step. *)
LEMMA ScanKeeps ==
  ASSUME ScanInv, [ArrowNext]_arrowVars
  PROVE  ScanInv'
<1>1. (ArrowInv /\ BlocksFit)'
  BY ArrowKeeps, BlocksKeep DEF ScanInv
<1>2. CASE \E f \in Files, count \in BOOLEAN : Inspect(f, count)
  <2>1. PICK f \in Files, count \in BOOLEAN : Inspect(f, count)
    BY <1>2
  <2>2. /\ UNCHANGED <<group, target, streamVars, layoutVars>> /\ stage' = stage /\ stats' = stats
        /\ inspected' = [file |-> f, found |-> Inspected(group[f], count)]
    BY <2>1 DEF Inspect
  <2>3. IsTold'
    <3>1. Files' = Files /\ Statistics' = Statistics /\ group' = group
      BY <2>2, TellsTheSame
    <3>2. WasInspected(f, count)'
      BY <2>2, <3>1 DEF WasInspected
    <3> QED BY <2>2, <3>1, <3>2 DEF IsTold, ScanInv
  <2> QED BY <1>1, <2>2, <2>3, ApartStands
<1>3. CASE InferSchema
  <2>1. /\ UNCHANGED <<group, target, streamVars, layoutVars>> /\ UNCHANGED <<stats, inspected>>
        /\ stage # "scan" /\ stage' # "scan"
    BY <1>3 DEF InferSchema, GoOn
  <2> QED BY <1>1, <2>1, TellsTheSame, ApartStands DEF ScanInv
<1>4. CASE SampleStatistics
  <2>1. /\ UNCHANGED <<group, target, streamVars, layoutVars>> /\ UNCHANGED inspected
        /\ stage # "scan" /\ stage' # "scan" /\ stats' \in {stats, Statistics}
    BY <1>4 DEF SampleStatistics, GoOn
  <2>2. IsTold'
    <3>1. Files' = Files /\ Statistics' = Statistics /\ group' = group
      BY <2>1, TellsTheSame
    <3> QED BY <2>1, <3>1 DEF IsTold, WasInspected, ScanInv
  <2> QED BY <1>1, <2>1, <2>2, ApartStands
<1>5. CASE Plan
  BY <1>1, <1>5, PlanStands
<1>6. CASE \E p \in Partitions : (Step(p) \/ Drop(p)) /\ UNCHANGED plannedVars
  BY <1>1, <1>6, StepStands
<1>7. CASE Over \/ UNCHANGED arrowVars
  <2>1. UNCHANGED <<group, target, streamVars, layoutVars>> /\ UNCHANGED <<stage, stats, inspected>>
    BY <1>7 DEF Over, arrowVars, plannedVars
  <2> QED BY <1>1, <2>1, TellsTheSame, ApartStands DEF ScanInv
<1> QED BY <1>2, <1>3, <1>4, <1>5, <1>6, <1>7 DEF ArrowNext

-----------------------------------------------------------------------------
(* What is delivered *)

(* As many were delivered as are in the sequences. *)
LEMMA OffersCounted ==
  ASSUME ArrowTypes, OffersApart(group, out)
  PROVE  SumOf([p \in Partitions |-> Len(out[p])]) = Cardinality(Delivered)
<1>1. PICK f : f = [p \in Partitions |-> Len(out[p])]
  OBVIOUS
<1>2. /\ DOMAIN f = Partitions /\ IsFiniteSet(DOMAIN f) /\ DOMAIN out = Partitions
      /\ \A p \in Partitions : f[p] \in Nat /\ DOMAIN out[p] = 1..f[p]
  BY <1>1 DEF ArrowTypes
<1>3. SumOf(f) = Cardinality(Cells(Partitions, f)) /\ IsFiniteSet(Cells(Partitions, f))
  BY <1>2, SumIsCells, CellsFinite
<1>4. PICK h : h = [x \in Cells(Partitions, f) |-> out[x[1]][x[2]]]
  OBVIOUS
<1>5. \A x \in Cells(Partitions, f) :
        x = <<x[1], x[2]>> /\ x[1] \in Partitions /\ x[2] \in DOMAIN out[x[1]]
  BY <1>2, CellIs
<1>6. h \in [Cells(Partitions, f) -> Delivered]
  BY <1>4, <1>5 DEF Delivered, Range
<1>7. \A x, y \in Cells(Partitions, f) : h[x] = h[y] => x = y
  <2>1. SUFFICES ASSUME NEW x \in Cells(Partitions, f), NEW y \in Cells(Partitions, f), h[x] = h[y]
                 PROVE  x = y
    OBVIOUS
  <2>2. x[1] = y[1] /\ x[2] = y[2]
    BY <1>2, <1>4, <1>5, <2>1 DEF OffersApart
  <2> QED BY <1>5, <2>2
<1>8. \A d \in Delivered : \E x \in Cells(Partitions, f) : h[x] = d
  <2>1. SUFFICES ASSUME NEW d \in Delivered PROVE \E x \in Cells(Partitions, f) : h[x] = d
    OBVIOUS
  <2>2. PICK p \in Partitions : \E m \in DOMAIN out[p] : out[p][m] = d
    BY DEF Delivered, Range
  <2>3. PICK m \in DOMAIN out[p] : out[p][m] = d
    BY <2>2
  <2>4. PICK x : x = <<p, m>>
    OBVIOUS
  <2>5. x \in Cells(Partitions, f) /\ x[1] = p /\ x[2] = m
    BY <1>2, <2>3, <2>4, CellIs
  <2> QED BY <1>4, <2>3, <2>5
<1>9. Cardinality(Delivered) = Cardinality(Cells(Partitions, f))
  BY <1>3, <1>6, <1>7, <1>8, SameCount
<1> QED BY <1>1, <1>3, <1>9

(* When all are done everything has been delivered. *)
LEMMA AllDelivered ==
  ASSUME ScanInv, stage = "scan", \A p \in Partitions : reader[p] = "done"
  PROVE  Delivered = AllBatches /\ \A f \in Files : LayoutValid(group[f])
<1>1. ArrowTypes /\ ScanFits(group, work, reader, at, out)
  BY DEF ScanInv, ScanStands, ArrowInv
<1>2. DOMAIN work = Partitions /\ DOMAIN out = Partitions /\ \A p \in Partitions : work[p] = <<>>
  BY <1>1 DEF ScanInv, ReadersStand, ArrowTypes
<1>3. \A f : ~StillToRead(work, f)
  BY <1>2 DEF StillToRead
<1>4. \A d : ~Remains(group, work, d)
  BY <1>2 DEF Remains
<1>5. \A f \in Files : LayoutValid(group[f])
  BY <1>1, <1>3 DEF ScanFits, NothingLost, Files
<1>6. \A d \in AllBatches : Offer(out, d)
  <2>1. \A d \in BatchesOf(group) : d[1] \in Files
    BY BatchOf DEF Files
  <2> QED BY <1>1, <1>4, <1>5, <2>1, BatchesAre DEF ScanFits, NothingLost
<1>7. AllBatches \subseteq Delivered
  BY <1>2, <1>6 DEF Offer, Delivered, Range
<1>8. Delivered \subseteq AllBatches
  BY <1>1, <1>2, BatchesAre DEF ScanFits, OffersApart, Delivered, Range
<1> QED BY <1>5, <1>7, <1>8

(* Rows are numbers. *)
LEMMA RowsNumber ==
  ASSUME NEW s, NEW n \in Nat, DOMAIN s = 1..n, \A i \in 1..n : s[i].rows \in Nat
  PROVE  RowsOf(s) \in Nat
<1>1. PICK f : f = [i \in DOMAIN s |-> s[i].rows]
  OBVIOUS
<1>2. IsFiniteSet(1..n)
  <2>1. 1 \in Int /\ n \in Int
    OBVIOUS
  <2> QED BY <2>1, FS_Interval
<1>3. DOMAIN f = 1..n /\ \A i \in DOMAIN f : f[i] \in Nat
  BY <1>1
<1>4. SumOf(f) \in Nat
  BY <1>2, <1>3, SumIsNumber
<1> QED BY <1>1, <1>4, Zenon DEF RowsOf

(* A sample that reached the end of an object that is whole is all of it. *)
LEMMA SampleIsWhole ==
  ASSUME NEW o, IsObject(o), LayoutValid(o), ReachedEnd(o)
  PROVE  SampledBatches(o) = o.batches
<1>1. PICK b, l : b = o.batches /\ l = Len(b)
  OBVIOUS
<1>2. /\ l \in Nat /\ DOMAIN b = 1..l /\ b \in Seq(Range(b)) /\ o.size \in Nat
      /\ \A i \in 1..l : b[i].rows \in Nat /\ End(b[i]) \in Nat
  BY <1>1, BatchNumbers DEF IsObject
<1>3. PICK E : E = {n \in 1..l : RowsOf(SubSeq(b, 1, n)) >= SampleRows}
  OBVIOUS
<1>4. SampledBatches(o) = IF E = {} THEN b ELSE SubSeq(b, 1, Min(E))
  BY <1>1, <1>3 DEF SampledBatches
<1>5. CASE E = {}
  BY <1>1, <1>4, <1>5
<1>6. CASE E # {}
  <2>1. PICK m : m = Min(E)
    OBVIOUS
  <2>2. m \in E
    <3>1. E \subseteq Nat
      BY <1>3
    <3>2. \E x \in E : \A y \in E : x <= y
      BY <1>6, <3>1, LeastNumber
    <3> QED BY <2>1, <3>2 DEF Min
  <2>3. m \in 1..l /\ RowsOf(SubSeq(b, 1, m)) >= SampleRows
    BY <1>3, <2>2
  <2>4. PICK s : s = SubSeq(b, 1, m)
    OBVIOUS
  <2>5. SampledBatches(o) = s
    BY <1>4, <1>6, <2>1, <2>4
  <2>6. Len(s) = m /\ DOMAIN s = 1..m /\ m \in Nat /\ \A i \in 1..m : s[i] = b[i]
    <3>1. 1..m \subseteq 1..l /\ m \in Nat
      BY <1>2, <2>3
    <3> QED BY <1>2, <2>3, <2>4, <3>1
  <2>7. \A i \in 1..m : s[i].rows \in Nat
    <3>1. 1..m \subseteq 1..l
      BY <1>2, <2>3
    <3> QED BY <1>2, <2>6, <3>1
  <2>8. RowsOf(s) \in Nat /\ SampleRows \in Nat
    BY <2>6, <2>7, RowsNumber, ArrowInputAssumption
  <2>9. ~(RowsOf(s) < SampleRows)
    BY <2>3, <2>4, <2>8
  <2>10. IF o.variant = "file" THEN m = l ELSE End(b[m]) = o.size
    BY <1>1, <2>5, <2>6, <2>9 DEF ReachedEnd
  <2>11. m = l
    <3>1. CASE o.variant = "file"
      BY <2>10, <3>1
    <3>2. CASE o.variant # "file"
      <4>1. SUFFICES ASSUME m # l PROVE FALSE
        OBVIOUS
      <4>2. m + 1 \in 1..l /\ m < m + 1
        BY <1>2, <2>3, <4>1
      <4>3. o.variant = "stream"
        BY <3>2 DEF IsObject
      <4>4. End(b[m]) < End(b[m + 1])
        BY <1>1, <2>3, <4>2, <4>3, BatchNumbers
      <4>5. b[m + 1] \in Blocks(o)
        BY <1>1, <1>2, <4>2 DEF Blocks, Range
      <4>6. End(b[m + 1]) <= o.size /\ End(b[m + 1]) \in Nat
        BY <1>2, <4>2, <4>5 DEF LayoutValid
      <4> QED BY <1>2, <2>10, <3>2, <4>4, <4>6
    <3> QED BY <3>1, <3>2
  <2>12. s = b
    <3>1. Len(s) = Len(b) /\ DOMAIN s = DOMAIN b /\ \A i \in 1..Len(b) : s[i] = b[i]
      BY <1>1, <1>2, <2>6, <2>11
    <3>2. s \in Seq(Range(b))
      BY <1>2, <2>3, <2>4
    <3> QED BY <1>2, <3>1, <3>2
  <2> QED BY <1>1, <2>5, <2>12
<1> QED BY <1>5, <1>6

(* The rows that are delivered of a single object are its rows. *)
LEMMA RowsOfOne ==
  ASSUME group \in Groups, Len(group) = 1, Delivered = AllBatches
  PROVE  RowsDelivered = RowsOf(group[1].batches) /\ Files = {1}
<1>1. Files = 1..1 /\ 1..1 = {1}
  BY GroupFits
<1>2. PICK o, b : o = group[1] /\ b = o.batches /\ IsObject(o)
  BY <1>1, GroupFits
<1>3. AllBatches = {1} \X DOMAIN b
  BY <1>1, <1>2 DEF AllBatches
<1>4. PICK f : f = [i \in DOMAIN b |-> b[i].rows]
  OBVIOUS
<1>5. PICK g : g = [d \in Delivered |-> group[d[1]].batches[d[2]].rows]
  OBVIOUS
<1>6. PICK h : h = [i \in DOMAIN b |-> <<1, i>>]
  OBVIOUS
<1>7. /\ DOMAIN f = DOMAIN b /\ IsFiniteSet(DOMAIN f)
      /\ \A i \in DOMAIN b : f[i] \in Nat /\ f[i] = b[i].rows
  <2>1. Len(b) \in Nat /\ DOMAIN b = 1..Len(b) /\ \A i \in 1..Len(b) : b[i].rows \in Nat
    BY <1>2, BatchNumbers
  <2>2. IsFiniteSet(1..Len(b))
    <3>1. 1 \in Int /\ Len(b) \in Int
      BY <2>1
    <3> QED BY <3>1, FS_Interval
  <2> QED BY <1>4, <2>1, <2>2
<1>8. DOMAIN g = {1} \X DOMAIN b /\ \A i \in DOMAIN b : g[<<1, i>>] = b[i].rows
  BY <1>2, <1>3, <1>5
<1>9. h \in [DOMAIN f -> DOMAIN g] /\ \A i \in DOMAIN f : h[i] = <<1, i>>
  BY <1>6, <1>7, <1>8
<1>10. \A i, j \in DOMAIN f : h[i] = h[j] => i = j
  BY <1>9
<1>11. \A t \in DOMAIN g : \E i \in DOMAIN f : h[i] = t
  BY <1>7, <1>8, <1>9
<1>12. \A i \in DOMAIN f : f[i] \in Nat /\ g[h[i]] = f[i]
  BY <1>7, <1>8, <1>9
<1>13. SumOf(g) = SumOf(f)
  BY <1>7, <1>9, <1>10, <1>11, <1>12, SumRenamed
<1>14. RowsDelivered = SumOf(g)
  BY <1>5, Zenon DEF RowsDelivered
<1>15. RowsOf(b) = SumOf(f)
  BY <1>4, Zenon DEF RowsOf
<1> QED BY <1>1, <1>2, <1>13, <1>14, <1>15

(* Statistics that call themselves exact are. *)
LEMMA ExactIsExact ==
  ASSUME group \in Groups, \A f \in Files : LayoutValid(group[f]), Delivered = AllBatches,
         Statistics # Unknown, Statistics.exact
  PROVE  Statistics.rows = RowsDelivered
<1>1. PICK rows : rows = RowsOf(SampledBatches(Sampled))
  OBVIOUS
<1>2. Statistics = [exact |-> Exact, rows |-> Estimate(rows)]
  BY <1>1 DEF Statistics
<1>3. Exact /\ Statistics.rows = rows
  BY <1>2 DEF Estimate
<1>4. Len(group) = 1 /\ ReachedEnd(Sampled)
  BY <1>3 DEF Exact
<1>5. RowsDelivered = RowsOf(group[1].batches) /\ Files = {1}
  BY <1>4, RowsOfOne
<1>6. Representative \in Files
  BY <1>5, LargestIs DEF Representative
<1>7. Sampled = group[1] /\ IsObject(group[1]) /\ LayoutValid(group[1])
  BY <1>5, <1>6, GroupFits DEF Sampled
<1>8. SampledBatches(Sampled) = group[1].batches
  BY <1>4, <1>7, SampleIsWhole
<1> QED BY <1>1, <1>3, <1>5, <1>8

(* What an inspection told of a single object. *)
LEMMA InspectionIsTrue ==
  ASSUME group \in Groups, Delivered = AllBatches, Len(group) = 1,
         NEW f \in Files, NEW count \in BOOLEAN, WasInspected(f, count)
  PROVE  inspected.found.rows \in {Unknown, RowsDelivered}
<1>1. RowsDelivered = RowsOf(group[1].batches) /\ Files = {1}
  BY RowsOfOne
<1>2. f = 1
  BY <1>1
<1>3. inspected.found.rows = IF count THEN RowsOf(group[1].batches) ELSE Unknown
  BY <1>2 DEF WasInspected, Inspected
<1> QED BY <1>1, <1>3

(* The invariant says what is delivered. *)
LEMMA ScanIsExact ==
  ASSUME ScanInv
  PROVE  ScanExact
<1>1. ArrowTypes /\ group \in Groups
  BY DEF ScanInv, ArrowInv, ArrowTypes
<1>2. OffersApart(group, out)
  <2>1. CASE stage = "scan"
    BY <2>1 DEF ScanInv, ScanStands, ScanFits
  <2>2. CASE stage # "scan"
    <3>1. DOMAIN out = {}
      BY <1>1, <2>2 DEF ScanInv, ArrowTypes
    <3> QED BY <3>1 DEF OffersApart
  <2> QED BY <2>1, <2>2
<1>3. SumOf([p \in Partitions |-> Len(out[p])]) = Cardinality(Delivered)
  BY <1>1, <1>2, OffersCounted
<1>4. ASSUME stage = "scan", \A p \in Partitions : reader[p] = "done"
      PROVE  /\ Delivered = AllBatches
             /\ stats # Unknown => (stats.exact => stats.rows = RowsDelivered)
             /\ inspected # Unknown /\ Len(group) = 1 =>
                  inspected.found.rows \in {Unknown, RowsDelivered}
  <2>1. Delivered = AllBatches /\ \A f \in Files : LayoutValid(group[f])
    BY <1>4, AllDelivered
  <2>2. ASSUME stats # Unknown, stats.exact PROVE stats.rows = RowsDelivered
    <3>1. stats = Statistics
      BY <2>2 DEF ScanInv, IsTold
    <3> QED BY <1>1, <2>1, <2>2, <3>1, ExactIsExact
  <2>3. ASSUME inspected # Unknown, Len(group) = 1
        PROVE  inspected.found.rows \in {Unknown, RowsDelivered}
    <3>1. PICK f \in Files, count \in BOOLEAN : WasInspected(f, count)
      BY <2>3 DEF ScanInv, IsTold
    <3> QED BY <1>1, <2>1, <2>3, <3>1, InspectionIsTrue
  <2> QED BY <2>1, <2>2, <2>3
<1> QED BY <1>3, <1>4 DEF ScanExact

(* However the files of an Arrow input are divided among partitions, by ranges
   of bytes or whole, and whoever fails or is dropped, no batch is delivered
   twice; when all partitions are done every batch was delivered, as many rows
   as exact statistics and an inspection told before. *)
THEOREM ScanIsComplete == ArrowSpec => []ScanExact
<1>1. ArrowInit => ScanInv
  BY ScanStarts
<1>2. ScanInv /\ [ArrowNext]_arrowVars => ScanInv'
  BY ScanKeeps
<1>3. ScanInv => ScanExact
  BY ScanIsExact
<1> QED BY <1>1, <1>2, <1>3, PTL DEF ArrowSpec
=============================================================================
