--------------------------- MODULE StorageSession ---------------------------
(***************************************************************************)
(* The storage session of one command (silk-chiffon-storage): backends are *)
(* registered and checked, then the session routes locations to them,      *)
(* keeps one object-store client per store URL, claims output targets and  *)
(* expands patterns (src/session.rs, registry.rs, backend.rs, pattern.rs,  *)
(* location.rs, local.rs).  Clones of a session are used by tasks that run *)
(* at the same time.                                                       *)
(*                                                                         *)
(* A name is one decoded segment of an object path; a spelling is how a    *)
(* URL writes a segment, and Decode what it stands for: percent-encoding   *)
(* gives one name several spellings and can hide a separator.  A segment   *)
(* of a pattern is one of names or a glob, which is the set of names it    *)
(* matches.  Parsing of text, and URLs that are refused for their syntax,  *)
(* are left out.                                                           *)
(*                                                                         *)
(* The object stores are external: other processes create and delete       *)
(* objects at any time, a request may fail, and a listing returns an       *)
(* object at most once, one that exists when it is returned, and every     *)
(* object that exists from its beginning to its end.                       *)
(***************************************************************************)
EXTENDS Integers, FiniteSets, SequencesExt

CONSTANTS None,            \* no value
          Recursive,       \* the segment **
          Tasks,           \* the tasks of the command that use the session
          Registrations,   \* the lists of backends considered
          RetryArguments,  \* the retry arguments considered
          Largest,         \* the largest finite duration
          UploadKeys, RetryKeys, \* the CLI keys of the shared arguments
          Decode,          \* the names each spelling stands for
          Spell,           \* the canonical spelling of each name
          WorkingDirectory, \* the names of the process's working directory
          Requests,        \* what a task may ask for
          Stores,          \* the store URLs
          Universe,        \* the object paths another process may create
          Initially,       \* the sets of objects a store may begin with
          MaxChanges       \* bound on the changes of other processes

ASSUME SpellingAssumption ==
  \A n \in DOMAIN Spell : /\ Spell[n] \in DOMAIN Decode
                          /\ Decode[Spell[n]] = <<n>>

ASSUME NoneAssumption == None \notin Tasks /\ None \notin RetryArguments

(* A list of backends is a sequence; a backend wants retries or not. *)
ASSUME RegistrationAssumption ==
  \A list \in Registrations : /\ list \in Seq(ToSet(list))
                              /\ \A i \in DOMAIN list : list[i].retries \in BOOLEAN

VARIABLES phase,    \* "start", "refused" or "open": the registry and session
          backends, \* the registered backends, in order
          retry,    \* the shared retry configuration
          cache,    \* object_store_cache: the client of each store URL
          lock,     \* the task that holds the lock of the cache
          made,     \* every client made
          claimed,  \* claimed_output_targets
          objects,  \* what each store contains
          changes,  \* the number of changes made by others
          pc,       \* where each task stands
          request,  \* what each task asked for
          handle,   \* its storage handle, once it has been routed
          listing,  \* the listing it reads
          found     \* the input objects it was given

session == <<phase, backends, retry>>
store   == <<objects, changes>>
vars == <<session, cache, lock, made, claimed, store, pc, request, handle,
          listing, found>>

-----------------------------------------------------------------------------
(* The registry. *)

(* What StorageBackendBuilder::build checks across the fields of a backend. *)
WellDefined(d) == /\ d.schemes # <<>>
                  /\ IsInjective(d.schemes)
                  /\ IsInjective(d.keys)
                  /\ d.patterns # None => d.map # None

UsesRetries(list) == \E i \in DOMAIN list : list[i].retries

(* The CLI keys each contributor adds to the command. *)
Contributions(list) ==
  <<UploadKeys>> \o (IF UsesRetries(list) THEN <<RetryKeys>> ELSE <<>>)
                 \o [i \in DOMAIN list |-> ToSet(list[i].keys)]

Disjoint(sets) == \A i, j \in DOMAIN sets : i # j => sets[i] \cap sets[j] = {}

UniqueNames(list) == \A i, j \in DOMAIN list :
                       list[i].name = list[j].name => i = j
UniqueSchemes(list) == Disjoint([i \in DOMAIN list |-> ToSet(list[i].schemes)])
UniqueKeys(list) == Disjoint(Contributions(list))
OneBare(list) == \A i, j \in DOMAIN list :
                   list[i].map # None /\ list[j].map # None => i = j

Registrable(list) == /\ \A i \in DOMAIN list : WellDefined(list[i])
                     /\ UniqueNames(list) /\ UniqueSchemes(list)
                     /\ UniqueKeys(list) /\ OneBare(list)

(* RetryArgs::into_retry_config: the base is None when it is not finite. *)
ValidRetry(a) ==
  \/ a.maxRetries = 0
  \/ /\ a.timeout > 0 /\ a.initial > 0 /\ a.maximum > 0
     /\ a.base # None /\ a.base > 1
     /\ a.initial <= a.maximum
     /\ a.maximum * a.base <= Largest

(* The routing index: a later entry of a scheme replaces an earlier one.
   Zero when there is none. *)
SchemeOwner(scheme) ==
  SelectLastInSeq(backends, LAMBDA d : scheme \in ToSet(d.schemes))
BareOwner == SelectLastInSeq(backends, LAMBDA d : d.map # None)

-----------------------------------------------------------------------------
(* Locations.  A URL has a scheme, an authority, a path of spellings and a
   query. *)

StoreUrl(url) == [scheme |-> url.scheme, authority |-> url.authority]

(* ObjectPath::from_url_path: the decoded path without one trailing slash. *)
Decoded(path) == FlattenSeq([i \in DOMAIN path |-> Decode[path[i]]])
ObjectPath(url) ==
  LET names == Decoded(url.path)
  IN  IF names # <<>> /\ Last(names) = "" THEN Front(names) ELSE names
IsObjectPath(names) == \A i \in DOMAIN names : names[i] \notin {"", "..", "."}

(* Objects have object paths, whose names can be spelled. *)
ASSUME UniverseAssumption ==
  /\ \A p \in Universe : p \in Seq(DOMAIN Spell) /\ IsObjectPath(p)
  /\ Initially \subseteq SUBSET Universe

(* validate_bucket_location of the cloud backends; accept_any_location. *)
BucketLocation(url) == url.authority # None /\ url.query = None
Validated(d, url) == d.validator = "bucket" => BucketLocation(url)

Supports(d, direction) == d.access \in {direction, "both"}

-----------------------------------------------------------------------------
(* Patterns.  A segment has its spelling, whether it is an active glob, and
   the pieces it matches: sets of names, or Recursive. *)

Active(segments) == \E i \in DOMAIN segments : segments[i].active

Pieces(segments) == FlattenSeq([i \in DOMAIN segments |-> segments[i].pieces])

(* The leading segments without a glob.  Faulty variant: all segments without
   one. *)
LiteralAnywhere(segments) == SelectSeq(segments, LAMBDA s : ~s.active)
LiteralSegments(segments) ==
  LET first == SelectInSeq(segments, LAMBDA s : s.active)
  IN  IF first = 0 THEN segments ELSE SubSeq(segments, 1, first - 1)

TheName(piece) == CHOOSE n \in piece : TRUE

LiteralPrefix(segments) ==
  LET pieces == Pieces(LiteralSegments(segments))
  IN  [i \in DOMAIN pieces |-> TheName(pieces[i])]

(* matcher.matches_with on a complete object path: ** stands for any number of
   segments, at the end for at least one.  from[i]: where in the path the pieces
   from the i-th on may begin. *)
Matches(pieces, path) ==
  LET n == Len(pieces)
      from[i \in 1..(n + 1)] ==
        IF i > n THEN {Len(path) + 1}
        ELSE IF pieces[i] # Recursive
        THEN {j \in 1..Len(path) : path[j] \in pieces[i] /\ j + 1 \in from[i + 1]}
        ELSE IF i = n THEN 1..Len(path)
        ELSE {j \in 1..(Len(path) + 1) : \E k \in from[i + 1] : j <= k}
  IN  1 \in from[1]

(* The URL of a pattern, its metacharacters encoded. *)
PatternUrl(p) == [p.base EXCEPT !.path = [i \in DOMAIN p.segments |->
                                            p.segments[i].spelling]]

(* A pattern of a known store: a literal segment has names, a glob a piece. *)
IsPattern(p) ==
  /\ p.base = [scheme |-> p.base.scheme, authority |-> p.base.authority,
               path |-> p.base.path, query |-> p.base.query]
  /\ StoreUrl(p.base) \in Stores
  /\ p.segments \in Seq(ToSet(p.segments))
  /\ \A s \in ToSet(p.segments) :
       /\ s.pieces \in Seq(ToSet(s.pieces))
       /\ IF s.active THEN s.pieces # <<>>
          ELSE \A x \in ToSet(s.pieces) : x # Recursive /\ \E n \in x : x = {n}

(* What a glob expands to, and what a backend makes of bare text with one, is
   a pattern. *)
ASSUME PatternAssumption ==
  \A r \in Requests : r.op = "expand" =>
    IF ~r.pattern.bare THEN IsPattern(r.pattern)
    ELSE Active(r.pattern.text.segments) =>
           \A list \in Registrations : \A i \in DOMAIN list :
             list[i].patterns # None =>
               \/ list[i].patterns[r.pattern.text] = None
               \/ IsPattern(list[i].patterns[r.pattern.text])

(* A name as a literal segment. *)
Literal(name) ==
  [spelling |-> Spell[name], active |-> FALSE, pieces |-> <<{name}>>]

(* matched_url: the URL of an object found, with the query of the pattern. *)
MatchedUrl(base, path) ==
  [base EXCEPT !.path = [i \in DOMAIN path |-> Spell[path[i]]]]

-----------------------------------------------------------------------------
(* The local backend: bare text is a path of the file system. *)

FileRoot == [scheme |-> "file", authority |-> None, path |-> <<>>, query |-> None]

BaseOf(text) == IF text.absolute THEN <<>> ELSE WorkingDirectory

(* The components of a path: the current directory and empty names are none. *)
Components(names) == SelectSeq(names, LAMBDA n : n \notin {"", "."})

(* map_bare_location: parents are kept, and refused as an object path. *)
LocalUrl(text) ==
  MatchedUrl(FileRoot, Components(BaseOf(text) \o LiteralPrefix(text.segments)))

(* lexically_normalize_absolute_path *)
Normalized(names) ==
  LET c == Components(names)
      n[i \in 0..Len(c)] ==
        IF i = 0 THEN <<>>
        ELSE IF c[i] # ".." THEN Append(n[i - 1], c[i])
        ELSE IF n[i - 1] = <<>> THEN <<>> ELSE Front(n[i - 1])
  IN  n[Len(c)]

(* map_bare_pattern: the parents before the first glob are resolved, the
   directory is literal whatever it is called. *)
LocalPattern(text) ==
  LET literal == LiteralSegments(text.segments)
      rest    == SubSeq(text.segments, Len(literal) + 1, Len(text.segments))
      names   == Normalized(BaseOf(text) \o LiteralPrefix(text.segments))
  IN  [base |-> FileRoot,
       segments |-> [i \in DOMAIN names |-> Literal(names[i])] \o rest]

-----------------------------------------------------------------------------
Init ==
  /\ phase = "start" /\ backends = <<>> /\ retry = None
  /\ cache = <<>> /\ lock = None /\ made = <<>> /\ claimed = {}
  /\ objects \in [Stores -> Initially] /\ changes = 0
  /\ pc = [t \in Tasks |-> "idle"]
  /\ request = [t \in Tasks |-> None]
  /\ handle = [t \in Tasks |-> None]
  /\ listing = [t \in Tasks |-> None]
  /\ found = [t \in Tasks |-> <<>>]

tasks == <<pc, request, handle, listing, found>>

(* StorageRegistryBuilder::build and create_session; the arguments of a
   backend may not parse. *)
CreateSession ==
  /\ phase = "start"
  /\ \E list \in Registrations, args \in RetryArguments, parsed \in BOOLEAN :
       IF /\ Registrable(list) /\ parsed
          /\ UsesRetries(list) => ValidRetry(args)
       THEN /\ phase' = "open" /\ backends' = list
            /\ retry' = IF UsesRetries(list) THEN args ELSE None
       ELSE phase' = "refused" /\ UNCHANGED <<backends, retry>>
  /\ UNCHANGED <<cache, lock, made, claimed, store, tasks>>

-----------------------------------------------------------------------------
(* Routing. *)

Chosen(input) == IF input.bare THEN BareOwner ELSE SchemeOwner(input.url.scheme)

(* The checks of create_handle and create_handle_for_location before the
   store is looked up.  Faulty variant: the scheme that a mapper returned is
   not checked. *)
RoutedAnywhere(owner, url, direction) ==
  /\ Supports(backends[owner], direction)
  /\ Validated(backends[owner], url)
  /\ IsObjectPath(ObjectPath(url))
Routed(owner, url, direction) ==
  /\ Supports(backends[owner], direction)
  /\ SchemeOwner(url.scheme) = owner
  /\ Validated(backends[owner], url)
  /\ IsObjectPath(ObjectPath(url))

(* The request fails before it reaches a store. *)
Refuse(t) == /\ pc' = [pc EXCEPT ![t] = "refused"]
             /\ UNCHANGED handle

(* create_handle_for_location; segments is empty unless a glob is expanded. *)
Route(t, owner, url, segments, direction) ==
  IF owner # 0 /\ url # None /\ Routed(owner, url, direction)
  THEN /\ pc' = [pc EXCEPT ![t] = "store"]
       /\ handle' = [handle EXCEPT ![t] =
            [owner |-> owner, url |-> url, segments |-> segments, client |-> 0]]
  ELSE Refuse(t)

(* What a mapper makes of bare text: None when there is none or it fails. *)
BareUrl(owner, text) == IF owner = 0 THEN None ELSE backends[owner].map[text]
BarePattern(owner, text) ==
  IF owner = 0 \/ backends[owner].patterns = None THEN None
  ELSE backends[owner].patterns[text]

RouteInput(t, input, direction) ==
  LET owner == Chosen(input)
  IN  Route(t, owner, IF input.bare THEN BareUrl(owner, input.text) ELSE input.url,
            <<>>, direction)

(* expand_input_pattern: without a glob it is an exact input; a bare pattern
   belongs to the backend that mapped it. *)
RoutePattern(t, pattern) ==
  LET segments == IF pattern.bare THEN pattern.text.segments ELSE pattern.segments
      mapped   == BarePattern(BareOwner, pattern.text)
      Glob(p)  == IF Active(p.segments) THEN p.segments ELSE <<>>
  IN  CASE pattern.bare /\ ~Active(segments) ->
             RouteInput(t, pattern, "input")
        [] pattern.bare /\ Active(segments) ->
             IF mapped = None THEN Refuse(t)
             ELSE Route(t, BareOwner, PatternUrl(mapped), Glob(mapped), "input")
        [] OTHER -> Route(t, SchemeOwner(pattern.base.scheme),
                          PatternUrl(pattern), Glob(pattern), "input")

(* lookup_input, expand_input_pattern and prepare_output_target begin. *)
Begin(t) ==
  /\ phase = "open" /\ pc[t] = "idle"
  /\ \E r \in Requests :
       /\ request' = [request EXCEPT ![t] = r]
       /\ \/ r.op = "lookup"  /\ RouteInput(t, r.input, "input")
          \/ r.op = "expand"  /\ RoutePattern(t, r.pattern)
          \/ r.op = "prepare" /\ RouteInput(t, r.input, "output")
  /\ UNCHANGED <<session, cache, lock, made, claimed, store, listing, found>>

-----------------------------------------------------------------------------
(* The store cache, under its lock. *)

(* Where a task goes once it has its client. *)
Resumed(t) == IF request[t].op = "prepare" THEN "claim"
              ELSE IF handle[t].segments # <<>> THEN "list" ELSE "head"

WithClient(t, c) ==
  /\ handle' = [handle EXCEPT ![t].client = c]
  /\ pc' = [pc EXCEPT ![t] = Resumed(t)]
  /\ listing' = [listing EXCEPT ![t] =
       IF Resumed(t) # "list" THEN None
       ELSE [returned |-> {}, steady |-> objects[StoreUrl(handle[t].url)]]]

(* The entry is occupied. *)
UseCached(t) ==
  /\ pc[t] = "store" /\ lock = None
  /\ StoreUrl(handle[t].url) \in DOMAIN cache
  /\ WithClient(t, cache[StoreUrl(handle[t].url)])
  /\ UNCHANGED <<session, cache, lock, made, claimed, store, request, found>>

(* The entry is vacant: the lock spans the construction of the client.  Faulty
   variant: the client is made without it. *)
FindVacantUnlocked(t) ==
  /\ pc[t] = "store" /\ lock = None
  /\ StoreUrl(handle[t].url) \notin DOMAIN cache
  /\ pc' = [pc EXCEPT ![t] = "create"]
  /\ UNCHANGED <<session, cache, lock, made, claimed, store, request, handle,
                 listing, found>>
FindVacant(t) ==
  /\ pc[t] = "store" /\ lock = None
  /\ StoreUrl(handle[t].url) \notin DOMAIN cache
  /\ lock' = t
  /\ pc' = [pc EXCEPT ![t] = "create"]
  /\ UNCHANGED <<session, cache, made, claimed, store, request, handle, listing,
                 found>>

(* Only backends that asked for shared retries are given them. *)
CreateClient(t) ==
  LET url   == StoreUrl(handle[t].url)
      owner == handle[t].owner
  IN  /\ pc[t] = "create"
      /\ made' = Append(made,
           [store |-> url, owner |-> owner,
            retry |-> IF backends[owner].retries THEN retry ELSE None])
      /\ cache' = [s \in DOMAIN cache \cup {url} |->
                     IF s = url THEN Len(made') ELSE cache[s]]
      /\ lock' = None
      /\ WithClient(t, Len(made'))
      /\ UNCHANGED <<session, claimed, store, request, found>>

(* A failed construction leaves nothing in the cache. *)
CreateFails(t) ==
  /\ pc[t] = "create"
  /\ lock' = None
  /\ pc' = [pc EXCEPT ![t] = "failed"]
  /\ UNCHANGED <<session, cache, made, claimed, store, request, handle, listing,
                 found>>

-----------------------------------------------------------------------------
(* Requests to a store.  Each is an await: others run in between. *)

Path(t) == ObjectPath(handle[t].url)
Exists(t) == Path(t) \in objects[StoreUrl(handle[t].url)]
Object(t) == [url |-> handle[t].url, path |-> Path(t)]

Stop(t, where) == pc' = [pc EXCEPT ![t] = where]
Kept == UNCHANGED <<session, cache, lock, made, store, request, handle>>

(* head for lookup_input and head_pattern: an exact pattern without an object
   expands to nothing. *)
HeadObject(t) ==
  /\ pc[t] = "head"
  /\ \/ /\ Exists(t)
        /\ found' = [found EXCEPT ![t] = <<Object(t)>>]
        /\ Stop(t, "done")
     \/ /\ ~Exists(t)
        /\ Stop(t, IF request[t].op = "expand" THEN "done" ELSE "failed")
        /\ UNCHANGED found
     \/ Stop(t, "failed") /\ UNCHANGED found
  /\ Kept /\ UNCHANGED <<claimed, listing>>

(* expand_url_pattern: an object of the listing from the literal prefix; the
   built-in validators accept what they accepted of the pattern. *)
Listed(t) == {p \in Universe : IsStrictPrefix(LiteralPrefix(handle[t].segments), p)}

ListNext(t) ==
  /\ pc[t] = "list"
  /\ \E p \in (objects[StoreUrl(handle[t].url)] \cap Listed(t))
                \ listing[t].returned :
       /\ listing' = [listing EXCEPT ![t].returned = @ \cup {p}]
       /\ found' = [found EXCEPT ![t] =
            IF Matches(Pieces(handle[t].segments), p)
            THEN Append(@, [url |-> MatchedUrl(handle[t].url, p), path |-> p])
            ELSE @]
  /\ Kept /\ UNCHANGED <<claimed, pc>>

ListEnd(t) ==
  /\ pc[t] = "list"
  /\ listing[t].steady \cap Listed(t) \subseteq listing[t].returned
  /\ Stop(t, "done")
  /\ Kept /\ UNCHANGED <<claimed, listing, found>>

ListFails(t) ==
  /\ pc[t] = "list"
  /\ Stop(t, "failed")
  /\ found' = [found EXCEPT ![t] = <<>>]
  /\ Kept /\ UNCHANGED <<claimed, listing>>

-----------------------------------------------------------------------------
(* prepare_output_target, once it has its handle. *)

(* OutputTargetIdentity: the store and the object, however the URL is spelled.
   Faulty variant: the path as the URL spells it. *)
IdentityAsSpelled(url) == [store |-> StoreUrl(url), path |-> url.path]
Identity(url) == [store |-> StoreUrl(url), path |-> ObjectPath(url)]

Claim(t) ==
  /\ pc[t] = "claim"
  /\ IF Identity(handle[t].url) \in claimed
     THEN Stop(t, "duplicate") /\ UNCHANGED claimed
     ELSE /\ claimed' = claimed \cup {Identity(handle[t].url)}
          /\ Stop(t, IF request[t].reject THEN "exists" ELSE "backend")
  /\ Kept /\ UNCHANGED <<listing, found>>

(* The claim is kept when preparation fails.  Faulty variant: it is given
   back. *)
UnpreparedUnclaimed(t) ==
  /\ Stop(t, "unprepared")
  /\ claimed' = claimed \ {Identity(handle[t].url)}
Unprepared(t) == Stop(t, "unprepared") /\ UNCHANGED claimed

(* The advisory check of RejectIfObserved. *)
CheckExisting(t) ==
  /\ pc[t] = "exists"
  /\ \/ ~Exists(t) /\ Stop(t, "backend") /\ UNCHANGED claimed
     \/ Unprepared(t)
  /\ Kept /\ UNCHANGED <<listing, found>>

(* The backend's own preparation, such as the directories of a local file. *)
PrepareBackend(t) ==
  /\ pc[t] = "backend"
  /\ \/ Stop(t, "prepared") /\ UNCHANGED claimed
     \/ Unprepared(t)
  /\ Kept /\ UNCHANGED <<listing, found>>

-----------------------------------------------------------------------------
(* Other processes create and delete objects. *)

Change ==
  /\ phase = "open" /\ changes < MaxChanges
  /\ changes' = changes + 1
  /\ \E s \in Stores, p \in Universe :
       /\ objects' = [objects EXCEPT ![s] =
            IF p \in @ THEN @ \ {p} ELSE @ \cup {p}]
       /\ listing' = [t \in Tasks |->
            IF pc[t] = "list" /\ StoreUrl(handle[t].url) = s
            THEN [listing[t] EXCEPT !.steady = @ \ {p}] ELSE listing[t]]
  /\ UNCHANGED <<session, cache, lock, made, claimed, pc, request, handle, found>>

Next ==
  \/ CreateSession
  \/ \E t \in Tasks :
       \/ Begin(t) \/ UseCached(t) \/ FindVacant(t) \/ CreateClient(t)
       \/ CreateFails(t) \/ HeadObject(t)
       \/ ListNext(t) \/ ListEnd(t) \/ ListFails(t)
       \/ Claim(t) \/ CheckExisting(t) \/ PrepareBackend(t)
  \/ Change

Spec == Init /\ [][Next]_vars

-----------------------------------------------------------------------------
(* A store URL has one client, however many tasks ask for it at once; it was
   made by the one backend that claims its scheme, also when bare text led
   there, and retries as that backend asked; every handle uses the client of
   its own store. *)
ClientOfStore ==
  /\ \A i, j \in DOMAIN made : made[i].store = made[j].store => i = j
  /\ \A i \in DOMAIN made :
       /\ {b \in DOMAIN backends :
             made[i].store.scheme \in ToSet(backends[b].schemes)} = {made[i].owner}
       /\ (made[i].retry # None) = backends[made[i].owner].retries
  /\ \A t \in Tasks : handle[t] # None /\ handle[t].client # 0 =>
       made[handle[t].client].store = StoreUrl(handle[t].url)

(* The task that got past the claim of its target, whatever became of it. *)
Won(t) == pc[t] \in {"exists", "backend", "prepared", "unprepared"}

SameObject(t, u) == /\ StoreUrl(handle[t].url) = StoreUrl(handle[u].url)
                    /\ Path(t) = Path(u)

(* An object is given out for writing at most once in a session, by whatever
   spelling, query or bare path it is named and also after a failure; a target
   is refused as claimed only when another request has this very object. *)
NeverTwice == \A t \in Tasks :
  /\ Won(t) => \A u \in Tasks \ {t} : Won(u) => ~SameObject(t, u)
  /\ pc[t] = "duplicate" => \E u \in Tasks \ {t} : Won(u) /\ SameObject(t, u)

(* A glob that was expanded gave every matching object that was there the
   whole time, none that does not match, none twice; and each URL leads back
   to the object it was found as, in the store and with the query asked for. *)
ExpansionExact == \A t \in Tasks :
  pc[t] = "done" /\ handle[t].segments # <<>> =>
    LET pieces == Pieces(handle[t].segments)
        paths  == {found[t][i].path : i \in DOMAIN found[t]}
    IN  /\ {p \in listing[t].steady : Matches(pieces, p)} \subseteq paths
        /\ \A i \in DOMAIN found[t] :
             /\ Matches(pieces, found[t][i].path)
             /\ ObjectPath(found[t][i].url) = found[t][i].path
             /\ StoreUrl(found[t][i].url) = StoreUrl(handle[t].url)
             /\ found[t][i].url.query = handle[t].url.query
             /\ \A j \in DOMAIN found[t] :
                  found[t][i].path = found[t][j].path => i = j

=============================================================================
