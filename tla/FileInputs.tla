----------------------------- MODULE FileInputs -----------------------------
(***************************************************************************)
(* How a transform command turns its operands into table providers: routing*)
(* by scheme (src/commands/transform.rs), lookup, expansion, detection and *)
(* grouping of files (transform/file_input.rs), and the providers over a   *)
(* group (silk-chiffon-core, src/file_input/ and exact_file_provider.rs).  *)
(*                                                                         *)
(* An operand has a scheme, or None, and the objects that its reference    *)
(* names or its pattern matches.  Other processes may replace an object    *)
(* between any two reads of it.                                            *)
(***************************************************************************)
EXTENDS Catalog

CONSTANTS UrlOrder(_, _),  \* the order of URLs as strings
          CheckedFormats,  \* formats whose provider reads every file's metadata
          Concurrency,     \* meta_fetch_concurrency of DataFusion
          Contents,        \* what an object may hold: [schema, ordering, empty]
          FirstContents(_),\* what an object holds when the command starts
          MaxRewrites      \* bound on the changes by other processes

(* What an object holds: a schema whose nodes have a name, a type and whether
   nulls are allowed, and the columns by which it is sorted. *)
IsContents(c) ==
  /\ IsList(c.ordering) /\ IsList(c.schema.nodes)
  /\ \A d \in Range(c.schema.nodes) :
       /\ d = [name |-> d.name, type |-> d.type, nullable |-> d.nullable]
       /\ d.nullable \in BOOLEAN

(* URLs are strings, and an object is what a URL names. *)
ASSUME InputsAssumption ==
  /\ \A c \in Contents : IsContents(c)
  /\ \A a \in Objects : IsContents(FirstContents(a)) /\ a.size \in Nat /\ a.store # None
  /\ \A a, b \in Objects : a = b \/ UrlOrder(a.url, b.url) \/ UrlOrder(b.url, a.url)
  /\ \A a, b \in Objects : UrlOrder(a.url, b.url) => ~UrlOrder(b.url, a.url)
  /\ \A a, b, c \in Objects :
       UrlOrder(a.url, b.url) /\ UrlOrder(b.url, c.url) => UrlOrder(a.url, c.url)

VARIABLES phase,     \* where run stands
          operands,  \* the operands still to do
          found,     \* objects of the current operand not yet identified
          groups,    \* its groups not yet turned into providers
          building,  \* the group whose provider is being made, or NoGroup
          finished,  \* <<index, ordering>> of its files, in the order read
          providers, \* the providers made
          views,     \* the store that DataFusion knows under each namespace
          contents,  \* contents[o]: what an object holds now
          rewrites   \* changes so far

inputVars == <<phase, operands, found, groups, building, finished, providers,
               views, contents, rewrites>>
groupVars == <<found, groups, building, finished>>

Args == chosen.args
Running(p) == stage = "bound" /\ chosen.name = "transform" /\ phase = p

Stores == {o.store : o \in Objects}
NoGroup == [files |-> <<>>]

InputsInit ==
  /\ phase = "options" /\ operands = <<>> /\ found = <<>> /\ groups = <<>>
  /\ building = NoGroup /\ finished = <<>> /\ providers = <<>>
  /\ views = [r \in Stores |-> None]
  /\ contents = [o \in Objects |-> FirstContents(o)] /\ rewrites = 0

Fail(error) == stage' = "ended" /\ failure' = error
Goes == UNCHANGED <<stage, failure>>

-----------------------------------------------------------------------------
(* FileInputPreparer::identify, with and without --input-format.              *)

Unknown == [format |-> None, answer |-> "Mismatch"]
Identified(o) ==
  LET B == Bound(parts.formats)
      i == Get(B, Args.inputFormat)
  IN CASE Args.inputFormat = None -> BindingsDetect(parts.formats, o)
       [] Args.inputFormat # None /\ i = 0 -> Unknown
       [] Args.inputFormat # None /\ i # 0 /\ B[i].detector ->
            [format |-> B[i].name, answer |-> o.answers[B[i].name]]
       [] OTHER -> [format |-> B[i].name, answer |-> "Unnamed"]

(* An object joins the group of its format, variant and store, in the order in
   which the groups were first met. *)
SameKind(g, d, o) ==
  /\ g.format = d.format /\ g.variant = d.answer
  /\ g.files[1].store = o.store
Joined(G, d, o) ==
  LET same == {i \in DOMAIN G : SameKind(G[i], d, o)}
  IN IF same = {}
     THEN Append(G, [format |-> d.format, variant |-> d.answer, files |-> <<o>>])
     ELSE [G EXCEPT ![CHOOSE i \in same : TRUE].files = Append(@, o)]

-----------------------------------------------------------------------------
(* FileInputGroup: the largest file represents the group, the first URL where *)
(* two are as large; DataFusion is given one store of one root for it, which  *)
(* it keeps under a URL made of the root; a later group may register it again.*)

(* Faulty variant: one URL for all roots. *)
OneNamespace(store) == CHOOSE r \in Stores : TRUE
Namespace(store) == store

(* A view decodes the path and refuses the object of another root. *)
Reachable(o) == views[Namespace(o.store)] = o.store

Represents(files, i) == \A j \in DOMAIN files \ {i} :
  \/ files[i].size > files[j].size
  \/ files[i].size = files[j].size /\ UrlOrder(files[i].url, files[j].url)
Representative(files) == files[CHOOSE i \in DOMAIN files : Represents(files, i)]
OneRoot(files) == \A i \in DOMAIN files : files[i].store = files[1].store

(* The indices that buffer_unordered reads at once: the first that are not
   done. *)
InFlight ==
  LET left == {i \in DOMAIN building.files : building.status[i] # "done"}
  IN {i \in left : Cardinality({j \in left : j < i}) < Concurrency}

(* common_output_ordering: what all files are sorted by.  Faulty variant: what
   the first is sorted by. *)
CommonOrderingOfFirst(orders) == orders[1]
CommonOrdering(orders) ==
  IF <<>> \in Range(orders) THEN <<>> ELSE LongestCommonPrefix(Range(orders))

(* The metadata in the order of the operands, however the reads finished.
   Faulty variant: in the order of the reads. *)
AsRead(meta) == meta
InOrderOfIndex(meta) == [i \in DOMAIN meta |-> CHOOSE m \in Range(meta) : m[1] = i]

FileProvider(g, meta) ==
  [kind |-> "File", format |-> g.format, variant |-> g.variant, schema |-> g.schema,
   files |-> [i \in DOMAIN meta |-> g.files[meta[i][1]]],
   ordering |-> CommonOrdering([i \in DOMAIN meta |-> meta[i][2]])]

-----------------------------------------------------------------------------
(* Schemas.  A schema is its metadata and its fields, nested ones included, in *)
(* preorder: a node is a name, a type without its children, and whether nulls  *)
(* are allowed.                                                                *)

Compatible(left, right, nulls) ==
  /\ Len(left.nodes) = Len(right.nodes)
  /\ \A i \in DOMAIN left.nodes :
       LET l == left.nodes[i]  r == right.nodes[i]
       IN l.name = r.name /\ l.type = r.type /\ <<l.nullable, r.nullable>> \in nulls

(* schemas_match_ignoring_metadata.  Faulty variant: a file may refine the
   nulls, as a batch may. *)
SameNulls == {<<TRUE, TRUE>>, <<FALSE, FALSE>>}
MayRefine == SameNulls \cup {<<TRUE, FALSE>>}
MatchesRefined(left, right) == Compatible(left, right, MayRefine)
SchemasMatch(left, right) == Compatible(left, right, SameNulls)

-----------------------------------------------------------------------------
(* Actions                                                                    *)

(* Patterns are checked before anything is read: none may be a service's. *)
PatternAccepted(p) ==
  p.scheme # None =>
    SchemeOwner(parts.backends, parts.inputs, "ReadOnly", p.scheme) = Files
CheckPatterns ==
  /\ Running("patterns")
  /\ IF \A p \in Range(Args.patterns) : PatternAccepted(p)
     THEN Goes /\ phase' = "inputs"
     ELSE Fail("PatternScheme") /\ UNCHANGED phase
  /\ operands' = Args.references \o Args.patterns
  /\ UNCHANGED <<groupVars, providers, views, contents, rewrites>>

(* The objects of S, each once, sorted by URL. *)
InUrlOrder(S) == CHOOSE s \in [1..Cardinality(S) -> S] :
  \A i, j \in DOMAIN s : i < j => UrlOrder(s[i].url, s[j].url)

Idle == Running("inputs") /\ found = <<>> /\ groups = <<>> /\ building = NoGroup
OwnerOf(r) == IF r.scheme = None THEN Files
              ELSE SchemeOwner(parts.backends, parts.inputs, "ReadOnly", r.scheme)
Quiet == UNCHANGED <<phase, views, contents, rewrites>>

UnsupportedScheme ==
  /\ Idle /\ operands # <<>> /\ OwnerOf(Head(operands)) = Nobody
  /\ Fail("UnsupportedScheme")
  /\ UNCHANGED <<operands, groupVars, providers>> /\ Quiet

(* The service decides what it reads when it makes its provider. *)
ServiceInput ==
  /\ Idle /\ operands # <<>> /\ OwnerOf(Head(operands)) > Files
  /\ \/ /\ providers' = Append(providers, [kind |-> "Service", files |-> <<>>])
        /\ Goes
     \/ Fail("ServiceInput") /\ UNCHANGED providers
  /\ operands' = Tail(operands)
  /\ UNCHANGED groupVars /\ Quiet

(* An exact reference is looked up, a pattern expanded; the matches are sorted
   by URL and each is taken once. *)
FileOperand ==
  /\ Idle /\ operands # <<>> /\ OwnerOf(Head(operands)) = Files
  /\ LET r == Head(operands)
     IN \/ Fail("Storage") /\ UNCHANGED found
        \/ /\ r.objects = {} /\ ~Args.allowUnmatched
           /\ Fail("NoMatch") /\ UNCHANGED found
        \/ /\ r.objects # {} \/ Args.allowUnmatched
           /\ found' = InUrlOrder(r.objects)
           /\ Goes
  /\ operands' = Tail(operands)
  /\ UNCHANGED <<groups, building, finished, providers>> /\ Quiet

Identify ==
  /\ Running("inputs") /\ found # <<>>
  /\ LET d == Identified(Head(found))
     IN IF Recognised(d)
        THEN groups' = Joined(groups, d, Head(found)) /\ found' = Tail(found) /\ Goes
        ELSE Fail("Unidentified") /\ UNCHANGED <<found, groups>>
  /\ UNCHANGED <<operands, building, finished, providers>> /\ Quiet

(* FileInputGroup::try_new, and the schema of the representative. *)
StartGroup ==
  /\ Running("inputs") /\ found = <<>> /\ groups # <<>> /\ building = NoGroup
  /\ LET g == Head(groups)
         root == g.files[1].store
     IN IF ~OneRoot(g.files) THEN Fail("SeveralRoots") /\ UNCHANGED <<views, building>>
        ELSE /\ views' = [views EXCEPT ![Namespace(root)] = root]
             /\ \/ /\ building' = [format |-> g.format, variant |-> g.variant,
                                   files |-> g.files,
                                   schema |-> contents[Representative(g.files)].schema,
                                   order |-> [i \in DOMAIN g.files |-> <<>>],
                                   status |-> [i \in DOMAIN g.files |-> "unread"]]
                   /\ Goes
                \/ Fail("InferSchema") /\ UNCHANGED building
  /\ groups' = Tail(groups) /\ finished' = <<>>
  /\ UNCHANGED <<operands, found, providers, phase, contents, rewrites>>

Checking == Running("inputs") /\ building # NoGroup /\ building.format \in CheckedFormats

(* One file's statistics and ordering, and then its schema: two reads. *)
ReadOrdering(i) ==
  /\ Checking /\ i \in InFlight /\ building.status[i] = "unread"
  /\ \/ /\ Reachable(building.files[i])
        /\ building' = [building EXCEPT !.status[i] = "ordered",
                                       !.order[i] = contents[building.files[i]].ordering]
        /\ Goes
     \/ Fail("FileMetadata") /\ UNCHANGED building
  /\ UNCHANGED <<operands, found, groups, finished, providers>> /\ Quiet

CheckSchema(i) ==
  /\ Checking /\ i \in InFlight /\ building.status[i] = "ordered"
  /\ IF SchemasMatch(building.schema, contents[building.files[i]].schema)
     THEN /\ finished' = Append(finished, <<i, building.order[i]>>)
          /\ building' = [building EXCEPT !.status[i] = "done"]
          /\ Goes
     ELSE Fail("SchemaMismatch") /\ UNCHANGED <<finished, building>>
  /\ UNCHANGED <<operands, found, groups, providers>> /\ Quiet

(* The provider is there when every file has been read.  Arrow reads only the
   representative, once more for a sample, and claims no ordering. *)
ProviderBuilt ==
  /\ Running("inputs") /\ building # NoGroup
  /\ \/ /\ Checking /\ Len(finished) = Len(building.files)
        /\ providers' = Append(providers, FileProvider(building, InOrderOfIndex(finished)))
        /\ Goes
     \/ /\ ~Checking
        /\ \/ providers' = Append(providers, FileProvider(building,
                [i \in DOMAIN building.files |-> <<i, <<>>>>])) /\ Goes
           \/ Fail("Sample") /\ UNCHANGED providers
  /\ building' = NoGroup /\ finished' = <<>>
  /\ UNCHANGED <<operands, found, groups>> /\ Quiet

(* --input-format must apply to something, and something must be selected. *)
InputsDone ==
  /\ Idle /\ operands = <<>>
  /\ IF \/ Args.inputFormat # None /\ \A p \in Range(providers) : p.kind # "File"
        \/ providers = <<>>
     THEN Fail("NoInput") /\ UNCHANGED phase
     ELSE Goes /\ phase' = "planning"
  /\ UNCHANGED <<operands, groupVars, providers, views, contents, rewrites>>

InputsNext ==
  \/ CheckPatterns \/ UnsupportedScheme \/ ServiceInput \/ FileOperand
  \/ Identify \/ StartGroup \/ ProviderBuilt \/ InputsDone
  \/ Checking /\ \E i \in InFlight : ReadOrdering(i) \/ CheckSchema(i)

(* Another process replaces an object. *)
Rewrite(o) ==
  /\ stage = "bound" /\ rewrites < MaxRewrites
  /\ \E c \in Contents \ {contents[o]} : contents' = [contents EXCEPT ![o] = c]
  /\ rewrites' = rewrites + 1
  /\ Goes
  /\ UNCHANGED <<phase, operands, groupVars, providers, views>>

-----------------------------------------------------------------------------
(* Properties *)

FileProviders == Filter(providers, LAMBDA p : p.kind = "File")
Operands == Filter(Args.references, LAMBDA r : OwnerOf(r) = Files) \o Args.patterns

(* Once the inputs are ready, every object an operand names is read once for
   that operand, by a provider of its own format, variant and store; a
   provider's files are in the order of their URLs whatever order their metadata
   arrived in. *)
GroupsExact == stage = "bound" /\ chosen.name = "transform" /\ phase = "planning" =>
  /\ SumOf([i \in DOMAIN FileProviders |-> Len(FileProviders[i].files)])
       = SumOf([i \in DOMAIN Operands |-> Cardinality(Operands[i].objects)])
  /\ \A r \in Range(Operands) : \A o \in r.objects : \E p \in Range(FileProviders) :
       /\ o \in Range(p.files) /\ Range(p.files) \subseteq r.objects
       /\ Identified(o) = [format |-> p.format, answer |-> p.variant]
  /\ \A p \in Range(FileProviders) : \A i, j \in DOMAIN p.files :
       /\ i < j => UrlOrder(p.files[i].url, p.files[j].url)
       /\ p.files[i].store = p.files[j].store

(* Each file of each provider can still be read through the session, however
   many groups of however many stores were made since; and what a provider
   claims holds of it, unless one was replaced in the meantime: the ordering by
   which the plan merges and skips sorts and, where the format checks it, the
   structure and the nulls of the schema. *)
ClaimsHold == \A p \in Range(FileProviders) : \A o \in Range(p.files) :
  /\ Reachable(o)
  /\ rewrites = 0 => /\ IsPrefix(p.ordering, contents[o].ordering)
                     /\ p.format \in CheckedFormats =>
                          p.schema.nodes = contents[o].schema.nodes
=============================================================================
