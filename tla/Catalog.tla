------------------------------ MODULE Catalog ------------------------------
(***************************************************************************)
(* What the program is assembled from and what a command line selects in   *)
(* it: the registry of formats (silk-chiffon-core, src/format/), the       *)
(* service inputs and outputs, the routing of URL schemes and the claims   *)
(* of command line keys (src/registration.rs), the binding of a parsed     *)
(* command, and the commands detect and inspect.                           *)
(*                                                                         *)
(* A name, an extension, a scheme or a key is a string; Folded(s) is what  *)
(* to_ascii_lowercase and the trimmed leading dot make of it.  A detector  *)
(* answers "Mismatch", "Malformed", "Failed" or a container variant.       *)
(***************************************************************************)
EXTENDS Integers, Sequences, FiniteSets, SequencesExt, Collections

CONSTANTS None,            \* what an Option holds when it holds nothing
          Parts,           \* what from_parts may be given
          Folded(_),       \* the canonical form of a name or extension
          ValidNames,      \* service names that match [a-z][a-z0-9-]*
          ValidSchemes,    \* schemes that match [a-z][a-z0-9+.-]*
          ApplicationKeys, \* CLI keys of TransformArgs
          StorageKeys,     \* CLI keys of the storage registry
          Objects          \* what detect and inspect may be asked about

(* Definitions are registered in lists, and a priority is a usize; an error is
   not None. *)
IsList(s) == s \in Seq(Range(s))
ASSUME CatalogAssumption ==
  /\ \A p \in Parts :
       /\ IsList(p.formats) /\ IsList(p.inputs) /\ IsList(p.outputs)
       /\ \A f \in Range(p.formats) :
            IsList(f.aliases) /\ IsList(f.extensions) /\ f.priority \in Nat
  /\ None \notin {"DuplicateName", "DuplicateExtension", "DuplicateCliArgument",
                  "ServiceDefinition", "DuplicateServiceInputName",
                  "DuplicateServiceOutputName", "InputSchemeClaimConflict",
                  "OutputSchemeClaimConflict", "CliKeyClaimConflict"}

VARIABLES parts,    \* the formats, backends, service inputs and outputs
          stage,    \* how far the command has come
          failure,  \* the error it ended with
          chosen,   \* the command and its format and object
          printed   \* what it has printed

catalogVars == <<parts, stage, failure, chosen, printed>>

-----------------------------------------------------------------------------
(* FormatRegistry::from_formats.  A claim is a format's index and the         *)
(* position of the value among those it declares.                             *)

Names(f) == <<f.name>> \o f.aliases
HasTransform(f) == f.transform # None
HasProvider(f) == HasTransform(f) /\ f.transform.provider
HasSink(f) == HasTransform(f) /\ f.transform.sink
ArgumentKeys(f) == IF HasTransform(f) THEN f.transform.keys ELSE {}

NamesOf(F) == [i \in DOMAIN F |-> Names(F[i])]
ExtensionsOf(F) == [i \in DOMAIN F |-> F[i].extensions]

(* What F's formats claim in an index: <<format, position>>. *)
Claims(lists) == UNION {{<<i, j>> : j \in DOMAIN lists[i]} : i \in DOMAIN lists}

(* The key of a value in an index.  Faulty variant: the value as it is
   spelled. *)
AsSpelled(value) == value
IndexKey(value) == Folded(value)

Clashes(lists) == \E a, b \in Claims(lists) :
  a # b /\ IndexKey(lists[a[1]][a[2]]) = IndexKey(lists[b[1]][b[2]])

KeysClash(Keys(_), I) == \E i, j \in I : i # j /\ Keys(i) \cap Keys(j) # {}

FormatErrors(F) ==
  << [error |-> "DuplicateName", when |-> Clashes(NamesOf(F))],
     [error |-> "DuplicateExtension", when |-> Clashes(ExtensionsOf(F))],
     [error |-> "DuplicateCliArgument",
      when |-> KeysClash(LAMBDA i : ArgumentKeys(F[i]), DOMAIN F)] >>

(* The first check that fails, as with a chain of `?`. *)
FirstError(checks) ==
  LET failing == {i \in DOMAIN checks : checks[i].when}
  IN IF failing = {} THEN None ELSE checks[CHOOSE i \in failing : \A j \in failing : i <= j].error

(* A lookup in an index whose entries were inserted in the order of the
   formats: the last format that declared the value, or 0. *)
Lookup(lists, s) ==
  LET owners == {i \in DOMAIN lists : \E v \in Range(lists[i]) : Folded(v) = Folded(s)}
  IN IF owners = {} THEN 0 ELSE CHOOSE i \in owners : \A j \in owners : j <= i
Get(F, name) == Lookup(NamesOf(F), name)
ByExtension(F, ext) == Lookup(ExtensionsOf(F), ext)

(* FormatRegistry::bind_transform: the formats with transform state. *)
Bound(F) == Filter(F, HasTransform)

-----------------------------------------------------------------------------
(* Detection: the owner of the extension first, then by priority, and in the  *)
(* order of registration where priorities are equal.                          *)

(* The sort of from_formats, and that of bind_transform.  Faulty variant: the
   bindings are asked in the order of registration. *)
Before(F) == {p \in (DOMAIN F) \X (DOMAIN F) :
  \/ F[p[1]].priority < F[p[2]].priority
  \/ F[p[1]].priority = F[p[2]].priority /\ p[1] < p[2]}
BoundByIndex(F) == {p \in (DOMAIN F) \X (DOMAIN F) : p[1] < p[2]}
BoundBefore(F) == Before(F)

(* The detectors of S are asked in turn; the first that does not answer
   "Mismatch" decides, be it with an error. *)
Ask(F, S, order, o) ==
  LET deciding == {i \in S : o.answers[F[i].name] # "Mismatch"}
      owner == ByExtension(F, o.extension)
      first == IF owner \in deciding THEN owner
               ELSE CHOOSE i \in deciding : \A j \in deciding \ {i} : <<i, j>> \in order
  IN IF deciding = {} THEN [format |-> None, answer |-> "Mismatch"]
     ELSE [format |-> F[first].name, answer |-> o.answers[F[first].name]]

(* FormatRegistry::detect and TransformBindings::detect. *)
RegistryDetects(F, o) == Ask(F, {i \in DOMAIN F : F[i].detector}, Before(F), o)
BindingsDetect(F, o) ==
  LET B == Bound(F)
  IN Ask(B, {i \in DOMAIN B : B[i].detector /\ HasProvider(B[i])}, BoundBefore(B), o)

Recognised(d) == d.answer \notin {"Mismatch", "Malformed", "Failed"}

-----------------------------------------------------------------------------
(* Service definitions, and who owns a scheme.                                *)

ValidService(s) ==
  /\ s.name \in ValidNames
  /\ s.schemes # <<>> /\ Range(s.schemes) \subseteq ValidSchemes
  /\ \A i, j \in DOMAIN s.schemes : i # j => s.schemes[i] # s.schemes[j]
InputsBuild(p) == \A s \in Range(p.inputs) : ValidService(s)
OutputsBuild(p) == \A s \in Range(p.outputs) : ValidService(s)

Supports(b, direction) == b.access \in {direction, "ReadWrite"}
BackendsFor(B, direction) == {i \in DOMAIN B : Supports(B[i], direction)}

(* Two claims of one scheme in one direction.  Faulty variant: the claims of
   the services are not counted. *)
SchemeClashUncounted(B, services, direction) ==
  KeysClash(LAMBDA i : B[i].schemes, BackendsFor(B, direction))
SchemeClash(B, services, direction) ==
  \/ KeysClash(LAMBDA i : B[i].schemes, BackendsFor(B, direction))
  \/ KeysClash(LAMBDA i : Range(services[i].schemes), DOMAIN services)
  \/ \E i \in BackendsFor(B, direction), k \in DOMAIN services :
       B[i].schemes \cap Range(services[k].schemes) # {}

InputSchemesClash(p) == SchemeClash(p.backends, p.inputs, "ReadOnly")
OutputSchemesClash(p) == SchemeClash(p.backends, p.outputs, "WriteOnly")

(* The owner of a scheme: a service's position (the last one inserted), files
   or nobody. *)
Files == 0
Nobody == -1
SchemeOwner(B, services, direction, scheme) ==
  LET claiming == {k \in DOMAIN services : scheme \in Range(services[k].schemes)}
  IN IF claiming # {} THEN CHOOSE k \in claiming : \A j \in claiming : j <= k
     ELSE IF \E i \in BackendsFor(B, direction) : scheme \in B[i].schemes
          THEN Files ELSE Nobody

SameName(services) ==
  \E i, j \in DOMAIN services : i # j /\ services[i].name = services[j].name

(* validate_cli_key_claims: the formats together are one claimant. *)
CliClaimants(p) ==
  <<ApplicationKeys, UNION {ArgumentKeys(p.formats[i]) : i \in DOMAIN p.formats},
    StorageKeys>>
  \o [i \in DOMAIN p.inputs |-> p.inputs[i].keys]
  \o [i \in DOMAIN p.outputs |-> p.outputs[i].keys]

AssemblyErrors(p) ==
  << [error |-> "DuplicateServiceInputName", when |-> SameName(p.inputs)],
     [error |-> "DuplicateServiceOutputName", when |-> SameName(p.outputs)],
     [error |-> "InputSchemeClaimConflict", when |-> InputSchemesClash(p)],
     [error |-> "OutputSchemeClaimConflict", when |-> OutputSchemesClash(p)],
     [error |-> "CliKeyClaimConflict",
      when |-> KeysClash(LAMBDA i : CliClaimants(p)[i], DOMAIN CliClaimants(p))] >>

-----------------------------------------------------------------------------
(* The program: its registries, its definition, a command line, a command.    *)

CatalogInit ==
  /\ parts \in Parts
  /\ stage = "registries" /\ failure = None /\ chosen = None /\ printed = None

(* stage moves on, unless there is an error. *)
StepTo(next, error) ==
  /\ stage' = IF error = None THEN next ELSE "ended"
  /\ failure' = error

BuildFormats ==
  /\ stage = "registries"
  /\ StepTo("services", FirstError(FormatErrors(parts.formats)))
  /\ UNCHANGED <<parts, chosen, printed>>

BuildServices ==
  /\ stage = "services"
  /\ StepTo("assembly",
            IF InputsBuild(parts) /\ OutputsBuild(parts) THEN None ELSE "ServiceDefinition")
  /\ UNCHANGED <<parts, chosen, printed>>

FromParts ==
  /\ stage = "assembly"
  /\ StepTo("assembled", FirstError(AssemblyErrors(parts)))
  /\ UNCHANGED <<parts, chosen, printed>>

(* Clap offers a subcommand of inspect for each format that has an inspector,
   with its aliases. *)
Inspectable == {i \in DOMAIN parts.formats : parts.formats[i].inspector}

(* A command line is parsed and bound; the parser of the settings of a format,
   backend or service may refuse its own. *)
ParserAnswers == {None, "Arguments"}
Bind(command) ==
  /\ stage = "assembled"
  /\ chosen' = command
  /\ \E error \in ParserAnswers : StepTo("bound", error)
  /\ UNCHANGED <<parts, printed>>

BindDetect == \E o \in Objects : Bind([name |-> "detect", object |-> o])
BindInspect == \E o \in Objects, i \in Inspectable :
  Bind([name |-> "inspect", format |-> parts.formats[i].name, object |-> o])

End(error, output) ==
  /\ stage = "bound"
  /\ stage' = "ended" /\ failure' = error /\ printed' = output
  /\ UNCHANGED <<parts, chosen>>

(* commands/detect.rs: a detector's error is the command's. *)
RunDetect ==
  /\ chosen # None /\ chosen.name = "detect"
  /\ \/ End("Lookup", None)
     \/ LET d == RegistryDetects(parts.formats, chosen.object)
        IN IF d.answer \in {"Malformed", "Failed"} THEN End(d.answer, None)
           ELSE End(None, [format |-> d.format, answer |-> d.answer])

(* commands/inspect.rs: the format is the subcommand's, whatever the object
   holds; its inspector may refuse it. *)
RunInspect ==
  /\ chosen # None /\ chosen.name = "inspect"
  /\ \/ End("Lookup", None)
     \/ End("Inspection", None)
     \/ End(None, [format |-> chosen.format, answer |-> "Inspected"])

CatalogNext ==
  \/ BuildFormats \/ BuildServices \/ FromParts
  \/ BindDetect \/ BindInspect
  \/ RunDetect \/ RunInspect

-----------------------------------------------------------------------------
(* Properties *)

Assembled == stage = "assembled"

FormatsAreReached(F) == \A i \in DOMAIN F :
  /\ \A k \in DOMAIN Names(F[i]) : Get(F, Names(F[i])[k]) = i
  /\ \A ext \in Range(F[i].extensions) : ByExtension(F, ext) = i

ServicesAreReached(services, direction) ==
  /\ \A k \in DOMAIN services : \A s \in Range(services[k].schemes) :
       SchemeOwner(parts.backends, services, direction, s) = k
  /\ \A b \in BackendsFor(parts.backends, direction) :
       \A s \in parts.backends[b].schemes :
         SchemeOwner(parts.backends, services, direction, s) = Files

(* Everything that was registered is reached under each of its names, in any
   spelling: a program that starts has no definition that another one shadows,
   neither in the registry nor among the formats bound for a transform, and
   every scheme leads to the definition that claims it. *)
RoutesAreUnique == Assembled =>
  /\ FormatsAreReached(parts.formats) /\ FormatsAreReached(Bound(parts.formats))
  /\ ServicesAreReached(parts.inputs, "ReadOnly")
  /\ ServicesAreReached(parts.outputs, "WriteOnly")

(* transform reads an object as the format and variant that detect reports,
   unless that format cannot be read; it recognises nothing that detect does
   not. *)
DetectionAgrees == Assembled => \A o \in Objects :
  LET seen == RegistryDetects(parts.formats, o)
      read == BindingsDetect(parts.formats, o)
      f == parts.formats[Get(parts.formats, seen.format)]
  IN /\ Recognised(seen) /\ HasProvider(f) => read = seen
     /\ seen.answer = "Mismatch" => read = seen
=============================================================================
